---------------------------- MODULE ServerProofs ----------------------------
(***************************************************************************)
(* Theorems about Server, for any number of io threads, workers and        *)
(* connections: it uses the task pool as TaskPool specifies it, it is      *)
(* taken down in order, it keeps accepting, and every connection is with   *)
(* one thread, task or operation at a time.                                *)
(***************************************************************************)
EXTENDS Server, SequenceTheorems, FiniteSetTheorems, TLAPS

MainPC == {"init", "threads", "signals", "check", "asleep", "stop_pool", "join_pool",
           "stop_io", "join_io", "returned", "freed", "killed"}
IoPC == {"none", "run", "accept", "handle", "adding", "closing", "done"}

ServerTypeOK ==
  /\ main \in MainPC
  /\ io_stopped \in BOOLEAN /\ accepting \in BOOLEAN /\ broken \in BOOLEAN
  /\ ran_out \in BOOLEAN
  /\ at \in [IoThreads -> IoPC]
  /\ on \in [IoThreads -> Conns \cup {NoConn}]
  /\ pending \in SUBSET Conns /\ spare \in SUBSET Conns
  /\ new_connection \in Conns \cup {NoConn}

(* What the pool is doing, by where Run is. *)
PoolPhase ==
  /\ main = "init" => threads = {} /\ ~stopping
  /\ main \in {"threads", "signals", "check", "asleep", "stop_pool"} =>
       threads = Workers /\ ~stopping
  /\ main = "join_pool" => threads = Workers /\ stopping
  /\ main \in {"stop_io", "join_io", "returned", "freed"} =>
       threads = {} /\ ~stopping /\ \A w \in Workers : pc[w] = "done"

(* What the io threads are doing, by where Run is. *)
IoPhase ==
  /\ main \in {"init", "threads"} => accepting /\ \A t \in IoThreads : at[t] = "none"
  /\ io_stopped => ran_out \/ main \in {"join_io", "returned", "freed"}
  /\ main \in {"returned", "freed"} => \A t \in IoThreads : at[t] = "done"

(* One accept at a time: it is pending, or its handler runs. *)
OneAccept ==
  /\ accepting => new_connection \in Conns /\ \A t \in IoThreads : at[t] # "accept"
  /\ \A t, u \in IoThreads : at[t] = "accept" /\ at[u] = "accept" => t = u
  /\ new_connection \notin spare

Handles(t, c) == on[t] = c /\ at[t] \in {"handle", "adding"}
Handled(c) == \E t \in IoThreads : Handles(t, c)
InPool(c) == pool!Queued(c) \/ \E w \in Workers : pool!Holds(w, c)

(* A connection that nothing has been started with. *)
Fresh(c) == c \in spare \/ (accepting /\ c = new_connection)

(* A connection is with one handler, or in the pool, or it has an          *)
(* operation pending, or none of these.                                    *)
Alone(c) ==
  /\ \A t, u \in IoThreads : Handles(t, c) /\ Handles(u, c) => t = u
  /\ Handled(c) => c \notin pending /\ ~InPool(c)
  /\ c \in pending => ~InPool(c)
  /\ Fresh(c) => c \notin pending /\ ~Handled(c) /\ caller[c] = "idle"

(* A handler inside AddTask has not pushed the task yet.                   *)
HandlerState(t) ==
  /\ at[t] \in {"handle", "adding", "closing"} => on[t] \in Conns
  /\ at[t] = "adding" => caller[on[t]] \in {"checked", "refused"}

Apart == (\A c \in Conns : Alone(c)) /\ (\A t \in IoThreads : HandlerState(t))

ServerInv == ServerTypeOK /\ PoolPhase /\ IoPhase /\ OneAccept /\ Apart
----------------------------------------------------------------------------
(* TaskPool's lemmas, about the pool of this server. *)
TP == INSTANCE TaskPoolProofs WITH Tasks <- Conns, NoTask <- NoConn

LEMMA PoolAssumed == TP!PoolAssumption
<1>1. IsFiniteSet(Workers) <=> TP!IsFiniteSet(Workers)
  BY DEF IsFiniteSet, TP!IsFiniteSet
<1> QED BY <1>1, ServerAssumption, Zenon DEF TP!PoolAssumption

LEMMA SamePool ==
  /\ TP!TypeOK <=> pool!TypeOK
  /\ TP!TaskInOnePlace <=> pool!TaskInOnePlace
  /\ TP!BusyHasTask <=> \A w \in Workers : pc[w] \in pool!Busy => task[w] \in Conns
  /\ (TP!Init <=> pool!Init) /\ (TP!Next <=> pool!Next) /\ TP!vars = pool!vars
<1>1. (TP!TypeOK <=> pool!TypeOK) /\ TP!vars = pool!vars
  BY DEF TP!TypeOK, pool!TypeOK, TP!WorkerPC, pool!WorkerPC, TP!CallerPC, pool!CallerPC,
         TP!vars, pool!vars
<1>2. TP!TaskInOnePlace <=> pool!TaskInOnePlace
  BY DEF TP!TaskInOnePlace, pool!TaskInOnePlace, TP!Queued, pool!Queued, TP!Holds, pool!Holds,
         TP!Busy, pool!Busy
<1>3. TP!BusyHasTask <=> \A w \in Workers : pc[w] \in pool!Busy => task[w] \in Conns
  BY DEF TP!BusyHasTask, TP!Busy, pool!Busy
<1>4. TP!Init <=> pool!Init
  BY DEF TP!Init, pool!Init
<1>5. TP!Next <=> pool!Next
  <2>1. (TP!InitPool <=> pool!InitPool) /\ (TP!JoinThreads <=> pool!JoinThreads)
    BY DEF TP!InitPool, pool!InitPool, TP!JoinThreads, pool!JoinThreads
  <2>2. \A join \in BOOLEAN : TP!RequestExit(join) <=> pool!RequestExit(join)
    BY DEF TP!RequestExit, pool!RequestExit, TP!NotifyAll, pool!NotifyAll
  <2>3. \A w \in Workers : TP!WorkerStep(w) <=> pool!WorkerStep(w)
    BY DEF TP!WorkerStep, pool!WorkerStep, TP!NextTask, pool!NextTask, TP!Popped, pool!Popped,
           TP!Render, pool!Render, TP!Recheck, pool!Recheck, TP!Respond, pool!Respond
  <2>4. \A w \in Workers : TP!SpuriousWakeup(w) <=> pool!SpuriousWakeup(w)
    BY DEF TP!SpuriousWakeup, pool!SpuriousWakeup
  <2>5. \A t \in Conns : (TP!CheckThreads(t) <=> pool!CheckThreads(t))
                           /\ (TP!PushTask(t) <=> pool!PushTask(t))
    BY DEF TP!CheckThreads, pool!CheckThreads, TP!PushTask, pool!PushTask, TP!NotifyAll,
           pool!NotifyAll
  <2> QED BY <2>1, <2>2, <2>3, <2>4, <2>5 DEF TP!Next, pool!Next
<1> QED BY <1>1, <1>2, <1>3, <1>4, <1>5

(* What the server needs to know of its pool. *)
PoolInv ==
  /\ pool!TypeOK /\ pool!TaskInOnePlace
  /\ \A w \in Workers : pc[w] \in pool!Busy => task[w] \in Conns

LEMMA PoolInit == pool!Init => PoolInv
<1>1. TP!PoolAssumption => (TP!Init => TP!TypeOK)
  BY TP!TypeInit
<1>2. pool!Init => pool!TaskInOnePlace /\ \A w \in Workers : pc[w] \notin pool!Busy
  BY DEF pool!Init, pool!TaskInOnePlace, pool!Queued, pool!Holds, pool!Busy
<1> QED BY <1>1, <1>2, PoolAssumed, SamePool DEF PoolInv

LEMMA PoolStep == PoolInv /\ [pool!Next]_(pool!vars) => PoolInv'
<1> SUFFICES ASSUME PoolInv, [pool!Next]_(pool!vars) PROVE PoolInv'
  OBVIOUS
<1>1. TP!TypeOK /\ TP!TaskInOnePlace /\ TP!BusyHasTask /\ [TP!Next]_(TP!vars)
  <2>1. UNCHANGED pool!vars => UNCHANGED TP!vars
    BY DEF pool!vars, TP!vars
  <2> QED BY <2>1, SamePool DEF PoolInv
<1>2. /\ TP!PoolAssumption => (TP!TypeOK /\ [TP!Next]_(TP!vars) => TP!TypeOK')
      /\ TP!PoolAssumption =>
           (TP!TypeOK /\ TP!TaskInOnePlace /\ [TP!Next]_(TP!vars) => TP!TaskInOnePlace')
      /\ TP!PoolAssumption =>
           (TP!TypeOK /\ TP!BusyHasTask /\ [TP!Next]_(TP!vars) => TP!BusyHasTask')
  BY TP!TypeStep, TP!PlacesStep, TP!BusyStep
<1>3. TP!TypeOK' /\ TP!TaskInOnePlace' /\ TP!BusyHasTask'
  BY <1>1, <1>2, PoolAssumed
<1>4. TP!TypeOK' <=> pool!TypeOK'
  BY DEF TP!TypeOK, pool!TypeOK, TP!WorkerPC, pool!WorkerPC, TP!CallerPC, pool!CallerPC
<1> QED BY <1>3, <1>4, SamePool, PTL DEF PoolInv
----------------------------------------------------------------------------
LEMMA ServerInit == Init => ServerInv /\ PoolInv
<1> SUFFICES ASSUME Init PROVE ServerInv /\ PoolInv
  OBVIOUS
<1>1. ServerTypeOK
  BY DEF Init, ServerTypeOK, MainPC, IoPC
<1>2. PoolPhase /\ IoPhase
  BY DEF Init, pool!Init, PoolPhase, IoPhase
<1>3. OneAccept
  BY DEF Init, OneAccept
<1>4. Apart
  BY DEF Init, pool!Init, Apart, Alone, HandlerState, Handles, Handled, InPool, pool!Queued,
         pool!Holds, pool!Busy
<1>5. PoolInv
  BY PoolInit DEF Init
<1> QED BY <1>1, <1>2, <1>3, <1>4, <1>5 DEF ServerInv

(* Every step of the server is one of the pool, or none of it. *)
LEMMA PoolUsed ==
  ASSUME ServerInv, [Next]_vars PROVE [pool!Next]_(pool!vars)
<1> USE DEF pool!Next, pool!vars, poolVars, serverVars
<1>1. CASE Main
  BY <1>1 DEF Main, InitPool, StartIoThreads, WaitForSignal, CheckStop, StopPool, StopIo,
              JoinIoThreads, LeaveRunServer
<1>2. CASE WakeUp \/ RaiseSignal
  BY <1>2 DEF WakeUp, RaiseSignal
<1>3. ASSUME NEW t \in IoThreads,
             HandleSignal(t) \/ AcceptFails(t) \/ HandleAccept(t) \/ BeginHandler(t)
               \/ AcceptNext(t) \/ EndHandler(t) \/ HandlerThrows(t) \/ EndThread(t)
      PROVE  UNCHANGED pool!vars
  BY <1>3 DEF HandleSignal, AcceptFails, HandleAccept, BeginHandler, AcceptNext, EndHandler,
              HandlerThrows, EndThread
<1>4. ASSUME NEW t \in IoThreads, CallAddTask(t) \/ EndAddTask(t)
      PROVE  [pool!Next]_(pool!vars)
  <2>1. on[t] \in Conns
    BY <1>4 DEF ServerInv, Apart, HandlerState, CallAddTask, EndAddTask, ThreadGoes
  <2> QED BY <1>4, <2>1 DEF CallAddTask, EndAddTask
<1>5. ASSUME NEW w \in Workers, Worker(w) \/ WorkerWakesUp(w)
      PROVE  [pool!Next]_(pool!vars)
  BY <1>5 DEF Worker, WorkerWakesUp, pool!WorkerStep
<1>6. CASE UNCHANGED vars
  BY <1>6 DEF vars
<1> QED BY <1>1, <1>2, <1>3, <1>4, <1>5, <1>6 DEF Next, Finish

(* The end of a handler may stop the io_service.                           *)
LEMMA EndsEffect ==
  ASSUME ServerTypeOK, HandlerEnds
  PROVE  /\ io_stopped' \in BOOLEAN /\ ran_out' \in BOOLEAN
         /\ io_stopped' => io_stopped \/ ran_out'
         /\ ran_out => ran_out'
         /\ ran_out' => ran_out \/ ~HasWork'
<1>1. /\ io_stopped \in BOOLEAN /\ ran_out \in BOOLEAN
      /\ io_stopped' = (io_stopped \/ ~HasWork')
      /\ ran_out' = (ran_out \/ (~io_stopped /\ ~HasWork'))
  BY DEF ServerTypeOK, HandlerEnds
<1>2. PICK work \in BOOLEAN : work = (HasWork' \/ FALSE)
  OBVIOUS
<1> QED BY <1>1, Zenon

LEMMA ServerTypeStep == ASSUME ServerInv, PoolInv, [Next]_vars PROVE ServerTypeOK'
<1> USE DEF ServerInv, ServerTypeOK, MainPC, IoPC
<1>1. CASE Main
  BY <1>1 DEF Main, MainGoes, InitPool, StartIoThreads, WaitForSignal, CheckStop, StopPool,
              StopIo, JoinIoThreads, LeaveRunServer
<1>2. CASE WakeUp \/ RaiseSignal
  BY <1>2 DEF WakeUp, RaiseSignal, MainGoes
<1>3. ASSUME NEW t \in IoThreads, HandleSignal(t) \/ AcceptFails(t) \/ HandleAccept(t)
      PROVE  ServerTypeOK'
  <2>1. io_stopped' \in BOOLEAN /\ ran_out' \in BOOLEAN
    BY <1>3, EndsEffect DEF HandleSignal, AcceptFails, HandleAccept
  <2> QED BY <1>3, <2>1 DEF HandleSignal, AcceptFails, HandleAccept, ThreadGoes, OneAccept
<1>4. ASSUME NEW t \in IoThreads, BeginHandler(t) \/ EndHandler(t) \/ HandlerThrows(t)
      PROVE  ServerTypeOK'
  <2>1. CASE BeginHandler(t)
    BY <2>1 DEF BeginHandler, ThreadGoes
  <2>2. CASE EndHandler(t)
    <3>1. pending' \in SUBSET Conns
      BY <2>2 DEF EndHandler, Apart, HandlerState
    <3>2. io_stopped' \in BOOLEAN /\ ran_out' \in BOOLEAN
      BY <2>2, EndsEffect DEF EndHandler
    <3> QED BY <2>2, <3>1, <3>2 DEF EndHandler, ThreadGoes
  <2>3. CASE HandlerThrows(t)
    <3>1. broken' \in BOOLEAN
      BY <2>3 DEF HandlerThrows
    <3>2. io_stopped' \in BOOLEAN /\ ran_out' \in BOOLEAN
      BY <2>3, EndsEffect DEF HandlerThrows
    <3> QED BY <2>3, <3>1, <3>2 DEF HandlerThrows, ThreadGoes
  <2> QED BY <1>4, <2>1, <2>2, <2>3
<1>5. ASSUME NEW t \in IoThreads, AcceptNext(t) \/ CallAddTask(t) \/ EndAddTask(t) \/ EndThread(t)
      PROVE  ServerTypeOK'
  <2>1. CASE AcceptNext(t)
    BY <2>1 DEF AcceptNext, ThreadGoes
  <2>2. CASE CallAddTask(t) \/ EndThread(t)
    BY <2>2 DEF CallAddTask, EndThread, ThreadGoes
  <2>3. CASE EndAddTask(t)
    <3>1. pending' \in SUBSET Conns
      BY <2>3 DEF EndAddTask, ThreadGoes, Apart, HandlerState
    <3> QED BY <2>3, <3>1 DEF EndAddTask, ThreadGoes
  <2> QED BY <1>5, <2>1, <2>2, <2>3
<1>6. ASSUME NEW w \in Workers, Worker(w) \/ WorkerWakesUp(w) PROVE ServerTypeOK'
  <2>1. pool!Respond(w) => task[w] \in Conns
    BY DEF pool!Respond, PoolInv, pool!Busy
  <2> QED BY <1>6, <2>1 DEF Worker, WorkerWakesUp, serverVars
<1>7. CASE UNCHANGED vars
  BY <1>7 DEF vars, serverVars
<1> QED BY <1>1, <1>2, <1>3, <1>4, <1>5, <1>6, <1>7 DEF Next, Finish

LEMMA PoolPhaseStep == ASSUME ServerInv, PoolInv, [Next]_vars PROVE PoolPhase'
<1> USE DEF ServerInv, PoolInv, pool!TypeOK, PoolPhase
<1>1. CASE InitPool
  BY <1>1 DEF InitPool, MainGoes, pool!InitPool
<1>2. CASE StopPool
  BY <1>2, ServerAssumption DEF StopPool, MainGoes, pool!RequestExit, pool!NotifyAll,
              pool!JoinThreads
<1>3. CASE \/ StartIoThreads \/ WaitForSignal \/ CheckStop \/ StopIo \/ JoinIoThreads
           \/ LeaveRunServer \/ WakeUp \/ RaiseSignal
  BY <1>3 DEF StartIoThreads, WaitForSignal, CheckStop, StopIo, JoinIoThreads, LeaveRunServer,
              WakeUp, RaiseSignal, MainGoes, poolVars
<1>4. ASSUME NEW t \in IoThreads,
             HandleSignal(t) \/ AcceptFails(t) \/ HandleAccept(t) \/ BeginHandler(t)
               \/ AcceptNext(t) \/ EndHandler(t) \/ HandlerThrows(t) \/ EndThread(t)
      PROVE  PoolPhase'
  BY <1>4 DEF HandleSignal, AcceptFails, HandleAccept, BeginHandler, AcceptNext, EndHandler,
              HandlerThrows, EndThread, poolVars
<1>5. ASSUME NEW t \in IoThreads, CallAddTask(t) \/ EndAddTask(t) PROVE PoolPhase'
  BY <1>5 DEF CallAddTask, EndAddTask, pool!CheckThreads, pool!PushTask, pool!NotifyAll, poolVars
<1>6. ASSUME NEW w \in Workers, Worker(w) \/ WorkerWakesUp(w) PROVE PoolPhase'
  BY <1>6 DEF Worker, WorkerWakesUp, serverVars, pool!NextTask, pool!Render, pool!Recheck,
              pool!Respond, pool!SpuriousWakeup
<1>7. CASE UNCHANGED vars
  BY <1>7 DEF vars, serverVars, poolVars
<1> QED BY <1>1, <1>2, <1>3, <1>4, <1>5, <1>6, <1>7 DEF Next, Finish, Main

LEMMA IoPhaseStep == ASSUME ServerInv, PoolInv, [Next]_vars PROVE IoPhase'
<1> USE DEF ServerInv, ServerTypeOK, IoPC, MainPC, IoPhase
<1>1. CASE Main
  <2>1. CASE InitPool \/ WaitForSignal
    BY <2>1 DEF MainGoes, InitPool, WaitForSignal
  <2>2. CASE StartIoThreads
    BY <2>2 DEF MainGoes, StartIoThreads
  <2>3. CASE CheckStop
    BY <2>3 DEF CheckStop
  <2>4. CASE StopPool
    <3>1. main' \in {"join_pool", "stop_io"} /\ UNCHANGED <<io_stopped, ran_out, at, accepting>>
          /\ main \in {"stop_pool", "join_pool"}
      BY <2>4 DEF StopPool, MainGoes
    <3> QED BY <3>1
  <2>5. CASE StopIo \/ JoinIoThreads \/ LeaveRunServer
    BY <2>5 DEF MainGoes, StopIo, JoinIoThreads, LeaveRunServer
  <2> QED BY <1>1, <2>1, <2>2, <2>3, <2>4, <2>5 DEF Main
<1>2. CASE WakeUp \/ RaiseSignal
  BY <1>2 DEF WakeUp, RaiseSignal, MainGoes
<1>3. ASSUME NEW t \in IoThreads,
             HandleSignal(t) \/ AcceptFails(t) \/ HandleAccept(t) \/ BeginHandler(t)
               \/ AcceptNext(t)
      PROVE  IoPhase'
  <2>1. (io_stopped' => io_stopped \/ ran_out') /\ (ran_out => ran_out')
    BY <1>3, EndsEffect DEF HandleSignal, AcceptFails, HandleAccept, BeginHandler, AcceptNext
  <2> QED BY <1>3, <2>1
          DEF HandleSignal, AcceptFails, HandleAccept, BeginHandler, AcceptNext, ThreadGoes
<1>4. ASSUME NEW t \in IoThreads,
             EndHandler(t) \/ HandlerThrows(t) \/ EndThread(t) \/ CallAddTask(t) \/ EndAddTask(t)
      PROVE  IoPhase'
  <2>1. (io_stopped' => io_stopped \/ ran_out') /\ (ran_out => ran_out')
    BY <1>4, EndsEffect DEF EndHandler, HandlerThrows, EndThread, CallAddTask, EndAddTask
  <2> QED BY <1>4, <2>1 DEF EndHandler, HandlerThrows, EndThread, CallAddTask, EndAddTask, ThreadGoes
<1>5. ASSUME NEW w \in Workers, Worker(w) \/ WorkerWakesUp(w) PROVE IoPhase'
  BY <1>5 DEF Worker, WorkerWakesUp, serverVars
<1>6. CASE UNCHANGED vars
  BY <1>6 DEF vars, serverVars
<1> QED BY <1>1, <1>2, <1>3, <1>4, <1>5, <1>6 DEF Next, Finish

LEMMA OneAcceptStep == ASSUME ServerInv, PoolInv, [Next]_vars PROVE OneAccept'
<1> USE DEF ServerInv, ServerTypeOK, IoPC, OneAccept
<1>1. CASE StartIoThreads
  BY <1>1 DEF StartIoThreads
<1>2. CASE LeaveRunServer
  BY <1>2, ServerAssumption DEF LeaveRunServer, ServerKept
<1>3. CASE \/ InitPool \/ WaitForSignal \/ CheckStop \/ StopPool \/ StopIo \/ JoinIoThreads
           \/ WakeUp \/ RaiseSignal
  <2>1. UNCHANGED <<accepting, new_connection, at, spare>>
    BY <1>3 DEF InitPool, WaitForSignal, CheckStop, StopPool, StopIo, JoinIoThreads, WakeUp,
                RaiseSignal
  <2> QED BY <2>1
<1>4. ASSUME NEW t \in IoThreads, HandleSignal(t) \/ AcceptFails(t) \/ HandleAccept(t)
      PROVE  OneAccept'
  BY <1>4 DEF HandleSignal, AcceptFails, HandleAccept, ThreadGoes
<1>5. ASSUME NEW t \in IoThreads, AcceptNext(t) PROVE OneAccept'
  BY <1>5 DEF AcceptNext, ThreadGoes
<1>6. ASSUME NEW t \in IoThreads, BeginHandler(t) \/ EndHandler(t) \/ HandlerThrows(t)
      PROVE  OneAccept'
  BY <1>6 DEF BeginHandler, EndHandler, HandlerThrows, ThreadGoes
<1>7. ASSUME NEW t \in IoThreads, EndThread(t) \/ CallAddTask(t) \/ EndAddTask(t)
      PROVE  OneAccept'
  BY <1>7 DEF EndThread, CallAddTask, EndAddTask, ThreadGoes
<1>8. ASSUME NEW w \in Workers, Worker(w) \/ WorkerWakesUp(w) PROVE OneAccept'
  BY <1>8 DEF Worker, WorkerWakesUp, serverVars
<1>9. CASE UNCHANGED vars
  BY <1>9 DEF vars, serverVars
<1> QED
  BY <1>1, <1>2, <1>3, <1>4, <1>5, <1>6, <1>7, <1>8, <1>9 DEF Next, Finish, Main
----------------------------------------------------------------------------
(* Steps that bring a connection nowhere it was not before. *)
LEMMA ApartKept ==
  ASSUME ServerInv,
         \A t \in IoThreads : at'[t] \in {"handle", "adding", "closing"} =>
                                at'[t] = at[t] /\ on'[t] = on[t],
         \A c \in Conns : (InPool(c)' => InPool(c)) /\ (Fresh(c)' => Fresh(c)),
         pending' \subseteq pending, caller' = caller
  PROVE  Apart'
<1>1. \A t \in IoThreads, c \in Conns : Handles(t, c)' => Handles(t, c)
  BY DEF Handles
<1>2. \A c \in Conns : Handled(c)' => Handled(c)
  BY <1>1 DEF Handled
<1>3. ASSUME NEW c \in Conns
      PROVE  Alone(c)'
  BY <1>1, <1>2 DEF ServerInv, Apart, Alone
<1>4. \A t \in IoThreads : HandlerState(t)'
  BY DEF ServerInv, Apart, HandlerState
<1> QED BY <1>3, <1>4 DEF Apart

(* A connection in the pool has been accepted by AddTask.                  *)
LEMMA InPoolAccepted ==
  ASSUME PoolInv, NEW c \in Conns, InPool(c) PROVE caller[c] = "accepted"
BY DEF PoolInv, InPool, pool!TaskInOnePlace

(* What a worker does leads a connection out of the pool, never into it.   *)
LEMMA WorkersTakeOut ==
  ASSUME PoolInv, NEW w \in Workers, pool!WorkerStep(w) \/ pool!SpuriousWakeup(w), NEW c \in Conns
  PROVE  InPool(c)' => InPool(c)
<1> USE DEF PoolInv, pool!TypeOK, pool!Busy, pool!Holds
<1>1. CASE pool!NextTask(w)
  <2>1. CASE tasks = <<>>
    BY <1>1, <2>1 DEF pool!NextTask, pool!Popped, InPool, pool!Queued
  <2>2. CASE tasks # <<>>
    <3>1. /\ Head(tasks) = tasks[1] /\ 1 \in 1..Len(tasks)
          /\ Len(tasks') = Len(tasks) - 1
          /\ \A i \in 1..Len(tasks') : tasks'[i] = tasks[i + 1] /\ i + 1 \in 1..Len(tasks)
      BY <1>1, <2>2, HeadTailProperties, EmptySeq DEF pool!NextTask, pool!Popped
    <3>2. pool!Queued(c)' => pool!Queued(c)
      BY <3>1 DEF pool!Queued
    <3>3. \A v \in Workers : pool!Holds(v, c)' => pool!Holds(v, c) \/ c = Head(tasks)
      BY <1>1, <2>2 DEF pool!NextTask
    <3> QED BY <3>1, <3>2, <3>3 DEF InPool, pool!Queued
  <2> QED BY <2>1, <2>2
<1>2. CASE pool!Render(w) \/ pool!Recheck(w) \/ pool!Respond(w) \/ pool!SpuriousWakeup(w)
  BY <1>2 DEF pool!Render, pool!Recheck, pool!Respond, pool!SpuriousWakeup, InPool, pool!Queued
<1> QED BY <1>1, <1>2 DEF pool!WorkerStep

(* The accepted connection is fresh, so that nobody else is with it.       *)
LEMMA ApartHandleAccept ==
  ASSUME ServerInv, PoolInv, NEW t \in IoThreads, HandleAccept(t) PROVE Apart'
<1> DEFINE n == new_connection
<1> USE DEF ServerInv, ServerTypeOK, IoPC
<1>1. n \in Conns /\ Fresh(n)
  BY DEF HandleAccept, OneAccept, Fresh
<1>2. /\ \A u \in IoThreads, c \in Conns : Handles(u, c)' <=> Handles(u, c)
      /\ \A u \in IoThreads : at'[u] \in {"handle", "adding", "closing"} =>
                                at'[u] = at[u] /\ on'[u] = on[u]
  BY DEF HandleAccept, ThreadGoes, Handles
<1>3. pending' = pending \cup {n} /\ caller' = caller
  BY DEF HandleAccept, poolVars
<1>4. ASSUME NEW c \in Conns
      PROVE  /\ Handled(c)' <=> Handled(c)
             /\ InPool(c)' <=> InPool(c)
             /\ Fresh(c)' => Fresh(c) /\ c # n
  <2>1. Handled(c)' <=> Handled(c)
    BY <1>2 DEF Handled
  <2>2. InPool(c)' <=> InPool(c)
    BY DEF InPool, pool!Queued, pool!Holds, HandleAccept, poolVars
  <2>3. Fresh(c)' => Fresh(c) /\ c # n
    BY DEF Fresh, HandleAccept, OneAccept
  <2> QED BY <2>1, <2>2, <2>3
<1>5. ~Handled(n) /\ ~InPool(n)
  BY <1>1, InPoolAccepted DEF Apart, Alone
<1>6. ASSUME NEW c \in Conns
      PROVE  Alone(c)'
  BY <1>2, <1>3, <1>4, <1>5 DEF Apart, Alone
<1>7. \A u \in IoThreads : HandlerState(u)'
  BY <1>2, <1>3 DEF Apart, HandlerState
<1> QED BY <1>6, <1>7 DEF Apart

(* The connection's operation is over when its handler begins.             *)
LEMMA ApartBeginHandler ==
  ASSUME ServerInv, PoolInv, NEW t \in IoThreads, BeginHandler(t) PROVE Apart'
<1> USE DEF ServerInv, ServerTypeOK, IoPC
<1>1. PICK d \in pending : on' = [on EXCEPT ![t] = d] /\ pending' = pending \ {d}
  BY DEF BeginHandler
<1>2. at[t] = "run" /\ at' = [at EXCEPT ![t] = "handle"] /\ d \in Conns
  BY DEF BeginHandler, ThreadGoes
<1>3. caller' = caller
  BY DEF BeginHandler, poolVars
<1>4. \A u \in IoThreads, c \in Conns :
        Handles(u, c)' <=> (Handles(u, c) \/ (u = t /\ c = d))
  BY <1>1, <1>2 DEF Handles
<1>5. \A c \in Conns : (InPool(c)' <=> InPool(c)) /\ (Fresh(c)' <=> Fresh(c))
  BY DEF InPool, pool!Queued, pool!Holds, Fresh, BeginHandler, poolVars
<1>6. ~Handled(d) /\ ~InPool(d) /\ ~Fresh(d)
  BY <1>2 DEF Apart, Alone
<1>7. ASSUME NEW c \in Conns
      PROVE  Alone(c)'
  BY <1>1, <1>3, <1>4, <1>5, <1>6 DEF Apart, Alone, Handled
<1>8. \A u \in IoThreads : HandlerState(u)'
  BY <1>1, <1>2, <1>3 DEF Apart, HandlerState
<1> QED BY <1>7, <1>8 DEF Apart

(* The handler hands the connection over to the operation it starts.       *)
LEMMA ApartEndHandler ==
  ASSUME ServerInv, PoolInv, NEW t \in IoThreads, EndHandler(t) PROVE Apart'
<1> USE DEF ServerInv, ServerTypeOK, IoPC
<1>1. /\ at[t] \in {"handle", "closing"} /\ at' = [at EXCEPT ![t] = "run"]
      /\ on' = [on EXCEPT ![t] = NoConn] /\ on[t] \in Conns
  BY DEF EndHandler, ThreadGoes, Apart, HandlerState
<1>2. caller' = caller
  BY DEF EndHandler, poolVars
<1>3. \A u \in IoThreads, c \in Conns : Handles(u, c)' <=> (Handles(u, c) /\ u # t)
  BY <1>1 DEF Handles
<1>4. \A c \in Conns : (InPool(c)' <=> InPool(c)) /\ (Fresh(c)' <=> Fresh(c))
  BY DEF InPool, pool!Queued, pool!Holds, Fresh, EndHandler, poolVars
<1>5. \A c \in Conns : c \in pending' => c \in pending \/ (Handles(t, c) /\ c = on[t])
  BY <1>1 DEF EndHandler, Handles
<1>6. ASSUME NEW c \in Conns
      PROVE  Alone(c)'
  BY <1>2, <1>3, <1>4, <1>5 DEF Apart, Alone, Handled
<1>7. \A u \in IoThreads : HandlerState(u)'
  BY <1>1, <1>2 DEF Apart, HandlerState
<1> QED BY <1>6, <1>7 DEF Apart

(* CheckThreads leaves the connection with its handler.                    *)
LEMMA ApartCallAddTask ==
  ASSUME ServerInv, PoolInv, NEW t \in IoThreads, CallAddTask(t) PROVE Apart'
<1> USE DEF ServerInv, ServerTypeOK, IoPC
<1> DEFINE d == on[t]
<1>1. /\ at[t] = "handle" /\ at' = [at EXCEPT ![t] = "adding"]
      /\ on' = on /\ d \in Conns /\ pending' = pending
  BY DEF CallAddTask, ThreadGoes, Apart, HandlerState
<1>2. /\ \A c \in Conns : c # d => caller'[c] = caller[c]
      /\ caller[d] = "idle" /\ caller'[d] \in {"checked", "refused"}
  BY <1>1 DEF CallAddTask, pool!CheckThreads, PoolInv, pool!TypeOK
<1>3. \A u \in IoThreads, c \in Conns : Handles(u, c)' <=> Handles(u, c)
  BY <1>1 DEF Handles
<1>4. \A c \in Conns : (InPool(c)' <=> InPool(c)) /\ (Fresh(c)' <=> Fresh(c))
  BY DEF InPool, pool!Queued, pool!Holds, Fresh, CallAddTask, pool!CheckThreads
<1>5. Handles(t, d)
  BY <1>1 DEF Handles
<1>6. ASSUME NEW c \in Conns
      PROVE  Alone(c)'
  BY <1>1, <1>2, <1>3, <1>4, <1>5 DEF Apart, Alone, Handled
<1>7. \A u \in IoThreads : HandlerState(u)'
  <2> SUFFICES ASSUME NEW u \in IoThreads PROVE HandlerState(u)'
    OBVIOUS
  <2>1. CASE u = t
    BY <1>1, <1>2, <2>1 DEF HandlerState
  <2>2. CASE u # t
    <3>1. at'[u] = "adding" => on[u] # d
      BY <1>1, <1>5, <2>2 DEF Apart, Alone, Handles
    <3> QED BY <1>1, <1>2, <2>2, <3>1 DEF Apart, HandlerState
  <2> QED BY <2>1, <2>2
<1> QED BY <1>6, <1>7 DEF Apart

(* PushTask brings the connection from its handler to the queue; a refused *)
(* one gets the operation that answers it.                                 *)
LEMMA ApartEndAddTask ==
  ASSUME ServerInv, PoolInv, NEW t \in IoThreads, EndAddTask(t) PROVE Apart'
<1> USE DEF ServerInv, ServerTypeOK, IoPC
<1>1. PICK d \in Conns :
        /\ on[t] = d /\ on' = on
        /\ at[t] = "adding" /\ at' = [at EXCEPT ![t] = "closing"]
  BY DEF EndAddTask, ThreadGoes, Apart, HandlerState
<1>2. \A u \in IoThreads, c \in Conns : Handles(u, c)' <=> (Handles(u, c) /\ u # t)
  BY <1>1 DEF Handles
<1>3. Handles(t, d) /\ ~Handled(d)'
  <2>1. Handles(t, d)
    BY <1>1 DEF Handles
  <2> QED BY <1>2, <2>1 DEF Apart, Alone, Handled
<1>4. d \notin pending /\ ~InPool(d) /\ ~Fresh(d)
  BY <1>1, <1>3 DEF Apart, Alone, Handled
<1>5. \A c \in Conns : Fresh(c)' <=> Fresh(c)
  BY DEF Fresh, EndAddTask
<1>6. \A c \in Conns : Handled(c)' => Handled(c) /\ c # d
  BY <1>2, <1>3 DEF Handled
<1>7. /\ \A c \in Conns : (InPool(c)' => InPool(c) \/ (c = d /\ pending' = pending))
      /\ \A c \in Conns : c \in pending' => c \in pending \/ (c = d /\ ~InPool(c)')
      /\ \A c \in Conns : c # d => caller'[c] = caller[c]
  <2>1. CASE pool!PushTask(d) /\ UNCHANGED pending
    <3>1. \A c \in Conns : pool!Queued(c)' => pool!Queued(c) \/ c = d
      <4> SUFFICES ASSUME NEW c \in Conns, NEW i \in 1..Len(tasks'), tasks'[i] = c, c # d
                   PROVE  pool!Queued(c)
        BY DEF pool!Queued
      <4>1. tasks \in Seq(Conns) /\ tasks' = Append(tasks, d)
        BY <2>1 DEF PoolInv, pool!TypeOK, pool!PushTask
      <4>2. i \in 1..Len(tasks) /\ tasks[i] = c
        BY <1>1, <4>1, AppendProperties
      <4> QED BY <4>2 DEF pool!Queued
    <3>2. \A w \in Workers, c \in Conns : pool!Holds(w, c)' => pool!Holds(w, c)
      BY <2>1 DEF pool!Holds, pool!Busy, pool!PushTask, pool!NotifyAll, PoolInv, pool!TypeOK
    <3>3. \A c \in Conns : c # d => caller'[c] = caller[c]
      BY <2>1 DEF pool!PushTask, PoolInv, pool!TypeOK
    <3> QED BY <2>1, <3>1, <3>2, <3>3 DEF InPool
  <2>2. CASE pending' = pending \cup {d} /\ UNCHANGED poolVars
    <3>1. (\A c \in Conns : InPool(c)' <=> InPool(c)) /\ caller' = caller
      BY <2>2 DEF InPool, pool!Queued, pool!Holds, poolVars
    <3> QED BY <1>4, <2>2, <3>1
  <2> QED BY <1>1, <2>1, <2>2 DEF EndAddTask
<1>8. ASSUME NEW c \in Conns
      PROVE  Alone(c)'
  <2>1. c # d => Alone(c)'
    BY <1>2, <1>5, <1>6, <1>7 DEF Apart, Alone
  <2>2. c = d => Alone(c)'
    BY <1>2, <1>3, <1>4, <1>5, <1>7 DEF Apart, Alone
  <2> QED BY <2>1, <2>2
<1>9. \A u \in IoThreads : HandlerState(u)'
  <2> SUFFICES ASSUME NEW u \in IoThreads PROVE HandlerState(u)'
    OBVIOUS
  <2>1. CASE u = t
    BY <1>1, <2>1 DEF HandlerState
  <2>2. CASE u # t
    <3>1. at'[u] = "adding" => on[u] # d
      BY <1>1, <1>3, <2>2 DEF Apart, Alone, Handles
    <3> QED BY <1>1, <1>7, <2>2, <3>1 DEF Apart, HandlerState
  <2> QED BY <2>1, <2>2
<1> QED BY <1>8, <1>9 DEF Apart

(* The worker that answers lets go of the connection as it starts the      *)
(* operation.                                                              *)
LEMMA ApartRespond ==
  ASSUME ServerInv, PoolInv, NEW w \in Workers, Worker(w), pool!Respond(w),
         pending' = pending \cup {task[w]}
  PROVE  Apart'
<1> USE DEF ServerInv, ServerTypeOK, PoolInv, pool!TypeOK
<1>1. PICK d \in Conns : d = task[w] /\ pool!Holds(w, d)
  BY DEF pool!Respond, pool!Busy, pool!Holds
<1>2. \A v \in Workers, c \in Conns : pool!Holds(v, c)' => pool!Holds(v, c) /\ v # w
  BY DEF pool!Respond, pool!Holds, pool!Busy
<1>3. tasks' = tasks /\ caller' = caller /\ on' = on /\ at' = at
        /\ spare' = spare /\ new_connection' = new_connection /\ accepting' = accepting
  BY DEF pool!Respond, Worker
<1>4. \A c \in Conns : (pool!Queued(c)' <=> pool!Queued(c)) /\ (Fresh(c)' <=> Fresh(c))
  BY <1>3 DEF pool!Queued, Fresh
<1>5. ~pool!Queued(d) /\ \A v \in Workers : pool!Holds(v, d) => v = w
  BY <1>1 DEF pool!TaskInOnePlace
<1>6. /\ InPool(d) /\ ~InPool(d)'
      /\ \A c \in Conns : InPool(c)' => InPool(c)
  BY <1>1, <1>2, <1>4, <1>5 DEF InPool
<1>7. \A t \in IoThreads, c \in Conns : Handles(t, c)' <=> Handles(t, c)
  BY <1>3 DEF Handles
<1>8. d \notin pending /\ ~Handled(d) /\ ~Fresh(d)
  BY <1>6, InPoolAccepted DEF Apart, Alone
<1>9. ASSUME NEW c \in Conns
      PROVE  Alone(c)'
  BY <1>1, <1>3, <1>4, <1>6, <1>7, <1>8 DEF Apart, Alone, Handled
<1>10. \A t \in IoThreads : HandlerState(t)'
  BY <1>3 DEF Apart, HandlerState
<1> QED BY <1>9, <1>10 DEF Apart

LEMMA ApartStep == ASSUME ServerInv, PoolInv, [Next]_vars PROVE Apart'
<1> USE DEF ServerInv, ServerTypeOK, IoPC
<1> DEFINE Still ==
      /\ \A t \in IoThreads : at'[t] \in {"handle", "adding", "closing"} =>
                                at'[t] = at[t] /\ on'[t] = on[t]
      /\ \A c \in Conns : (InPool(c)' => InPool(c)) /\ (Fresh(c)' => Fresh(c))
      /\ pending' \subseteq pending /\ caller' = caller
<1>1. Still => Apart'
  BY ApartKept
<1>2. CASE InitPool \/ StopPool
  <2>1. /\ \A w \in Workers, c \in Conns : pool!Holds(w, c)' => pool!Holds(w, c)
        /\ tasks' \in {tasks, <<>>} /\ caller' = caller
    BY <1>2 DEF InitPool, StopPool, pool!InitPool, pool!RequestExit, pool!NotifyAll,
                pool!JoinThreads, pool!Holds, pool!Busy, PoolInv, pool!TypeOK
  <2>2. \A c \in Conns : InPool(c)' => InPool(c)
    BY <2>1 DEF InPool, pool!Queued
  <2>3. UNCHANGED <<at, on, pending, spare, accepting, new_connection>>
    BY <1>2 DEF InitPool, StopPool
  <2>4. Still
    BY <2>1, <2>2, <2>3 DEF Fresh
  <2> QED BY <1>1, <2>4
<1>3. ASSUME \/ StartIoThreads \/ WaitForSignal \/ CheckStop \/ StopIo \/ JoinIoThreads
             \/ LeaveRunServer \/ WakeUp \/ RaiseSignal
             \/ \E t \in IoThreads : HandleSignal(t) \/ AcceptFails(t) \/ AcceptNext(t)
                                       \/ HandlerThrows(t) \/ EndThread(t)
             \/ UNCHANGED vars
      PROVE  Apart'
  <2>1. UNCHANGED poolVars
    BY <1>3 DEF StartIoThreads, WaitForSignal, CheckStop, StopIo, JoinIoThreads,
       LeaveRunServer, WakeUp, RaiseSignal, HandleSignal, AcceptFails, AcceptNext,
       HandlerThrows, EndThread, vars
  <2>2. (\A c \in Conns : InPool(c)' => InPool(c)) /\ caller' = caller
    BY <2>1 DEF poolVars, InPool, pool!Queued, pool!Holds
  <2>3. pending' \subseteq pending
    BY <1>3 DEF StartIoThreads, WaitForSignal, CheckStop, StopIo, JoinIoThreads,
       LeaveRunServer, WakeUp, RaiseSignal, HandleSignal, AcceptFails, AcceptNext,
       HandlerThrows, EndThread, vars, serverVars
  <2>4. \A t \in IoThreads : at'[t] \in {"handle", "adding", "closing"} =>
                               at'[t] = at[t] /\ on'[t] = on[t]
    <3>1. CASE StartIoThreads
      BY <3>1 DEF StartIoThreads
    <3>2. CASE \/ WaitForSignal \/ CheckStop \/ StopIo \/ JoinIoThreads \/ LeaveRunServer
               \/ WakeUp \/ RaiseSignal \/ UNCHANGED vars
      BY <3>2 DEF WaitForSignal, CheckStop, StopIo, JoinIoThreads, LeaveRunServer, WakeUp,
                  RaiseSignal, vars, serverVars
    <3>3. ASSUME NEW t \in IoThreads,
                 HandleSignal(t) \/ AcceptFails(t) \/ AcceptNext(t) \/ HandlerThrows(t)
                   \/ EndThread(t)
          PROVE  /\ \A u \in IoThreads \ {t} : at'[u] = at[u] /\ on'[u] = on[u]
                 /\ (at'[t] = at[t] /\ on' = on) \/ at'[t] \in {"run", "done"}
      BY <3>3 DEF HandleSignal, AcceptFails, AcceptNext, HandlerThrows, EndThread, ThreadGoes
    <3> QED BY <1>3, <3>1, <3>2, <3>3
  <2>5. \A c \in Conns : Fresh(c)' => Fresh(c)
    <3>1. CASE LeaveRunServer
      BY <3>1 DEF LeaveRunServer, ServerKept, Fresh
    <3>2. ASSUME NEW t \in IoThreads, AcceptNext(t) PROVE \A c \in Conns : Fresh(c)' => Fresh(c)
      BY <3>2 DEF AcceptNext, Fresh
    <3>3. ASSUME NEW t \in IoThreads, AcceptFails(t) PROVE \A c \in Conns : Fresh(c)' => Fresh(c)
      BY <3>3 DEF AcceptFails, Fresh
    <3>4. CASE \/ StartIoThreads \/ WaitForSignal \/ CheckStop \/ StopIo \/ JoinIoThreads
               \/ WakeUp \/ RaiseSignal \/ UNCHANGED vars
               \/ \E t \in IoThreads : HandleSignal(t) \/ HandlerThrows(t) \/ EndThread(t)
      BY <3>4 DEF StartIoThreads, WaitForSignal, CheckStop, StopIo, JoinIoThreads, WakeUp,
         RaiseSignal, HandleSignal, HandlerThrows, EndThread, vars, serverVars, Fresh
    <3> QED BY <1>3, <3>1, <3>2, <3>3, <3>4
  <2>6. Still
    BY <2>2, <2>3, <2>4, <2>5
  <2> QED BY <1>1, <2>6
<1>4. ASSUME NEW w \in Workers, Worker(w) \/ WorkerWakesUp(w) PROVE Apart'
  <2>1. CASE UNCHANGED pending
    <3>1. UNCHANGED <<at, on, spare, accepting, new_connection>>
      BY <1>4 DEF Worker, WorkerWakesUp, serverVars
    <3>2. (pool!WorkerStep(w) \/ pool!SpuriousWakeup(w)) /\ caller' = caller
      BY <1>4 DEF Worker, WorkerWakesUp, pool!WorkerStep, pool!NextTask, pool!Render,
                  pool!Recheck, pool!Respond, pool!SpuriousWakeup
    <3>3. \A c \in Conns : InPool(c)' => InPool(c)
      BY <3>2, WorkersTakeOut
    <3>4. Still
      BY <2>1, <3>1, <3>2, <3>3 DEF Fresh
    <3> QED BY <1>1, <3>4
  <2>2. CASE Worker(w) /\ pool!Respond(w) /\ pending' = pending \cup {task[w]}
    BY <2>2, ApartRespond
  <2> QED BY <1>4, <2>1, <2>2 DEF Worker, WorkerWakesUp, serverVars
<1> QED
  BY <1>2, <1>3, <1>4, ApartHandleAccept, ApartBeginHandler, ApartEndHandler, ApartCallAddTask,
     ApartEndAddTask DEF Next, Finish, Main
----------------------------------------------------------------------------
LEMMA ServerStep == ServerInv /\ PoolInv /\ [Next]_vars => ServerInv' /\ PoolInv'
<1> SUFFICES ASSUME ServerInv, PoolInv, [Next]_vars PROVE ServerInv' /\ PoolInv'
  OBVIOUS
<1>1. PoolInv'
  BY PoolUsed, PoolStep
<1> QED
  BY <1>1, ServerTypeStep, PoolPhaseStep, IoPhaseStep, OneAcceptStep, ApartStep DEF ServerInv

(* The inductive invariant: what Run, the io threads and the pool are      *)
(* doing fits together, and no connection is with two of them.             *)
THEOREM ServerInvariant == Spec => [](ServerInv /\ PoolInv)
  BY ServerInit, ServerStep, PTL DEF Spec

(* Whatever the io threads and Run do, each of their steps is one of the   *)
(* pool's or leaves the pool alone: what TaskPool's steps preserve holds   *)
(* in the server.                                                          *)
THEOREM ServerUsesPool == Spec => pool!Init /\ [][pool!Next]_(pool!vars)
<1>1. Init => pool!Init
  BY DEF Init
<1>2. ServerInv /\ [Next]_vars => [pool!Next]_(pool!vars)
  BY PoolUsed
<1> QED BY <1>1, <1>2, ServerInvariant, PTL DEF Spec

(* No worker is left when the io_service is stopped.                       *)
THEOREM StoppedInOrder == Spec => []StopOrder
<1>1. ServerInv => StopOrder
  BY DEF ServerInv, PoolPhase, IoPhase, StopOrder
<1> QED BY <1>1, ServerInvariant, PTL

(* When Run has returned no thread is in a handler, or renders.            *)
THEOREM QuietOnReturn == Spec => []QuietAtReturn
<1>1. ServerInv => QuietAtReturn
  BY DEF ServerInv, PoolPhase, IoPhase, QuietAtReturn, InHandler, pool!Busy
<1> QED BY <1>1, ServerInvariant, PTL

Accepting == accepting \/ \E t \in IoThreads : at[t] = "accept"

LEMMA AcceptingStep ==
  ASSUME ServerInv, KeepsAccepting, [Next]_vars PROVE KeepsAccepting'
<1> SUFFICES ASSUME Alive', ~broken' PROVE Accepting' /\ ~ran_out'
  BY DEF KeepsAccepting, Accepting
<1> USE DEF ServerInv, ServerTypeOK, Alive
<1>0. Alive /\ ~broken => Accepting /\ ~ran_out
  BY DEF KeepsAccepting, Accepting
<1>e. ASSUME Alive, ~broken, Accepting', HandlerEnds PROVE ~ran_out'
  <2>1. HasWork'
    BY <1>e DEF HasWork, Accepting, InHandler
  <2> QED BY <1>0, <1>e, <2>1, EndsEffect
<1>1. CASE StartIoThreads
  <2>1. accepting' /\ UNCHANGED <<ran_out, broken>> /\ Alive
    BY <1>1 DEF StartIoThreads, MainGoes, IoPhase
  <2> QED BY <1>0, <2>1 DEF Accepting
<1>2. CASE \/ InitPool \/ WaitForSignal \/ CheckStop \/ StopPool \/ StopIo \/ JoinIoThreads
           \/ LeaveRunServer \/ WakeUp \/ RaiseSignal
  <2>1. UNCHANGED <<accepting, at, broken, ran_out>> /\ main # "killed"
    BY <1>2 DEF InitPool, WaitForSignal, CheckStop, StopPool, StopIo, JoinIoThreads,
                LeaveRunServer, WakeUp, RaiseSignal, MainGoes, Alive
  <2> QED BY <1>0, <2>1 DEF Accepting
<1>3. ASSUME NEW t \in IoThreads, HandleSignal(t) \/ EndHandler(t)
      PROVE  Accepting' /\ ~ran_out'
  <2>1. Alive /\ ~broken /\ HandlerEnds /\ UNCHANGED accepting
    BY <1>3 DEF HandleSignal, EndHandler, ThreadGoes
  <2>2. \A u \in IoThreads : at[u] = "accept" => at'[u] = "accept"
    BY <1>3 DEF HandleSignal, EndHandler, ThreadGoes
  <2> QED BY <1>0, <1>e, <2>1, <2>2 DEF Accepting
<1>4. ASSUME NEW t \in IoThreads, AcceptFails(t) PROVE FALSE
  BY <1>4 DEF AcceptFails
<1>5. ASSUME NEW t \in IoThreads, HandleAccept(t) \/ AcceptNext(t)
      PROVE  Accepting' /\ ~ran_out'
  <2>1. Alive /\ ~broken /\ UNCHANGED ran_out
    BY <1>5 DEF HandleAccept, AcceptNext, ThreadGoes
  <2> QED BY <1>0, <1>5, <2>1 DEF HandleAccept, AcceptNext, ThreadGoes, Accepting
<1>6. ASSUME NEW t \in IoThreads, HandlerThrows(t) PROVE Accepting' /\ ~ran_out'
  <2>1. Alive /\ ~broken /\ at[t] = "handle" /\ HandlerEnds /\ UNCHANGED accepting
    BY <1>6 DEF HandlerThrows, ThreadGoes
  <2>2. \A u \in IoThreads : at[u] = "accept" => at'[u] = "accept"
    BY <1>6, <2>1 DEF HandlerThrows, ThreadGoes
  <2> QED BY <1>0, <1>e, <2>1, <2>2 DEF Accepting
<1>7. ASSUME NEW t \in IoThreads,
             BeginHandler(t) \/ EndThread(t) \/ CallAddTask(t) \/ EndAddTask(t)
      PROVE  Accepting' /\ ~ran_out'
  <2>1. Alive /\ ~broken /\ UNCHANGED <<accepting, ran_out>>
    BY <1>7 DEF BeginHandler, EndThread, CallAddTask, EndAddTask, ThreadGoes
  <2>2. \A u \in IoThreads : at[u] = "accept" => at'[u] = "accept"
    BY <1>7 DEF BeginHandler, EndThread, CallAddTask, EndAddTask, ThreadGoes
  <2> QED BY <1>0, <2>1, <2>2 DEF Accepting
<1>8. ASSUME NEW w \in Workers, Worker(w) \/ WorkerWakesUp(w) PROVE Accepting' /\ ~ran_out'
  BY <1>0, <1>8 DEF Worker, WorkerWakesUp, serverVars, Accepting
<1>9. CASE UNCHANGED vars
  BY <1>0, <1>9 DEF vars, serverVars, Accepting
<1> QED BY <1>1, <1>2, <1>3, <1>4, <1>5, <1>6, <1>7, <1>8, <1>9 DEF Next, Finish, Main

(* Until a failure breaks the loop, an accept is pending or about to be    *)
(* started again, so that the io_service keeps having work.                *)
THEOREM AcceptsOn == Spec => []KeepsAccepting
<1>1. Init => KeepsAccepting
  BY DEF Init, KeepsAccepting
<1>2. ServerInv /\ KeepsAccepting /\ [Next]_vars => KeepsAccepting'
  BY AcceptingStep
<1> QED BY <1>1, <1>2, ServerInvariant, PTL DEF Spec

LEMMA OneOfSet ==
  ASSUME NEW S, \A x, y \in S : x = y PROVE Cardinality(S) <= 1
<1>1. CASE S = {}
  BY <1>1, FS_EmptySet
<1>2. ASSUME NEW x \in S PROVE Cardinality(S) <= 1
  <2>1. S = {x}
    OBVIOUS
  <2> QED BY <2>1, FS_Singleton
<1> QED BY <1>1, <1>2

(* Every connection is with one handler, task, worker or operation at a    *)
(* time, so that none of its members is used by two threads at once.       *)
THEOREM OwnedOnce == Spec => []OnePlace
<1>1. ASSUME ServerInv, PoolInv, NEW c \in Conns PROVE Cardinality(Places(c)) <= 1
  <2>1. /\ \A t, u \in IoThreads : Handles(t, c) /\ Handles(u, c) => t = u
        /\ Handled(c) => c \notin pending /\ ~InPool(c)
        /\ c \in pending => ~InPool(c)
    BY <1>1 DEF ServerInv, Apart, Alone
  <2>2. /\ \A i, j \in 1..Len(tasks) : tasks[i] = c /\ tasks[j] = c => i = j
        /\ \A v, w \in Workers : pool!Holds(v, c) /\ pool!Holds(w, c) => v = w
        /\ \A w \in Workers : pool!Holds(w, c) => ~pool!Queued(c)
    BY <1>1 DEF PoolInv, pool!TaskInOnePlace
  <2>3. ASSUME NEW x \in Places(c)
        PROVE  \/ \E t \in IoThreads : x = <<"handler", t>> /\ Handles(t, c)
               \/ \E i \in 1..Len(tasks) : x = <<"task", i>> /\ tasks[i] = c
               \/ \E w \in Workers : x = <<"worker", w>> /\ pool!Holds(w, c)
               \/ x = <<"pending", c>> /\ c \in pending
    BY <2>3 DEF Places, Handles
  <2>4. ASSUME NEW x \in Places(c), NEW y \in Places(c) PROVE x = y
    BY <2>1, <2>2, <2>3 DEF Handled, InPool, pool!Queued
  <2> QED BY <2>4, OneOfSet
<1>2. ServerInv /\ PoolInv => OnePlace
  BY <1>1 DEF OnePlace
<1> QED BY <1>2, ServerInvariant, PTL

-----------------------------------------------------------------------------
(* The pool of the server keeps what the pool by itself keeps.             *)
PoolKept ==
  /\ TP!TypeOK /\ TP!NoLostWakeup /\ TP!QuietAfterJoin /\ TP!TaskInOnePlace
  /\ TP!BusyHasTask /\ TP!ExitBeforeJoin

LEMMA PoolKeptInit == TP!Init => PoolKept /\ TP!Abstract!QueueInit
<1> SUFFICES ASSUME TP!Init PROVE PoolKept /\ TP!Abstract!QueueInit
  OBVIOUS
<1>1. TP!PoolAssumption => (TP!Init => TP!TypeOK)
  BY TP!TypeInit
<1>2. TP!NoLostWakeup /\ TP!QuietAfterJoin /\ TP!ExitBeforeJoin
  BY DEF TP!Init, TP!NoLostWakeup, TP!QuietAfterJoin, TP!ExitBeforeJoin
<1>3. TP!TaskInOnePlace /\ TP!BusyHasTask
  BY DEF TP!Init, TP!TaskInOnePlace, TP!BusyHasTask, TP!Queued, TP!Holds, TP!Busy
<1>4. TP!Abstract!QueueInit
  BY DEF TP!Init, TP!Abstract!QueueInit, TP!rendering, TP!Holds, TP!Busy
<1> QED
  BY <1>1, <1>2, <1>3, <1>4, PoolAssumed DEF PoolKept

LEMMA PoolKeptStep ==
  PoolKept /\ [TP!Next]_(TP!vars) => PoolKept' /\ [TP!Abstract!QueueNext]_(TP!Abstract!poolVars)
<1> SUFFICES ASSUME PoolKept, [TP!Next]_(TP!vars)
             PROVE  PoolKept' /\ [TP!Abstract!QueueNext]_(TP!Abstract!poolVars)
  OBVIOUS
<1>1. TP!TypeOK' /\ TP!NoLostWakeup' /\ TP!QuietAfterJoin'
  BY PoolAssumed, TP!TypeStep, TP!WakeupStep, TP!QuietStep DEF PoolKept
<1>2. TP!TaskInOnePlace' /\ TP!BusyHasTask' /\ TP!ExitBeforeJoin'
  BY PoolAssumed, TP!PlacesStep, TP!BusyStep, TP!ExitStep DEF PoolKept
<1>3. [TP!Abstract!QueueNext]_(TP!Abstract!poolVars)
  BY PoolAssumed, TP!QueueStep DEF PoolKept
<1> QED
  BY <1>1, <1>2, <1>3 DEF PoolKept

LEMMA PoolOfServer == Spec => TP!Init /\ [][TP!Next]_(TP!vars)
<1>1. pool!Init => TP!Init
  BY SamePool
<1>2. [pool!Next]_(pool!vars) => [TP!Next]_(TP!vars)
  <2>1. UNCHANGED pool!vars => UNCHANGED TP!vars
    BY DEF pool!vars, TP!vars
  <2> QED
    BY <2>1, SamePool
<1> QED
  BY <1>1, <1>2, ServerUsesPool, PTL

(* With the server's io threads as callers of AddTask, and Run to start    *)
(* and to stop it, the pool implements RenderQueue, the queue that         *)
(* Connection is composed with.                                            *)
THEOREM ServerImplementsQueue == Spec => TP!RefinesQueue
  BY PoolKeptInit, PoolKeptStep, PoolOfServer, PTL DEF TP!RefinesQueue, TP!Abstract!QueueSpec

(* No worker of the server sleeps while there is a task or Run has asked   *)
(* the workers to exit, so a signal does not leave Run in its join.        *)
THEOREM ServerWakeups == Spec => []TP!NoLostWakeup
<1>1. PoolKept => TP!NoLostWakeup
  BY DEF PoolKept
<1> QED
  BY <1>1, PoolKeptInit, PoolKeptStep, PoolOfServer, PTL
=============================================================================
