--------------------------- MODULE TaskPoolProofs ---------------------------
(***************************************************************************)
(* Theorems about TaskPool, for any number of workers and tasks: its       *)
(* safety invariants, and that it implements RenderQueue.                  *)
(***************************************************************************)
EXTENDS TaskPool, SequenceTheorems, FiniteSetTheorems, TLAPS

LEMMA TypeInit == Init => TypeOK
<1> SUFFICES ASSUME Init PROVE TypeOK
  OBVIOUS
<1>1. tasks \in Seq(Tasks) /\ threads \in {{}, Workers}
  BY DEF Init
<1>2. /\ pc \in [Workers -> WorkerPC] /\ task \in [Workers -> Tasks \cup {NoTask}]
      /\ caller \in [Tasks -> CallerPC] /\ answered \in [Tasks -> Nat]
  BY DEF Init, WorkerPC, CallerPC
<1>3. exit_requested \in BOOLEAN /\ stopping \in BOOLEAN
  BY DEF Init
<1> QED BY <1>1, <1>2, <1>3 DEF TypeOK

LEMMA TypeStep == TypeOK /\ [Next]_vars => TypeOK'
<1> SUFFICES ASSUME TypeOK, [Next]_vars PROVE TypeOK'
  OBVIOUS
<1> USE DEF TypeOK, WorkerPC, CallerPC
<1>1. CASE InitPool
  BY <1>1 DEF InitPool
<1>2. CASE JoinThreads
  BY <1>2 DEF JoinThreads
<1>3. ASSUME NEW join \in BOOLEAN, RequestExit(join) PROVE TypeOK'
  BY <1>3 DEF RequestExit, NotifyAll
<1>4. ASSUME NEW w \in Workers, NextTask(w) PROVE TypeOK'
  <2>1. CASE tasks = <<>>
    BY <1>4, <2>1 DEF NextTask, Popped
  <2>2. CASE tasks # <<>>
    <3>1. Head(tasks) \in Tasks /\ Tail(tasks) \in Seq(Tasks)
      BY <2>2, HeadTailProperties
    <3> QED BY <1>4, <2>2, <3>1 DEF NextTask, Popped
  <2> QED BY <2>1, <2>2
<1>5. ASSUME NEW w \in Workers, SpuriousWakeup(w) PROVE TypeOK'
  BY <1>5 DEF SpuriousWakeup
<1>6. ASSUME NEW w \in Workers, Render(w) PROVE TypeOK'
  BY <1>6 DEF Render
<1>7. ASSUME NEW w \in Workers, Recheck(w) PROVE TypeOK'
  BY <1>7 DEF Recheck
<1>8. ASSUME NEW w \in Workers, Respond(w) PROVE TypeOK'
  <2>1. answered' \in [Tasks -> Nat]
    <3>1. \A t \in Tasks : answered[t] \in Nat /\ answered[t] + 1 \in Nat
      OBVIOUS
    <3> QED BY <1>8, <3>1 DEF Respond
  <2>2. pc' \in [Workers -> WorkerPC] /\ task' \in [Workers -> Tasks \cup {NoTask}]
    BY <1>8 DEF Respond
  <2> QED BY <1>8, <2>1, <2>2 DEF Respond
<1>9. ASSUME NEW t \in Tasks, CheckThreads(t) PROVE TypeOK'
  BY <1>9 DEF CheckThreads
<1>10. ASSUME NEW t \in Tasks, PushTask(t) PROVE TypeOK'
  BY <1>10, AppendProperties DEF PushTask, NotifyAll
<1>11. CASE UNCHANGED vars
  BY <1>11 DEF vars
<1> QED
  BY <1>1, <1>2, <1>3, <1>4, <1>5, <1>6, <1>7, <1>8, <1>9, <1>10, <1>11 DEF Next, WorkerStep

(* The variables of the pool keep their types. *)
THEOREM TypeCorrect == Spec => []TypeOK
  BY TypeInit, TypeStep, PTL DEF Spec
----------------------------------------------------------------------------
(* A worker goes to sleep inside a critical section that found nothing to  *)
(* do, and each critical section that changes this notifies.               *)
LEMMA WakeupStep == TypeOK /\ NoLostWakeup /\ [Next]_vars => NoLostWakeup'
<1> SUFFICES ASSUME TypeOK, NoLostWakeup, [Next]_vars PROVE NoLostWakeup'
  OBVIOUS
<1> USE DEF TypeOK, NoLostWakeup
<1>1. CASE InitPool
  BY <1>1 DEF InitPool
<1>2. CASE JoinThreads
  BY <1>2 DEF JoinThreads
<1>3. ASSUME NEW join \in BOOLEAN, RequestExit(join) PROVE NoLostWakeup'
  BY <1>3 DEF RequestExit, NotifyAll
<1>4. ASSUME NEW w \in Workers, NextTask(w) PROVE NoLostWakeup'
  BY <1>4 DEF NextTask, Popped
<1>5. ASSUME NEW w \in Workers, SpuriousWakeup(w) PROVE NoLostWakeup'
  BY <1>5 DEF SpuriousWakeup
<1>6. ASSUME NEW w \in Workers, Render(w) PROVE NoLostWakeup'
  BY <1>6 DEF Render
<1>7. ASSUME NEW w \in Workers, Recheck(w) PROVE NoLostWakeup'
  BY <1>7 DEF Recheck
<1>8. ASSUME NEW w \in Workers, Respond(w) PROVE NoLostWakeup'
  BY <1>8 DEF Respond
<1>9. ASSUME NEW t \in Tasks, CheckThreads(t) PROVE NoLostWakeup'
  BY <1>9 DEF CheckThreads
<1>10. ASSUME NEW t \in Tasks, PushTask(t) PROVE NoLostWakeup'
  BY <1>10 DEF PushTask, NotifyAll
<1>11. CASE UNCHANGED vars
  BY <1>11 DEF vars
<1> QED
  BY <1>1, <1>2, <1>3, <1>4, <1>5, <1>6, <1>7, <1>8, <1>9, <1>10, <1>11 DEF Next, WorkerStep

(* No wake-up is lost, however many workers wait and callers add tasks.    *)
THEOREM WakeupsKept == Spec => []NoLostWakeup
<1>1. Init => NoLostWakeup
  BY DEF Init, NoLostWakeup
<1> QED BY <1>1, TypeInit, TypeStep, WakeupStep, PTL DEF Spec
----------------------------------------------------------------------------
(* A worker is at work only while the vector of threads is not empty.      *)
LEMMA QuietStep == TypeOK /\ QuietAfterJoin /\ [Next]_vars => QuietAfterJoin'
<1> SUFFICES ASSUME TypeOK, QuietAfterJoin, [Next]_vars PROVE QuietAfterJoin'
  OBVIOUS
<1> USE DEF TypeOK, QuietAfterJoin
<1>1. CASE InitPool
  BY <1>1, PoolAssumption DEF InitPool
<1>2. CASE JoinThreads
  BY <1>2 DEF JoinThreads
<1>3. ASSUME NEW join \in BOOLEAN, RequestExit(join) PROVE QuietAfterJoin'
  BY <1>3 DEF RequestExit, NotifyAll
<1>4. ASSUME NEW w \in Workers, NextTask(w) PROVE QuietAfterJoin'
  BY <1>4 DEF NextTask
<1>5. ASSUME NEW w \in Workers, SpuriousWakeup(w) PROVE QuietAfterJoin'
  BY <1>5 DEF SpuriousWakeup
<1>6. ASSUME NEW w \in Workers, Render(w) PROVE QuietAfterJoin'
  BY <1>6 DEF Render
<1>7. ASSUME NEW w \in Workers, Recheck(w) PROVE QuietAfterJoin'
  BY <1>7 DEF Recheck
<1>8. ASSUME NEW w \in Workers, Respond(w) PROVE QuietAfterJoin'
  BY <1>8 DEF Respond
<1>9. ASSUME NEW t \in Tasks, CheckThreads(t) PROVE QuietAfterJoin'
  BY <1>9 DEF CheckThreads
<1>10. ASSUME NEW t \in Tasks, PushTask(t) PROVE QuietAfterJoin'
  BY <1>10 DEF PushTask, NotifyAll
<1>11. CASE UNCHANGED vars
  BY <1>11 DEF vars
<1> QED
  BY <1>1, <1>2, <1>3, <1>4, <1>5, <1>6, <1>7, <1>8, <1>9, <1>10, <1>11 DEF Next, WorkerStep

(* When Stop(true) has returned, no worker renders or answers.             *)
THEOREM QuietWhenJoined == Spec => []QuietAfterJoin
<1>1. Init => QuietAfterJoin
  BY DEF Init, QuietAfterJoin
<1> QED BY <1>1, TypeInit, TypeStep, QuietStep, PTL DEF Spec
----------------------------------------------------------------------------
(* Steps that put no task anywhere, and at most empty the queue.           *)
LEMMA PlacesKept ==
  ASSUME TypeOK, TaskInOnePlace,
         tasks' \in {tasks, <<>>},
         answered' = answered,
         \A w \in Workers, t \in Tasks : Holds(w, t)' => Holds(w, t),
         \A t \in Tasks : caller[t] = "accepted" => caller'[t] = "accepted"
  PROVE  TaskInOnePlace'
<1>1. \A t \in Tasks : Queued(t)' => Queued(t)
  BY DEF Queued
<1>2. \A i, j \in 1..Len(tasks') : tasks'[i] = tasks'[j] => i = j
  BY DEF TaskInOnePlace
<1>3. \A v, w \in Workers, t \in Tasks : Holds(v, t)' /\ Holds(w, t)' => v = w
  BY DEF TaskInOnePlace
<1>4. ASSUME NEW t \in Tasks
      PROVE  /\ Queued(t)' => caller'[t] = "accepted" /\ answered'[t] = 0
             /\ \A w \in Workers :
                  Holds(w, t)' => caller'[t] = "accepted" /\ ~Queued(t)' /\ answered'[t] = 0
             /\ answered'[t] <= 1
             /\ answered'[t] = 1 => caller'[t] = "accepted"
  BY <1>1, <1>4 DEF TaskInOnePlace
<1> QED BY <1>2, <1>3, <1>4 DEF TaskInOnePlace

(* The worker that pops a task takes it from the queue to itself, or drops *)
(* it.                                                                     *)
LEMMA PlacesNextTask ==
  ASSUME TypeOK, TaskInOnePlace, NEW w \in Workers, NextTask(w)
  PROVE  TaskInOnePlace'
<1> USE DEF TypeOK
<1>1. CASE tasks = <<>>
  <2>1. \A v \in Workers, t \in Tasks : Holds(v, t)' => Holds(v, t)
    BY <1>1 DEF NextTask, Holds, Busy
  <2>2. tasks' = tasks /\ answered' = answered /\ caller' = caller
    BY <1>1 DEF NextTask, Popped
  <2> QED BY <2>1, <2>2, PlacesKept
<1>2. CASE tasks # <<>>
  <2> DEFINE h == Head(tasks)
  <2>1. /\ h \in Tasks /\ h = tasks[1] /\ 1 \in 1..Len(tasks)
        /\ Len(tasks') = Len(tasks) - 1
        /\ \A i \in 1..Len(tasks') : tasks'[i] = tasks[i + 1] /\ i + 1 \in 1..Len(tasks)
    BY <1>2, HeadTailProperties, EmptySeq DEF NextTask, Popped
  <2>2. Queued(h)
    BY <2>1 DEF Queued
  <2>3. \A t \in Tasks : Queued(t)' => Queued(t) /\ t # h
    BY <2>1 DEF Queued, TaskInOnePlace
  <2>4. \A i, j \in 1..Len(tasks') : tasks'[i] = tasks'[j] => i = j
    <3> SUFFICES ASSUME NEW i \in 1..Len(tasks'), NEW j \in 1..Len(tasks'),
                        tasks'[i] = tasks'[j]
                 PROVE  i = j
      OBVIOUS
    <3>1. tasks[i + 1] = tasks[j + 1] /\ i + 1 \in 1..Len(tasks) /\ j + 1 \in 1..Len(tasks)
      BY <2>1
    <3>2. i + 1 = j + 1
      BY <3>1 DEF TaskInOnePlace
    <3> QED BY <3>2
  <2>5. \A v \in Workers, t \in Tasks : Holds(v, t)' => Holds(v, t) \/ (v = w /\ t = h)
    BY <1>2 DEF NextTask, Holds, Busy
  <2>6. \A v \in Workers : ~Holds(v, h)
    BY <2>1, <2>2 DEF TaskInOnePlace
  <2>7. \A u, v \in Workers, t \in Tasks : Holds(u, t)' /\ Holds(v, t)' => u = v
    BY <2>5, <2>6 DEF TaskInOnePlace
  <2>8. answered' = answered /\ caller' = caller
    BY DEF NextTask
  <2>9. ASSUME NEW t \in Tasks
        PROVE  /\ Queued(t)' => caller'[t] = "accepted" /\ answered'[t] = 0
               /\ \A v \in Workers :
                    Holds(v, t)' => caller'[t] = "accepted" /\ ~Queued(t)' /\ answered'[t] = 0
               /\ answered'[t] <= 1
               /\ answered'[t] = 1 => caller'[t] = "accepted"
    BY <2>2, <2>3, <2>5, <2>8, <2>9 DEF TaskInOnePlace
  <2> QED BY <2>4, <2>7, <2>9 DEF TaskInOnePlace
<1> QED BY <1>1, <1>2

(* A task that AddTask was about to push is nowhere in the pool.           *)
LEMMA PlacesPushTask ==
  ASSUME TypeOK, TaskInOnePlace, NEW t \in Tasks, PushTask(t)
  PROVE  TaskInOnePlace'
<1> USE DEF TypeOK
<1>1. /\ ~Queued(t) /\ answered[t] = 0
      /\ \A w \in Workers : ~Holds(w, t)
  BY DEF PushTask, TaskInOnePlace
<1>2. /\ Len(tasks') = Len(tasks) + 1 /\ tasks'[Len(tasks) + 1] = t
      /\ \A i \in 1..Len(tasks) : tasks'[i] = tasks[i]
      /\ Len(tasks) \in Nat
  BY AppendProperties, LenProperties DEF PushTask
<1>3. \A s \in Tasks : Queued(s)' => Queued(s) \/ s = t
  <2> SUFFICES ASSUME NEW s \in Tasks, NEW i \in 1..Len(tasks'), tasks'[i] = s, s # t
               PROVE  Queued(s)
    BY DEF Queued
  <2>1. i \in 1..Len(tasks)
    BY <1>2
  <2> QED BY <1>2, <2>1 DEF Queued
<1>4. \A i, j \in 1..Len(tasks') : tasks'[i] = tasks'[j] => i = j
  <2> SUFFICES ASSUME NEW i \in 1..Len(tasks'), NEW j \in 1..Len(tasks'),
                      tasks'[i] = tasks'[j]
               PROVE  i = j
    OBVIOUS
  <2>1. CASE i \in 1..Len(tasks) /\ j \in 1..Len(tasks)
    BY <1>2, <2>1 DEF TaskInOnePlace
  <2>2. CASE i = Len(tasks) + 1 /\ j \in 1..Len(tasks)
    BY <1>1, <1>2, <2>2 DEF Queued
  <2>3. CASE j = Len(tasks) + 1 /\ i \in 1..Len(tasks)
    BY <1>1, <1>2, <2>3 DEF Queued
  <2>4. CASE i = Len(tasks) + 1 /\ j = Len(tasks) + 1
    BY <2>4
  <2> QED BY <1>2, <2>1, <2>2, <2>3, <2>4
<1>5. \A w \in Workers, s \in Tasks : Holds(w, s)' => Holds(w, s)
  BY DEF PushTask, NotifyAll, Holds, Busy
<1>6. \A v, w \in Workers, s \in Tasks : Holds(v, s)' /\ Holds(w, s)' => v = w
  BY <1>5 DEF TaskInOnePlace
<1>7. /\ answered' = answered /\ caller'[t] = "accepted"
      /\ \A s \in Tasks : caller[s] = "accepted" => caller'[s] = "accepted"
  BY DEF PushTask
<1>8. ASSUME NEW s \in Tasks
      PROVE  /\ Queued(s)' => caller'[s] = "accepted" /\ answered'[s] = 0
             /\ \A w \in Workers :
                  Holds(w, s)' => caller'[s] = "accepted" /\ ~Queued(s)' /\ answered'[s] = 0
             /\ answered'[s] <= 1
             /\ answered'[s] = 1 => caller'[s] = "accepted"
  BY <1>1, <1>3, <1>5, <1>7, <1>8 DEF TaskInOnePlace
<1> QED BY <1>4, <1>6, <1>8 DEF TaskInOnePlace

(* The worker that answers a task is the only one that has it.             *)
LEMMA PlacesRespond ==
  ASSUME TypeOK, TaskInOnePlace, NEW w \in Workers, Respond(w)
  PROVE  TaskInOnePlace'
<1> USE DEF TypeOK
<1>1. \A s \in Tasks : ~Holds(w, s)'
  BY DEF Respond, Holds, Busy
<1>2. \A v \in Workers, s \in Tasks : Holds(v, s)' => Holds(v, s) /\ v # w
  BY DEF Respond, Holds, Busy
<1>3. \A s \in Tasks : task[w] = s => Holds(w, s)
  BY DEF Respond, Holds, Busy
<1>4. \A s \in Tasks : answered'[s] = IF s = task[w] THEN answered[s] + 1 ELSE answered[s]
  BY DEF Respond
<1>5. tasks' = tasks /\ caller' = caller
  BY DEF Respond
<1>6. \A s \in Tasks : Queued(s)' <=> Queued(s)
  BY <1>5 DEF Queued
<1>7. \A i, j \in 1..Len(tasks') : tasks'[i] = tasks'[j] => i = j
  BY <1>5 DEF TaskInOnePlace
<1>8. \A u, v \in Workers, s \in Tasks : Holds(u, s)' /\ Holds(v, s)' => u = v
  BY <1>2 DEF TaskInOnePlace
<1>9. ASSUME NEW s \in Tasks
      PROVE  /\ Queued(s)' => caller'[s] = "accepted" /\ answered'[s] = 0
             /\ \A v \in Workers :
                  Holds(v, s)' => caller'[s] = "accepted" /\ ~Queued(s)' /\ answered'[s] = 0
             /\ answered'[s] <= 1
             /\ answered'[s] = 1 => caller'[s] = "accepted"
  <2>1. CASE s = task[w]
    <3>1. Holds(w, s) /\ \A v \in Workers : ~Holds(v, s)'
      BY <1>2, <1>3, <2>1 DEF TaskInOnePlace
    <3>2. caller[s] = "accepted" /\ ~Queued(s) /\ answered[s] = 0
      BY <3>1 DEF TaskInOnePlace
    <3> QED BY <1>4, <1>5, <1>6, <2>1, <3>1, <3>2
  <2>2. CASE s # task[w]
    BY <1>2, <1>4, <1>5, <1>6, <2>2 DEF TaskInOnePlace
  <2> QED BY <2>1, <2>2
<1> QED BY <1>7, <1>8, <1>9 DEF TaskInOnePlace

LEMMA PlacesStep == TypeOK /\ TaskInOnePlace /\ [Next]_vars => TaskInOnePlace'
<1> SUFFICES ASSUME TypeOK, TaskInOnePlace, [Next]_vars PROVE TaskInOnePlace'
  OBVIOUS
<1> USE DEF TypeOK
<1>1. CASE InitPool
  <2>1. \A w \in Workers, t \in Tasks : Holds(w, t)' => Holds(w, t)
    BY <1>1 DEF InitPool, Holds, Busy
  <2> QED BY <1>1, <2>1, PlacesKept DEF InitPool
<1>2. CASE JoinThreads
  <2>1. \A w \in Workers, t \in Tasks : Holds(w, t)' => Holds(w, t)
    BY <1>2 DEF JoinThreads, Holds
  <2> QED BY <1>2, <2>1, PlacesKept DEF JoinThreads
<1>3. ASSUME NEW join \in BOOLEAN, RequestExit(join) PROVE TaskInOnePlace'
  <2>1. \A w \in Workers, t \in Tasks : Holds(w, t)' => Holds(w, t)
    BY <1>3 DEF RequestExit, NotifyAll, Holds, Busy
  <2> QED BY <1>3, <2>1, PlacesKept DEF RequestExit
<1>4. ASSUME NEW w \in Workers, SpuriousWakeup(w) \/ Render(w) \/ Recheck(w)
      PROVE  TaskInOnePlace'
  <2>1. \A v \in Workers, t \in Tasks : Holds(v, t)' => Holds(v, t)
    BY <1>4 DEF SpuriousWakeup, Render, Recheck, Holds, Busy
  <2>2. tasks' = tasks /\ answered' = answered /\ caller' = caller
    BY <1>4 DEF SpuriousWakeup, Render, Recheck
  <2> QED BY <2>1, <2>2, PlacesKept
<1>5. ASSUME NEW t \in Tasks, CheckThreads(t) PROVE TaskInOnePlace'
  <2>1. \A w \in Workers, s \in Tasks : Holds(w, s)' => Holds(w, s)
    BY <1>5 DEF CheckThreads, Holds
  <2>2. \A s \in Tasks : caller[s] = "accepted" => caller'[s] = "accepted"
    BY <1>5 DEF CheckThreads
  <2> QED BY <1>5, <2>1, <2>2, PlacesKept DEF CheckThreads
<1>6. CASE UNCHANGED vars
  <2>1. \A w \in Workers, s \in Tasks : Holds(w, s)' => Holds(w, s)
    BY <1>6 DEF vars, Holds
  <2> QED BY <1>6, <2>1, PlacesKept DEF vars
<1> QED
  BY <1>1, <1>2, <1>3, <1>4, <1>5, <1>6, PlacesNextTask, PlacesPushTask, PlacesRespond
  DEF Next, WorkerStep

(* Every accepted task is in one place: no worker renders a task another   *)
(* one has, and no connection is answered twice.                           *)
THEOREM OnePlace == Spec => []TaskInOnePlace
<1>1. Init => TaskInOnePlace
  BY DEF Init, TaskInOnePlace, Queued, Holds, Busy
<1> QED BY <1>1, TypeInit, TypeStep, PlacesStep, PTL DEF Spec
----------------------------------------------------------------------------
(* What the refinement needs besides: a worker at work has a task, and     *)
(* Stop joins only after it has asked the workers to exit.                 *)
BusyHasTask == \A w \in Workers : pc[w] \in Busy => task[w] \in Tasks
ExitBeforeJoin == stopping => exit_requested

LEMMA BusyStep == TypeOK /\ BusyHasTask /\ [Next]_vars => BusyHasTask'
<1> SUFFICES ASSUME TypeOK, BusyHasTask, [Next]_vars PROVE BusyHasTask'
  OBVIOUS
<1> USE DEF TypeOK, BusyHasTask, Busy
<1>1. CASE InitPool
  BY <1>1 DEF InitPool
<1>2. CASE JoinThreads
  BY <1>2 DEF JoinThreads
<1>3. ASSUME NEW join \in BOOLEAN, RequestExit(join) PROVE BusyHasTask'
  BY <1>3 DEF RequestExit, NotifyAll
<1>4. ASSUME NEW w \in Workers, NextTask(w) PROVE BusyHasTask'
  BY <1>4, HeadTailProperties DEF NextTask
<1>5. ASSUME NEW w \in Workers, SpuriousWakeup(w) \/ Render(w) \/ Recheck(w)
      PROVE  BusyHasTask'
  BY <1>5 DEF SpuriousWakeup, Render, Recheck
<1>6. ASSUME NEW w \in Workers, Respond(w) PROVE BusyHasTask'
  BY <1>6 DEF Respond
<1>7. ASSUME NEW t \in Tasks, CheckThreads(t) \/ PushTask(t) PROVE BusyHasTask'
  BY <1>7 DEF CheckThreads, PushTask, NotifyAll
<1>8. CASE UNCHANGED vars
  BY <1>8 DEF vars
<1> QED BY <1>1, <1>2, <1>3, <1>4, <1>5, <1>6, <1>7, <1>8 DEF Next, WorkerStep

LEMMA ExitStep == ExitBeforeJoin /\ [Next]_vars => ExitBeforeJoin'
  BY DEF ExitBeforeJoin, vars, Next, WorkerStep, InitPool, JoinThreads, RequestExit, NextTask,
         SpuriousWakeup, Render, Recheck, Respond, CheckThreads, PushTask

(* A worker about to take a task leaves room for it among the tasks that   *)
(* are being rendered.                                                     *)
LEMMA RoomToRender ==
  ASSUME NEW w \in Workers, pc[w] = "lock"
  PROVE  Cardinality(rendering) < Cardinality(Workers)
<1> DEFINE holder == [t \in rendering |-> CHOOSE v \in Workers : Holds(v, t)]
<1>1. ASSUME NEW t \in rendering
      PROVE  holder[t] \in Workers /\ Holds(holder[t], t)
  BY DEF rendering
<1>2. \A t \in rendering : holder[t] \in Workers \ {w}
  BY <1>1 DEF Holds, Busy
<1>3. \A s, t \in rendering : holder[s] = holder[t] => s = t
  BY <1>1 DEF Holds
<1>4. holder \in Injection(rendering, Workers \ {w})
  BY <1>2, <1>3 DEF Injection, IsInjective
<1>5. /\ IsFiniteSet(Workers \ {w})
      /\ Cardinality(Workers \ {w}) = Cardinality(Workers) - 1
  BY PoolAssumption, FS_RemoveElement
<1>6. Cardinality(rendering) <= Cardinality(Workers) - 1 /\ IsFiniteSet(rendering)
  <2> HIDE DEF holder
  <2> QED BY <1>4, <1>5, FS_Injection
<1> QED BY <1>6, PoolAssumption, FS_CardinalityType

(* Each step of the pool is a step of the queue, or no step of it.         *)
LEMMA QueueStep ==
  TypeOK /\ QuietAfterJoin /\ TaskInOnePlace /\ BusyHasTask /\ ExitBeforeJoin /\ [Next]_vars
    => [Abstract!QueueNext]_(Abstract!poolVars)
<1> SUFFICES ASSUME TypeOK, QuietAfterJoin, TaskInOnePlace, BusyHasTask, ExitBeforeJoin,
                    [Next]_vars
             PROVE  Abstract!QueueNext \/ UNCHANGED Abstract!poolVars
  OBVIOUS
<1> USE DEF TypeOK
<1>1. CASE InitPool
  <2>1. rendering' = rendering
    BY <1>1 DEF InitPool, QuietAfterJoin, rendering, Holds, Busy
  <2>2. threads' # {} /\ threads = {}
    BY <1>1, PoolAssumption DEF InitPool
  <2>3. Abstract!Start
    BY <1>1, <2>1, <2>2 DEF InitPool, Abstract!Start
  <2> QED BY <2>3 DEF Abstract!QueueNext
<1>2. CASE JoinThreads
  <2>1. rendering' = rendering
    BY <1>2 DEF JoinThreads, rendering, Holds
  <2>2. CASE threads = {}
    BY <1>2, <2>1, <2>2 DEF JoinThreads, Abstract!poolVars
  <2>3. CASE threads # {}
    <3>1. rendering = {}
      BY <1>2, <2>3 DEF JoinThreads, rendering, Holds, Busy
    <3>2. Abstract!Join
      BY <1>2, <2>1, <2>3, <3>1 DEF JoinThreads, ExitBeforeJoin, Abstract!Join
    <3> QED BY <3>2 DEF Abstract!QueueNext
  <2> QED BY <2>2, <2>3
<1>3. ASSUME NEW join \in BOOLEAN, RequestExit(join)
      PROVE  Abstract!QueueNext
  <2>1. rendering' = rendering
    BY <1>3 DEF RequestExit, NotifyAll, rendering, Holds, Busy
  <2>2. Abstract!Stop
    BY <1>3, <2>1 DEF RequestExit, Abstract!Stop
  <2> QED BY <2>2 DEF Abstract!QueueNext
<1>4. ASSUME NEW w \in Workers, NextTask(w)
      PROVE  Abstract!QueueNext \/ UNCHANGED Abstract!poolVars
  <2>1. threads # {} /\ threads' = threads /\ exit_requested' = exit_requested
    BY <1>4 DEF NextTask, QuietAfterJoin
  <2>2. CASE tasks = <<>>
    <3>1. rendering' = rendering
      BY <1>4, <2>2 DEF NextTask, rendering, Holds, Busy
    <3> QED BY <1>4, <2>1, <2>2, <3>1 DEF NextTask, Popped, Abstract!poolVars
  <2>3. CASE tasks # <<>> /\ exit_requested
    <3>1. rendering' = rendering
      BY <1>4, <2>3 DEF NextTask, rendering, Holds, Busy
    <3>2. Abstract!Discard
      BY <1>4, <2>1, <2>3, <3>1 DEF NextTask, Popped, Abstract!Discard
    <3> QED BY <3>2 DEF Abstract!QueueNext
  <2>4. CASE tasks # <<>> /\ ~exit_requested
    <3>1. Head(tasks) \in Tasks
      BY <2>4, HeadTailProperties
    <3>2. \A v \in Workers, t \in Tasks :
            Holds(v, t)' <=> Holds(v, t) \/ (v = w /\ t = Head(tasks))
      BY <1>4, <2>4 DEF NextTask, Holds, Busy
    <3>3. rendering' = rendering \cup {Head(tasks)}
      BY <3>1, <3>2 DEF rendering
    <3>4. Cardinality(rendering) < Cardinality(Workers)
      BY <1>4, RoomToRender DEF NextTask
    <3>5. tasks' = Tail(tasks)
      BY <1>4, <2>4 DEF NextTask, Popped
    <3>6. Abstract!Cardinality(rendering) = Cardinality(rendering)
      BY DEF Abstract!Cardinality, Cardinality
    <3>7. Abstract!Take(Head(tasks))
      BY <2>1, <2>4, <3>3, <3>4, <3>5, <3>6 DEF Abstract!Take
    <3> QED BY <3>1, <3>7 DEF Abstract!QueueNext
  <2> QED BY <2>2, <2>3, <2>4
<1>5. ASSUME NEW w \in Workers, SpuriousWakeup(w) \/ Render(w)
      PROVE  UNCHANGED Abstract!poolVars
  <2>1. rendering' = rendering
    BY <1>5 DEF SpuriousWakeup, Render, rendering, Holds, Busy
  <2> QED BY <1>5, <2>1 DEF SpuriousWakeup, Render, Abstract!poolVars
<1>6. ASSUME NEW w \in Workers, Recheck(w) \/ Respond(w)
      PROVE  Abstract!QueueNext \/ UNCHANGED Abstract!poolVars
  <2>1. /\ tasks' = tasks /\ threads' = threads /\ exit_requested' = exit_requested
        /\ pc[w] \in Busy
    BY <1>6 DEF Recheck, Respond, Busy
  <2>2. CASE Recheck(w) /\ ~exit_requested
    <3>1. rendering' = rendering
      BY <2>2 DEF Recheck, rendering, Holds, Busy
    <3> QED BY <2>1, <3>1 DEF Abstract!poolVars
  <2>3. CASE Respond(w) \/ (Recheck(w) /\ exit_requested)
    <3>1. task[w] \in Tasks /\ Holds(w, task[w])
      BY <2>1 DEF BusyHasTask, Holds
    <3>2. \A v \in Workers, t \in Tasks : Holds(v, t)' <=> Holds(v, t) /\ v # w
      BY <2>3 DEF Recheck, Respond, Holds, Busy
    <3>3. \A v \in Workers : Holds(v, task[w]) => v = w
      BY <3>1 DEF TaskInOnePlace
    <3>4. \A t \in Tasks : Holds(w, t) => t = task[w]
      BY DEF Holds
    <3>5. rendering' = rendering \ {task[w]} /\ task[w] \in rendering
      BY <3>1, <3>2, <3>3, <3>4 DEF rendering
    <3>6. Abstract!Answer(task[w])
      BY <2>1, <3>5 DEF Abstract!Answer
    <3> QED BY <3>1, <3>6 DEF Abstract!QueueNext
  <2> QED BY <1>6, <2>2, <2>3
<1>7. ASSUME NEW t \in Tasks, CheckThreads(t)
      PROVE  UNCHANGED Abstract!poolVars
  BY <1>7 DEF CheckThreads, rendering, Holds, Abstract!poolVars
<1>8. ASSUME NEW t \in Tasks, PushTask(t)
      PROVE  Abstract!QueueNext
  <2>1. rendering' = rendering
    BY <1>8 DEF PushTask, NotifyAll, rendering, Holds, Busy
  <2>2. ~Abstract!InPool(t)
    BY <1>8 DEF PushTask, TaskInOnePlace, Queued, rendering, Abstract!InPool
  <2>3. Abstract!Accept(t)
    BY <1>8, <2>1, <2>2 DEF PushTask, Abstract!Accept
  <2> QED BY <2>3 DEF Abstract!QueueNext
<1>9. CASE UNCHANGED vars
  BY <1>9 DEF vars, rendering, Holds, Abstract!poolVars
<1> QED
  BY <1>1, <1>2, <1>3, <1>4, <1>5, <1>6, <1>7, <1>8, <1>9 DEF Next, WorkerStep

(* The pool, with its threads, mutex and condition variable, implements    *)
(* the queue that Connection is composed with.                             *)
THEOREM ImplementsQueue == Spec => RefinesQueue
<1>1. Init => Abstract!QueueInit /\ QuietAfterJoin /\ TaskInOnePlace /\ BusyHasTask
                /\ ExitBeforeJoin
  BY DEF Init, Abstract!QueueInit, QuietAfterJoin, TaskInOnePlace, BusyHasTask, ExitBeforeJoin,
         rendering, Queued, Holds, Busy
<1> QED
  BY <1>1, TypeInit, TypeStep, QuietStep, PlacesStep, BusyStep, ExitStep, QueueStep, PTL
  DEF Spec, RefinesQueue, Abstract!QueueSpec
=============================================================================
