------------------------------ MODULE TaskPool ------------------------------
(***************************************************************************)
(* task_pool.h, task_pool.cpp: worker threads that wait on a condition     *)
(* variable for page-rendering tasks, callers of AddTask, and the thread   *)
(* that calls Init and Stop.                                               *)
(*                                                                         *)
(* Everything the code does while it holds tasks_mutex is one step; what   *)
(* it reads or writes without the mutex (threads, the rendering, the call  *)
(* of SendResponse) is a step of its own.  A task is named by the          *)
(* connection that submits it.                                             *)
(***************************************************************************)
EXTENDS Naturals, Sequences, FiniteSets

CONSTANTS Workers,   \* the threads that Init(num_threads) creates
          Tasks,     \* the tasks submitted, one AddTask call each
          NoTask     \* an empty Task, for which operator! is true

ASSUME PoolAssumption ==
  /\ IsFiniteSet(Workers) /\ Workers # {}
  /\ NoTask \notin Tasks

VARIABLES tasks,            \* std::queue<Task>
          exit_requested,
          threads,          \* the workers in the vector "threads"
          pc,               \* where a worker is in WorkerThread
          task,             \* its local variable "task"
          caller,           \* where the AddTask call of a task is
          stopping,         \* Stop(true) is in its join loop
          answered          \* history: SendResponse calls made for a task

vars == <<tasks, exit_requested, threads, pc, task, caller, stopping, answered>>

WorkerPC == {"none", "lock", "wait", "render", "recheck", "respond", "done"}
CallerPC == {"idle", "checked", "accepted", "refused"}

Init ==
  /\ tasks = <<>>
  /\ exit_requested = FALSE
  /\ threads = {}
  /\ pc = [w \in Workers |-> "none"]
  /\ task = [w \in Workers |-> NoTask]
  /\ caller = [t \in Tasks |-> "idle"]
  /\ stopping = FALSE
  /\ answered = [t \in Tasks |-> 0]
----------------------------------------------------------------------------
(* tasks_cv.notify_all(): every waiting worker goes for the mutex. *)
NotifyAll == pc' = [w \in Workers |-> IF pc[w] = "wait" THEN "lock" ELSE pc[w]]

(* Mutant: Init creates one thread less than it was asked for. *)
InitPoolOneShort ==
  /\ threads = {} /\ ~stopping
  /\ \E w \in Workers : threads' = Workers \ {w}
  /\ pc' = [w \in Workers |-> IF w \in threads' THEN "lock" ELSE "none"]
  /\ UNCHANGED <<tasks, exit_requested, task, caller, stopping, answered>>

InitPool ==
  /\ threads = {} /\ ~stopping
  /\ threads' = Workers
  /\ pc' = [w \in Workers |-> "lock"]
  /\ UNCHANGED <<tasks, exit_requested, task, caller, stopping, answered>>

(* What NextTask leaves in the queue. *)
PoppedNothing == tasks   \* mutant
Popped == IF tasks = <<>> THEN tasks ELSE Tail(tasks)

(* Mutant: the newest task is taken first. *)
NextTaskNewest(w) ==
  /\ pc[w] = "lock"
  /\ tasks' = IF tasks = <<>> THEN tasks ELSE SubSeq(tasks, 1, Len(tasks) - 1)
  /\ pc' = [pc EXCEPT ![w] = IF exit_requested THEN "done"
                             ELSE IF tasks = <<>> THEN "wait" ELSE "render"]
  /\ task' = [task EXCEPT ![w] = IF exit_requested \/ tasks = <<>>
                                 THEN NoTask ELSE tasks[Len(tasks)]]
  /\ UNCHANGED <<exit_requested, threads, caller, stopping, answered>>

(* The first critical section of a round, up to the wait or the unlock.    *)
(* A worker that sees exit_requested leaves the loop, and the task it may  *)
(* have popped is destroyed with its stack frame.                          *)
NextTask(w) ==
  /\ pc[w] = "lock"
  /\ tasks' = Popped
  /\ pc' = [pc EXCEPT ![w] = IF exit_requested THEN "done"
                             ELSE IF tasks = <<>> THEN "wait" ELSE "render"]
  /\ task' = [task EXCEPT ![w] = IF exit_requested \/ tasks = <<>>
                                 THEN NoTask ELSE Head(tasks)]
  /\ UNCHANGED <<exit_requested, threads, caller, stopping, answered>>

(* boost::condition_variable::wait may return without a notification. *)
SpuriousWakeup(w) ==
  /\ pc[w] = "wait"
  /\ pc' = [pc EXCEPT ![w] = "lock"]
  /\ UNCHANGED <<tasks, exit_requested, threads, task, caller, stopping, answered>>

(* page->Render returns or throws; either way the worker goes on. *)
Render(w) ==
  /\ pc[w] = "render"
  /\ pc' = [pc EXCEPT ![w] = "recheck"]
  /\ UNCHANGED <<tasks, exit_requested, threads, task, caller, stopping, answered>>

(* The second critical section reads exit_requested again. *)
Recheck(w) ==
  /\ pc[w] = "recheck"
  /\ pc' = [pc EXCEPT ![w] = IF exit_requested THEN "done" ELSE "respond"]
  /\ task' = [task EXCEPT ![w] = IF exit_requested THEN NoTask ELSE @]
  /\ UNCHANGED <<tasks, exit_requested, threads, caller, stopping, answered>>

(* task.connection->SendResponse(status_code), then the next round. *)
Respond(w) ==
  /\ pc[w] = "respond"
  /\ answered' = [answered EXCEPT ![task[w]] = @ + 1]
  /\ pc' = [pc EXCEPT ![w] = "lock"]
  /\ task' = [task EXCEPT ![w] = NoTask]
  /\ UNCHANGED <<tasks, exit_requested, threads, caller, stopping>>
----------------------------------------------------------------------------
(* AddTask, first the test of threads.empty(), made without the mutex ... *)
CheckThreads(t) ==
  /\ caller[t] = "idle"
  /\ caller' = [caller EXCEPT ![t] = IF threads = {} THEN "refused" ELSE "checked"]
  /\ UNCHANGED <<tasks, exit_requested, threads, pc, task, stopping, answered>>

(* Mutant: the push does not notify. *)
PushTaskUnnotified(t) ==
  /\ caller[t] = "checked"
  /\ caller' = [caller EXCEPT ![t] = "accepted"]
  /\ tasks' = Append(tasks, t)
  /\ UNCHANGED <<exit_requested, threads, pc, task, stopping, answered>>

(* ... then the push, under the mutex. *)
PushTask(t) ==
  /\ caller[t] = "checked"
  /\ caller' = [caller EXCEPT ![t] = "accepted"]
  /\ tasks' = Append(tasks, t)
  /\ NotifyAll
  /\ UNCHANGED <<exit_requested, threads, task, stopping, answered>>

(* Mutant: Stop does not notify. *)
RequestExitUnnotified(join) ==
  /\ threads # {} /\ ~stopping
  /\ tasks' = <<>>
  /\ exit_requested' = TRUE
  /\ stopping' = join
  /\ UNCHANGED <<threads, pc, task, caller, answered>>

(* Stop(join), up to the end of its critical section. *)
RequestExit(join) ==
  /\ threads # {} /\ ~stopping
  /\ tasks' = <<>>
  /\ exit_requested' = TRUE
  /\ NotifyAll
  /\ stopping' = join
  /\ UNCHANGED <<threads, task, caller, answered>>

(* Mutant: the join loop ends after the first thread. *)
JoinOneThread ==
  /\ stopping
  /\ \E w \in threads : pc[w] = "done"
  /\ threads' = {}
  /\ stopping' = FALSE
  /\ UNCHANGED <<tasks, exit_requested, pc, task, caller, answered>>

(* The end of the join loop, and threads.clear(). *)
JoinThreads ==
  /\ stopping
  /\ \A w \in threads : pc[w] = "done"
  /\ threads' = {}
  /\ stopping' = FALSE
  /\ UNCHANGED <<tasks, exit_requested, pc, task, caller, answered>>

WorkerStep(w) == NextTask(w) \/ Render(w) \/ Recheck(w) \/ Respond(w)

Next ==
  \/ InitPool \/ JoinThreads
  \/ \E join \in BOOLEAN : RequestExit(join)
  \/ \E w \in Workers : WorkerStep(w) \/ SpuriousWakeup(w)
  \/ \E t \in Tasks : CheckThreads(t) \/ PushTask(t)

(* Threads that can run do run: a worker that is not asleep in the wait,   *)
(* the caller inside AddTask, and the joiner once every worker has ended.  *)
(* Nobody has to submit a task or stop the pool.                           *)
Fairness ==
  /\ \A w \in Workers : WF_vars(WorkerStep(w))
  /\ \A t \in Tasks : WF_vars(PushTask(t))
  /\ WF_vars(JoinThreads)

Spec == Init /\ [][Next]_vars /\ Fairness
----------------------------------------------------------------------------
(* The values the variables may have; threads are created all at once. *)
TypeOK ==
  /\ tasks \in Seq(Tasks)
  /\ exit_requested \in BOOLEAN
  /\ threads \in {{}, Workers}
  /\ pc \in [Workers -> WorkerPC]
  /\ task \in [Workers -> Tasks \cup {NoTask}]
  /\ caller \in [Tasks -> CallerPC]
  /\ stopping \in BOOLEAN
  /\ answered \in [Tasks -> Nat]

Busy == {"render", "recheck", "respond"}
Queued(t) == \E i \in 1..Len(tasks) : tasks[i] = t
Holds(w, t) == pc[w] \in Busy /\ task[w] = t

(* No lost wake-up: a worker sleeps in the wait only while there is        *)
(* nothing to do and nobody asked the pool to exit.                        *)
NoLostWakeup ==
  \A w \in Workers : pc[w] = "wait" => tasks = <<>> /\ ~exit_requested

(* A task is queued once, or held by one worker, or answered once - never  *)
(* two of these - and only AddTask can have brought it there.              *)
TaskInOnePlace ==
  /\ \A i, j \in 1..Len(tasks) : tasks[i] = tasks[j] => i = j
  /\ \A v, w \in Workers, t \in Tasks : Holds(v, t) /\ Holds(w, t) => v = w
  /\ \A t \in Tasks :
       /\ Queued(t) => caller[t] = "accepted" /\ answered[t] = 0
       /\ \A w \in Workers :
            Holds(w, t) => caller[t] = "accepted" /\ ~Queued(t) /\ answered[t] = 0
       /\ answered[t] <= 1
       /\ answered[t] = 1 => caller[t] = "accepted"

(* Once Stop(true) has returned no worker renders or calls SendResponse:   *)
(* this is what lets Server::Run stop the io_service next.                 *)
QuietAfterJoin ==
  threads = {} => \A w \in Workers : pc[w] \in {"none", "done"}

(* A task that AddTask accepted is answered, unless the pool is told to    *)
(* exit.                                                                   *)
AcceptedIsAnswered ==
  \A t \in Tasks : caller[t] = "accepted" ~> (answered[t] = 1 \/ exit_requested)

(* Stop(true) returns: every worker, asleep, rendering or about to wait,   *)
(* notices exit_requested.                                                 *)
StopReturns == stopping ~> ~stopping

rendering == {t \in Tasks : \E w \in Workers : Holds(w, t)}
Abstract == INSTANCE RenderQueue
              WITH NumThreads <- Cardinality(Workers), running <- threads # {}

(* The pool implements the queue the connections rely on: first in, first  *)
(* out, no task begun twice or lost but for the exit.                      *)
RefinesQueue == Abstract!QueueSpec
============================================================================
