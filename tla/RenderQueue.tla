---------------------------- MODULE RenderQueue ----------------------------
(***************************************************************************)
(* What the proxy expects of its TaskPool, without threads, mutex or       *)
(* condition variable: tasks are begun in the order in which AddTask       *)
(* accepted them, at most NumThreads at a time, and every accepted task    *)
(* leaves the pool exactly once - answered, or dropped because the pool    *)
(* was told to exit.  TaskPool implements this specification; Connection   *)
(* is composed with it.                                                    *)
(***************************************************************************)
EXTENDS Naturals, Sequences, FiniteSets

CONSTANTS Tasks,        \* what AddTask may be given
          NumThreads    \* the argument of TaskPool::Init

VARIABLES tasks,            \* TaskPool::tasks, accepted and not yet begun
          rendering,        \* tasks taken by a worker and not yet given up
          exit_requested,   \* TaskPool::exit_requested
          running           \* ~threads.empty()

poolVars == <<tasks, rendering, exit_requested, running>>

QueueTypeOK ==
  /\ tasks \in Seq(Tasks)
  /\ rendering \in SUBSET Tasks
  /\ exit_requested \in BOOLEAN
  /\ running \in BOOLEAN

InPool(t) == t \in rendering \/ \E i \in 1..Len(tasks) : tasks[i] = t

QueueInit ==
  /\ tasks = <<>>
  /\ rendering = {}
  /\ exit_requested = FALSE
  /\ running = FALSE

(* Init(n) returned true: there are threads. *)
Start ==
  /\ ~running
  /\ running' = TRUE
  /\ UNCHANGED <<tasks, rendering, exit_requested>>

(* AddTask returned true.  It need not be running any more: the test of    *)
(* threads.empty() and the push are two steps.                             *)
Accept(t) ==
  /\ ~InPool(t)
  /\ tasks' = Append(tasks, t)
  /\ UNCHANGED <<rendering, exit_requested, running>>

(* AddTask returned false. *)
Refuse == ~running /\ UNCHANGED poolVars

(* A worker takes the oldest task to render it. *)
Take(t) ==
  /\ running /\ ~exit_requested
  /\ tasks # <<>> /\ t = Head(tasks)
  /\ Cardinality(rendering) < NumThreads
  /\ tasks' = Tail(tasks)
  /\ rendering' = rendering \cup {t}
  /\ UNCHANGED <<exit_requested, running>>

(* A worker that is told to exit pops a task and destroys it unrendered. *)
Discard ==
  /\ running /\ exit_requested
  /\ tasks # <<>>
  /\ tasks' = Tail(tasks)
  /\ UNCHANGED <<rendering, exit_requested, running>>

(* The worker is done with a task: it calls SendResponse ... *)
Answer(t) ==
  /\ t \in rendering
  /\ rendering' = rendering \ {t}
  /\ UNCHANGED <<tasks, exit_requested, running>>

(* ... unless it finds, after rendering, that it must exit. *)
Abandon(t) == exit_requested /\ Answer(t)

(* Stop empties the queue and asks the workers to exit ... *)
Stop ==
  /\ running
  /\ tasks' = <<>>
  /\ exit_requested' = TRUE
  /\ UNCHANGED <<rendering, running>>

(* ... and returns when no worker is left. *)
Join ==
  /\ running /\ exit_requested
  /\ rendering = {}
  /\ running' = FALSE
  /\ UNCHANGED <<tasks, rendering, exit_requested>>

QueueNext ==
  \/ Start \/ Refuse \/ Discard \/ Stop \/ Join
  \/ \E t \in Tasks : Accept(t) \/ Take(t) \/ Answer(t) \/ Abandon(t)

QueueSpec == QueueInit /\ [][QueueNext]_poolVars
============================================================================
