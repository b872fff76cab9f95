------------------------------- MODULE Server -------------------------------
(***************************************************************************)
(* server.h, server.cpp, run_server.cpp: the life of the process - Run     *)
(* starts the task pool and the io threads, the threads accept clients and *)
(* run the handlers of connections, and a signal makes Run take everything *)
(* down again - composed with the TaskPool.                                *)
(*                                                                         *)
(* Of a connection's handler only this is kept: it ends with a new         *)
(* operation pending, or with none, or it calls AddTask, whose two steps   *)
(* are TaskPool's.  Connection has the rest.  A Connection object, and the *)
(* task it submits, is a member of Conns.                                  *)
(***************************************************************************)
EXTENDS Naturals, Sequences, FiniteSets

CONSTANTS IoThreads,   \* hardware_concurrency() * 2 threads
          Workers,     \* the threads of the task pool
          Conns,       \* bound: Connection objects made
          NoConn       \* no connection, or the empty task

ASSUME ServerAssumption ==
  /\ IsFiniteSet(IoThreads) /\ IoThreads # {}
  /\ IsFiniteSet(Workers) /\ Workers # {}   \* Init(1)
  /\ Conns # {} /\ NoConn \notin Conns

VARIABLES
  main,             \* where the thread in Run is
  stop,             \* Server::stop
  raised,           \* SIGINT or SIGTERM was sent
  io_stopped,       \* the io_service is stopped
  at, on,           \* where an io thread is, and the connection it handles
  accepting,        \* an async_accept is pending
  signal_wait,      \* the async_wait for signals is pending
  pending,          \* connections with an operation pending
  new_connection,   \* the connection that will be accepted next
  spare,            \* connections not made yet
  broken,           \* history: the accept loop was broken off
  ran_out,          \* history: the io_service stopped for lack of work
  tasks, exit_requested, threads, pc, task, caller, stopping, answered

serverVars == <<main, stop, raised, io_stopped, at, on, accepting, signal_wait,
                pending, new_connection, spare, broken, ran_out>>
poolVars == <<tasks, exit_requested, threads, pc, task, caller, stopping, answered>>
vars == <<serverVars, poolVars>>

pool == INSTANCE TaskPool WITH Tasks <- Conns, NoTask <- NoConn

(* The constructor has made a first connection and begun to accept. *)
Init ==
  /\ main = "init" /\ stop = FALSE /\ raised = FALSE /\ io_stopped = FALSE
  /\ at = [t \in IoThreads |-> "none"]
  /\ on = [t \in IoThreads |-> NoConn]
  /\ accepting = TRUE /\ signal_wait = FALSE /\ broken = FALSE /\ ran_out = FALSE
  /\ pending = {}
  /\ new_connection \in Conns
  /\ spare = Conns \ {new_connection}
  /\ pool!Init
----------------------------------------------------------------------------
MainGoes(from, to) == main = from /\ main' = to

(* Run: task_pool->Init(1). *)
InitPool ==
  /\ MainGoes("init", "threads")
  /\ pool!InitPool
  /\ UNCHANGED <<stop, raised, io_stopped, at, on, accepting, signal_wait, pending,
                 new_connection, spare, broken, ran_out>>

StartIoThreads ==
  /\ MainGoes("threads", "signals")
  /\ at' = [t \in IoThreads |-> "run"]
  /\ UNCHANGED <<stop, raised, io_stopped, on, accepting, signal_wait, pending,
                 new_connection, spare, broken, ran_out, poolVars>>

WaitForSignal ==
  /\ MainGoes("signals", "check")
  /\ signal_wait' = TRUE
  /\ UNCHANGED <<stop, raised, io_stopped, at, on, accepting, pending,
                 new_connection, spare, broken, ran_out, poolVars>>

(* while (!stop) signal_cv.wait(lock), and its spurious wake-ups. *)
CheckStop ==
  /\ main = "check"
  /\ main' = IF stop THEN "stop_pool" ELSE "asleep"
  /\ UNCHANGED <<stop, raised, io_stopped, at, on, accepting, signal_wait, pending,
                 new_connection, spare, broken, ran_out, poolVars>>

WakeUp ==
  /\ MainGoes("asleep", "check")
  /\ UNCHANGED <<stop, raised, io_stopped, at, on, accepting, signal_wait, pending,
                 new_connection, spare, broken, ran_out, poolVars>>

(* Mutant: Run does not have the workers joined. *)
StopPoolWithoutJoin ==
  /\ MainGoes("stop_pool", "stop_io") /\ pool!RequestExit(FALSE)
  /\ UNCHANGED <<stop, raised, io_stopped, at, on, accepting, signal_wait, pending,
                 new_connection, spare, broken, ran_out>>

(* task_pool->Stop(true), in TaskPool's two steps ... *)
StopPool ==
  /\ \/ MainGoes("stop_pool", "join_pool") /\ pool!RequestExit(TRUE)
     \/ MainGoes("join_pool", "stop_io") /\ pool!JoinThreads
  /\ UNCHANGED <<stop, raised, io_stopped, at, on, accepting, signal_wait, pending,
                 new_connection, spare, broken, ran_out>>

(* ... io_service.stop(), and the joining of the io threads. *)
StopIo ==
  /\ MainGoes("stop_io", "join_io")
  /\ io_stopped' = TRUE
  /\ UNCHANGED <<stop, raised, at, on, accepting, signal_wait, pending,
                 new_connection, spare, broken, ran_out, poolVars>>

(* Mutant: one joined io thread is enough. *)
JoinOneIoThread ==
  /\ MainGoes("join_io", "returned")
  /\ \E t \in IoThreads : at[t] = "done"
  /\ UNCHANGED <<stop, raised, io_stopped, at, on, accepting, signal_wait, pending,
                 new_connection, spare, broken, ran_out, poolVars>>

JoinIoThreads ==
  /\ MainGoes("join_io", "returned")
  /\ \A t \in IoThreads : at[t] = "done"
  /\ UNCHANGED <<stop, raised, io_stopped, at, on, accepting, signal_wait, pending,
                 new_connection, spare, broken, ran_out, poolVars>>

(* The handler of a pending accept owns the server, and the server its     *)
(* io_service: they keep each other, and every handler, alive.             *)
ServerKept == accepting

(* RunServer: the shared_ptr to the server goes, then the plugin list. *)
LeaveRunServer ==
  /\ MainGoes("returned", "freed")
  /\ IF ServerKept THEN UNCHANGED <<pending, new_connection>>
                   ELSE pending' = {} /\ new_connection' = NoConn
  /\ UNCHANGED <<stop, raised, io_stopped, at, on, accepting, signal_wait,
                 spare, broken, ran_out, poolVars>>

Main ==
  \/ InitPool \/ StartIoThreads \/ WaitForSignal \/ CheckStop
  \/ StopPool \/ StopIo \/ JoinIoThreads \/ LeaveRunServer
----------------------------------------------------------------------------
Alive == main # "killed"
ThreadGoes(t, from, to) == Alive /\ at[t] = from /\ at' = [at EXCEPT ![t] = to]

InHandler(t) == at[t] \in {"accept", "handle", "adding", "closing"}

(* What the io_service waits for or runs.  When the handler that ends was  *)
(* the last of it, the io_service stops itself.                            *)
HasWork == accepting \/ signal_wait \/ pending # {} \/ \E t \in IoThreads : InHandler(t)

HandlerEnds ==
  /\ io_stopped' = (io_stopped \/ ~HasWork')
  /\ ran_out' = (ran_out \/ (~io_stopped /\ ~HasWork'))

(* A signal sent before Run registers for it ends the process. *)
RaiseSignal ==
  /\ Alive /\ ~raised
  /\ raised' = TRUE
  /\ main' = IF main \in {"init", "threads", "signals"} THEN "killed" ELSE main
  /\ UNCHANGED <<stop, io_stopped, at, on, accepting, signal_wait, pending,
                 new_connection, spare, broken, ran_out, poolVars>>

(* handle_signal, run by t: wake Run up. *)
HandleSignal(t) ==
  /\ Alive /\ at[t] = "run" /\ ~io_stopped
  /\ signal_wait /\ raised
  /\ signal_wait' = FALSE
  /\ stop' = TRUE
  /\ main' = IF main = "asleep" THEN "check" ELSE main
  /\ UNCHANGED <<raised, at, on, accepting, pending, new_connection, spare, broken, poolVars>>
  /\ HandlerEnds

(* handle_accept, run by t.  After an error, nothing is accepted any more. *)
AcceptFails(t) ==
  /\ Alive /\ at[t] = "run" /\ ~io_stopped /\ accepting
  /\ accepting' = FALSE
  /\ broken' = TRUE
  /\ UNCHANGED <<main, stop, raised, at, on, signal_wait, pending,
                 new_connection, spare, poolVars>>
  /\ HandlerEnds

(* Otherwise the connection is started ... *)
HandleAccept(t) ==
  /\ ThreadGoes(t, "run", "accept")
  /\ ~io_stopped /\ accepting /\ spare # {}
  /\ accepting' = FALSE
  /\ pending' = pending \cup {new_connection}
  /\ UNCHANGED <<main, stop, raised, io_stopped, on, signal_wait,
                 new_connection, spare, broken, ran_out, poolVars>>

(* Mutant: handle_accept does not accept again. *)
AcceptNextForgotten(t) ==
  /\ ThreadGoes(t, "accept", "run")
  /\ \E c \in spare : new_connection' = c /\ spare' = spare \ {c}
  /\ UNCHANGED <<main, stop, raised, io_stopped, on, accepting, signal_wait, pending, broken,
                 ran_out, poolVars>>

(* ... and the next one made and waited for. *)
AcceptNext(t) ==
  /\ ThreadGoes(t, "accept", "run")
  /\ \E c \in spare : new_connection' = c /\ spare' = spare \ {c}
  /\ accepting' = TRUE
  /\ UNCHANGED <<main, stop, raised, io_stopped, on, signal_wait, pending, broken, ran_out, poolVars>>

(* A connection's operation is complete: its handler runs ... *)
BeginHandler(t) ==
  /\ ThreadGoes(t, "run", "handle")
  /\ ~io_stopped
  /\ \E c \in pending : on' = [on EXCEPT ![t] = c] /\ pending' = pending \ {c}
  /\ UNCHANGED <<main, stop, raised, io_stopped, accepting, signal_wait,
                 new_connection, spare, broken, ran_out, poolVars>>

(* ... and starts another operation, or none ... *)
EndHandler(t) ==
  /\ \/ ThreadGoes(t, "handle", "run")
     \/ ThreadGoes(t, "closing", "run")
  /\ on' = [on EXCEPT ![t] = NoConn]
  /\ \/ UNCHANGED pending
     \/ at[t] = "handle" /\ pending' = pending \cup {on[t]}
  /\ UNCHANGED <<main, stop, raised, accepting, signal_wait,
                 new_connection, spare, broken, poolVars>>
  /\ HandlerEnds

(* ... or calls AddTask, and SendResponse(500) if it is refused. *)
CallAddTask(t) ==
  /\ ThreadGoes(t, "handle", "adding")
  /\ pool!CheckThreads(on[t])
  /\ UNCHANGED <<main, stop, raised, io_stopped, on, accepting, signal_wait, pending,
                 new_connection, spare, broken, ran_out>>

(* Mutant: SendResponse is called although the task was accepted. *)
EndAddTaskAnswers(t) ==
  /\ ThreadGoes(t, "adding", "closing")
  /\ \/ pool!PushTask(on[t])
     \/ caller[on[t]] = "refused" /\ UNCHANGED poolVars
  /\ pending' = pending \cup {on[t]}
  /\ UNCHANGED <<main, stop, raised, io_stopped, on, accepting, signal_wait,
                 new_connection, spare, broken, ran_out>>

EndAddTask(t) ==
  /\ ThreadGoes(t, "adding", "closing")
  /\ \/ pool!PushTask(on[t]) /\ UNCHANGED pending
     \/ /\ caller[on[t]] = "refused"
        /\ pending' = pending \cup {on[t]}
        /\ UNCHANGED poolVars
  /\ UNCHANGED <<main, stop, raised, io_stopped, on, accepting, signal_wait,
                 new_connection, spare, broken, ran_out>>


(* ThreadEntryPoint: an exception leaves the handler, and run, which is    *)
(* called again.                                                           *)
HandlerThrows(t) ==
  /\ ThreadGoes(t, at[t], "run") /\ at[t] \in {"accept", "handle"}
  /\ broken' = (broken \/ at[t] = "accept")
  /\ on' = [on EXCEPT ![t] = NoConn]
  /\ UNCHANGED <<main, stop, raised, accepting, signal_wait, pending,
                 new_connection, spare, poolVars>>
  /\ HandlerEnds

(* io_service::run returns once the service is stopped, by Run or itself. *)
EndThread(t) ==
  /\ ThreadGoes(t, "run", "done")
  /\ io_stopped
  /\ UNCHANGED <<main, stop, raised, io_stopped, on, accepting, signal_wait, pending,
                 new_connection, spare, broken, ran_out, poolVars>>

(* A worker; its SendResponse starts an operation of the connection. *)
Worker(w) ==
  /\ Alive
  /\ \/ (pool!NextTask(w) \/ pool!Render(w) \/ pool!Recheck(w)) /\ UNCHANGED pending
     \/ pool!Respond(w) /\ pending' = pending \cup {task[w]}
  /\ UNCHANGED <<main, stop, raised, io_stopped, at, on, accepting, signal_wait,
                 new_connection, spare, broken, ran_out>>

WorkerWakesUp(w) == Alive /\ pool!SpuriousWakeup(w) /\ UNCHANGED serverVars

Finish(t) ==
  AcceptNext(t) \/ EndHandler(t) \/ CallAddTask(t) \/ EndAddTask(t) \/ HandlerThrows(t)
    \/ EndThread(t)

Next ==
  \/ Main \/ WakeUp \/ RaiseSignal
  \/ \E t \in IoThreads :
       \/ HandleSignal(t) \/ AcceptFails(t) \/ HandleAccept(t) \/ BeginHandler(t)
       \/ Finish(t)
  \/ \E w \in Workers : Worker(w) \/ WorkerWakesUp(w)

(* Threads that can run do run, and a handler that is ready is run: the    *)
(* io_service hands ready handlers out in the order they became ready.     *)
(* Nobody has to connect, or to send a signal.                             *)
Fairness ==
  /\ WF_vars(Main)
  /\ \A t \in IoThreads : WF_vars(Finish(t))
  /\ \A w \in Workers : WF_vars(Worker(w))
  /\ SF_vars(\E t \in IoThreads : HandleSignal(t))

Spec == Init /\ [][Next]_vars /\ Fairness
----------------------------------------------------------------------------
(* When Run has returned, and so before the plugin list is freed, no       *)
(* thread is in a handler or renders a page.                               *)
QuietAtReturn ==
  main \in {"returned", "freed"} =>
    /\ \A t \in IoThreads : ~InHandler(t)
    /\ \A w \in Workers : pc[w] \notin pool!Busy

(* Run stops the io_service when no worker is left to start a write on it. *)
StopOrder == io_stopped /\ ~ran_out => \A w \in Workers : pc[w] = "done"

(* Who is at work on c: handlers, tasks, a pending operation. *)
Places(c) ==
  {<<"handler", t>> : t \in {u \in IoThreads : on[u] = c /\ at[u] \in {"handle", "adding"}}}
    \cup {<<"task", i>> : i \in {j \in 1..Len(tasks) : tasks[j] = c}}
    \cup {<<"worker", w>> : w \in {v \in Workers : pool!Holds(v, c)}}
    \cup (IF c \in pending THEN {<<"pending", c>>} ELSE {})

(* A connection is with one handler, operation or task at a time, but for  *)
(* the CloseSocket that ends the handler which called AddTask.             *)
OnePlace == \A c \in Conns : Cardinality(Places(c)) <= 1

(* Clients are accepted, or about to be, until a failure breaks the loop,  *)
(* and till then the io_service does not run out of work.                  *)
KeepsAccepting ==
  Alive /\ ~broken => /\ accepting \/ \E t \in IoThreads : at[t] = "accept"
                      /\ ~ran_out


Deleted(c) == Places(c) = {} /\ \A t \in IoThreads : on[t] # c

(* run_server.cpp: "Server::Run joins to all threads, so control must      *)
(* return only when all Connections deleted and PluginList not used".      *)
ConnectionsDeleted ==
  main = "returned" => \A c \in Conns \ (spare \cup {new_connection}) : Deleted(c)
=============================================================================
