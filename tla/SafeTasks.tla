------------------------------ MODULE SafeTasks -------------------------------
(* SafeTaskDispatcher.cs: work of background threads that has to run on     *)
(* AutoCAD's UI thread while no command is active.  EnqueueSafeTask appends *)
(* to a ConcurrentQueue and then schedules a drain, unless the flag says    *)
(* that one is scheduled; the drain, on the UI thread, takes the flag back, *)
(* looks at CMDNAMES, and either runs all that is queued or leaves a hook   *)
(* on the end of the command.  One action is one step that another thread   *)
(* can see; the UI thread (`ui`) does one thing at a time.                  *)
(* The dispatcher is known before anything is queued (PluginEntry.cs 101),  *)
(* and no task queues another one from inside itself.                       *)
EXTENDS Integers, Sequences

CONSTANTS
    Threads,        \* background threads that enqueue
    Work            \* what a task may be

VARIABLES
    tasks,          \* _pendingTasks
    scheduled,      \* _drainScheduled
    drains,         \* drains given to BeginInvoke and not begun
    hooked,         \* OnCommandEnded, -Cancelled, -Failed are attached
    command,        \* CMDNAMES is not empty
    ui,             \* what the UI thread does: "free", "drain", "run"
    caller,         \* a thread inside EnqueueSafeTask: "out", "queued", "claimed"
    threw           \* (history) the last look at the queue threw

dispatcher == <<tasks, scheduled, drains, hooked, command, ui, caller, threw>>

DispatcherTypeOK ==
    /\ tasks \in Seq(Work)
    /\ scheduled \in BOOLEAN /\ hooked \in BOOLEAN
    /\ command \in BOOLEAN /\ threw \in BOOLEAN
    /\ drains \in Nat
    /\ ui \in {"free", "drain", "run"}
    /\ caller \in [Threads -> {"out", "queued", "claimed"}]

DispatcherInit ==
    /\ tasks = <<>>
    /\ scheduled = FALSE
    /\ drains = 0
    /\ hooked = FALSE
    /\ command = FALSE
    /\ ui = "free"
    /\ caller = [t \in Threads |-> "out"]
    /\ threw = FALSE

------------------------------------------------------------------------------
(* Background threads                                                       *)

Enqueue(t, task) ==
    /\ caller[t] = "out"
    /\ tasks' = Append(tasks, task)
    /\ caller' = [caller EXCEPT ![t] = "queued"]
    /\ UNCHANGED <<scheduled, drains, hooked, command, ui, threw>>

\* ScheduleDrain: Interlocked.Exchange, and nothing more if it was set.
Claim(t) ==
    /\ caller[t] = "queued"
    /\ scheduled' = TRUE
    /\ caller' = [caller EXCEPT ![t] = IF scheduled THEN "out" ELSE "claimed"]
    /\ UNCHANGED <<tasks, drains, hooked, command, ui, threw>>

\* BeginInvoke
Post(t) ==
    /\ caller[t] = "claimed"
    /\ drains' = drains + 1
    /\ caller' = [caller EXCEPT ![t] = "out"]
    /\ UNCHANGED <<tasks, scheduled, hooked, command, ui, threw>>

------------------------------------------------------------------------------
(* The UI thread                                                            *)

\* EnqueueSafeTask on the UI thread itself: unless a drain is scheduled it is
\* done at once.
EnqueueOnUi(task) ==
    /\ ui = "free"
    /\ tasks' = Append(tasks, task)
    /\ ui' = IF scheduled THEN "free" ELSE "drain"
    /\ UNCHANGED <<scheduled, drains, hooked, command, caller, threw>>

\* (mutant) the flag is taken back only when the queue has been emptied
DrainKeepsFlag ==
    /\ ui = "free" /\ drains > 0
    /\ drains' = drains - 1
    /\ ui' = "drain"
    /\ UNCHANGED <<tasks, scheduled, hooked, command, caller, threw>>

\* DrainOnUiDispatcher: the flag is taken back before the queue is looked at.
DrainBegins ==
    /\ ui = "free" /\ drains > 0
    /\ drains' = drains - 1
    /\ scheduled' = FALSE
    /\ ui' = "drain"
    /\ UNCHANGED <<tasks, hooked, command, caller, threw>>

\* (mutant) the queue is left to the next drain
ForgetsHook ==
    /\ ui = "drain" /\ command
    /\ ui' = "free"
    /\ threw' = FALSE
    /\ UNCHANGED <<tasks, scheduled, drains, hooked, command, caller>>

\* A command is active: EnsureHooked.
FindsCommand ==
    /\ ui = "drain" /\ command
    /\ hooked' = TRUE
    /\ ui' = "free"
    /\ threw' = FALSE
    /\ UNCHANGED <<tasks, scheduled, drains, command, caller>>

FindsNone ==
    /\ ui = "drain" /\ ~command
    /\ hooked' = FALSE
    /\ ui' = "run"
    /\ threw' = FALSE
    /\ UNCHANGED <<tasks, scheduled, drains, command, caller>>

\* ExecuteInApplicationContext throws: the exception is logged.
LookThrows ==
    /\ ui = "drain"
    /\ threw' = TRUE
    /\ ui' = "free"
    /\ UNCHANGED <<tasks, scheduled, drains, hooked, command, caller>>

\* ExecuteAllPending: one task, then the end of the loop.
RunTask ==
    /\ ui = "run" /\ tasks # <<>>
    /\ tasks' = Tail(tasks)
    /\ UNCHANGED <<scheduled, drains, hooked, command, ui, caller, threw>>

RunEnds ==
    /\ ui = "run" /\ tasks = <<>>
    /\ ui' = "free"
    /\ UNCHANGED <<tasks, scheduled, drains, hooked, command, caller, threw>>

\* The user: a command begins when the UI thread is free; at its end the hook
\* calls ScheduleDrain on the UI thread, which drains at once.
CommandBegins ==
    /\ ui = "free" /\ ~command
    /\ command' = TRUE
    /\ UNCHANGED <<tasks, scheduled, drains, hooked, ui, caller, threw>>

CommandStops ==
    /\ ui = "free" /\ command
    /\ command' = FALSE
    /\ ui' = IF hooked /\ ~scheduled THEN "drain" ELSE "free"
    /\ UNCHANGED <<tasks, scheduled, drains, hooked, caller, threw>>

UiThread == DrainBegins \/ FindsCommand \/ FindsNone \/ RunTask \/ RunEnds
Inside(t) == Claim(t) \/ Post(t)

DispatcherNext ==
    \/ \E t \in Threads : (\E task \in Work : Enqueue(t, task)) \/ Inside(t)
    \/ \E task \in Work : EnqueueOnUi(task)
    \/ UiThread \/ LookThrows \/ CommandBegins \/ CommandStops

DispatcherSpec == DispatcherInit /\ [][DispatcherNext]_dispatcher

------------------------------------------------------------------------------
(* A queued task has somebody who will come for it: the thread that queued  *)
(* it, the drain that is on its way, the loop that runs, or the end of the  *)
(* command the hook waits for.  SafeTaskDispatcher.cs 54 and 83: the flag   *)
(* that spares a second drain must not let a task wait for nobody.  Only an *)
(* exception of ExecuteInApplicationContext (114-117) may.                      *)
OnItsWay == drains > 0 \/ \E t \in Threads : caller[t] = "claimed"
Attended ==
    tasks # <<>> =>
        \/ \E t \in Threads : caller[t] = "queued"
        \/ OnItsWay
        \/ ui \in {"drain", "run"}
        \/ command /\ hooked
        \/ threw

==============================================================================
