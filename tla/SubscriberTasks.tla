-------------------------- MODULE SubscriberTasks --------------------------
(***************************************************************************)
(* What the subscriber queue promises to those who enqueue: a task is held *)
(* until it is done or abandoned, and one of the two happens in the end.   *)
(* Which replica holds it, where, and how often it is tried is left open.  *)
(* SubscriberQueue implements it; UserEvents builds on it.                 *)
(***************************************************************************)
EXTENDS Naturals, Sequences

CONSTANTS Users,
          MaxTasks    \* bound: tasks enqueued

VARIABLES log,       \* what each task asks for
          held,      \* tasks in some memory, in the backup or on their way to it
          done,      \* tasks that succeeded
          abandoned  \* tasks given up, or exposed to a fault that may lose them

tasksVars == <<log, held, done, abandoned>>

Tasks == 1..MaxTasks
Request == [kind : {"create", "update", "delete"}, user : Users]

TasksTypeOK ==
    /\ log \in Seq(Request) /\ DOMAIN log \subseteq Tasks
    /\ held \subseteq DOMAIN log
    /\ done \subseteq DOMAIN log /\ abandoned \subseteq DOMAIN log

TasksInit == log = <<>> /\ held = {} /\ done = {} /\ abandoned = {}

Enqueue(request) ==
    LET t == Len(log) + 1
    IN  /\ t \in Tasks
        /\ log' = Append(log, request)
        /\ UNCHANGED done
        /\ abandoned' \in {abandoned, abandoned \cup {t}}
        /\ held' = held \cup {t}

\* The backup may hold what is done, and a restart do it again.
Finish(t) ==
    /\ UNCHANGED <<log, abandoned>>
    /\ done' = done \cup {t}
    /\ t \in held
    /\ held' \in {held, held \ {t}}

\* Only what is done or abandoned is let go.
LetGo ==
    /\ UNCHANGED <<log, done>>
    /\ abandoned' \in SUBSET DOMAIN log /\ abandoned \subseteq abandoned'
    /\ held' \in SUBSET held
    /\ held \ held' \subseteq done \cup abandoned'

TasksNext ==
    \/ \E request \in Request : Enqueue(request)
    \/ \E t \in Tasks : Finish(t)
    \/ LetGo

\* Nothing settled is unsettled: with finitely many tasks, each is settled in the end.
Resolution == []<>(DOMAIN log \subseteq done \cup abandoned)

TasksSpec == TasksInit /\ [][TasksNext]_tasksVars /\ Resolution

-----------------------------------------------------------------------------
\* Every task that was enqueued is held, done or abandoned: none vanishes, and what
\* is held or settled was enqueued.
NoTaskVanishes == DOMAIN log = held \cup done \cup abandoned
=============================================================================
