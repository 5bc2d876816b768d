----------------------------- MODULE Scheduler -----------------------------
(***************************************************************************)
(* The CPU scheduler (sched.c): the NEW, READY and EXIT queues, the        *)
(* running environment, round robin and the multi-level feedback queue.    *)
(*                                                                         *)
(* The kernel is entered from the running environment (a system call or    *)
(* the clock) or from the kernel prompt, and runs to the end with          *)
(* interrupts off: every function of sched.c is one action.  What becomes  *)
(* of an environment outside sched.c is external: env_run makes it         *)
(* RUNNABLE and curenv, start_env_free frees it.                           *)
(*                                                                         *)
(* inc/queue.h is not in the repository.  The loops that take elements out *)
(* of the queue they walk (run_all, kill_all, exit_all_ready_envs) only    *)
(* make sense if LIST_FOREACH fetches the next element first; that is how  *)
(* they are modelled.                                                      *)
(***************************************************************************)
EXTENDS Integers, SequencesExt

CONSTANTS
  Env,          \* environments
  NoEnv,        \* the NULL environment
  MaxLevels,    \* bound on the number of ready queues
  LevelCounts,  \* numbers of levels sched_init_MLFQ is called with
  Methods       \* scheduling methods in use

ASSUME EnvAssumption == NoEnv \notin Env
ASSUME LevelsAssumption ==
  /\ MaxLevels \in Nat \ {0}
  /\ LevelCounts \subseteq 1 .. MaxLevels
ASSUME MethodsAssumption == Methods \subseteq {"RR", "MLFQ"}

Levels == 0 .. MaxLevels-1

VARIABLES
  env_new_queue,       \* a queue is a sequence: its head is the newest
  env_ready_queues,    \* element, dequeue takes the last
  env_exit_queue,
  num_of_ready_queues,
  curenv,
  env_status,          \* "FREE" stands for an unused Env structure
  scheduler_status,
  scheduler_method,
  indexToEnqueue,      \* the level curenv goes to when its quantum ends
  quantumLevel,        \* the level whose quantum the clock was set to
  mode,                \* who runs: "user" (curenv) or the kernel "prompt"
  assertFailed         \* the assertion of sched_kill_env has failed

queues == <<env_new_queue, env_ready_queues, env_exit_queue>>
cpu    == <<curenv, scheduler_status, indexToEnqueue, quantumLevel, mode>>
config == <<num_of_ready_queues, scheduler_method>>
vars   == <<queues, cpu, config, env_status, assertFailed>>

(* Fault: a new element is the next to be taken.                           *)
enqueueLast(q, e) == Append(q, e)

enqueue(q, e) == <<e>> \o q
enqueueAll(q, es) == Reverse(es) \o q

InUseLevels == 0 .. num_of_ready_queues-1
InReady(e) == \E i \in InUseLevels : Contains(env_ready_queues[i], e)

Init ==
  /\ env_new_queue = <<>>
  /\ env_ready_queues = [i \in Levels |-> <<>>]
  /\ env_exit_queue = <<>>
  /\ num_of_ready_queues = 1
  /\ curenv = NoEnv
  /\ env_status = [e \in Env |-> "FREE"]
  /\ scheduler_status = "STOPPED"
  /\ scheduler_method = "RR"
  /\ indexToEnqueue = 0
  /\ quantumLevel = 0
  /\ mode = "prompt"
  /\ assertFailed = FALSE

-----------------------------------------------------------------------------
(* fos_scheduler, with the ready queues "ready", the current environment   *)
(* "cur" and the statuses "status" the caller leaves behind: put cur back, *)
(* take the last element of the first queue that has one, set its level's  *)
(* quantum and run it.                                                     *)
EnqueueLevel == IF scheduler_method = "RR" THEN 0 ELSE indexToEnqueue

(* Fault: curenv always goes back to the first level, or is dropped.       *)
RequeueFirstLevel(ready, cur) ==
  IF cur = NoEnv THEN ready ELSE [ready EXCEPT ![0] = enqueue(@, cur)]

RequeueForgets(ready, cur) == ready

Requeue(ready, cur) ==
  IF cur = NoEnv THEN ready
  ELSE [ready EXCEPT ![EnqueueLevel] = enqueue(@, cur)]

NonEmpty(ready) == {i \in InUseLevels : ready[i] # <<>>}

fos_scheduler(ready, cur, status) ==
  LET queued == Requeue(ready, cur) IN
  IF NonEmpty(queued) # {}
  THEN LET level == Min(NonEmpty(queued))
           next  == Last(queued[level])
       IN  /\ env_ready_queues' = [queued EXCEPT ![level] = Front(@)]
           /\ curenv' = next
           /\ env_status' = [status EXCEPT ![next] = "RUNNABLE"]
           /\ scheduler_status' = "STARTED"
           /\ quantumLevel' = level
           /\ indexToEnqueue' =
                IF scheduler_method = "MLFQ" /\ level + 1 # num_of_ready_queues
                  THEN level + 1 ELSE indexToEnqueue
           /\ mode' = "user"
  ELSE /\ env_ready_queues' = queued
       /\ curenv' = NoEnv
       /\ env_status' = status
       /\ scheduler_status' = "STOPPED"
       /\ mode' = "prompt"
       /\ UNCHANGED <<indexToEnqueue, quantumLevel>>

(* Fault: a stopped scheduler is left stopped.                             *)
InvokeNever(ready, status) ==
  /\ env_ready_queues' = ready
  /\ env_status' = status
  /\ UNCHANGED cpu

(* sched_run_env and sched_run_all start the scheduler if it is stopped.   *)
InvokeIfStopped(ready, status) ==
  IF scheduler_status = "STOPPED"
  THEN fos_scheduler(ready, curenv, status)
  ELSE /\ env_ready_queues' = ready
       /\ env_status' = status
       /\ UNCHANGED cpu

(* The quantum of curenv ends.                                             *)
clock_interrupt_handler ==
  /\ mode = "user"
  /\ fos_scheduler(env_ready_queues, curenv, env_status)
  /\ UNCHANGED <<env_new_queue, env_exit_queue, config, assertFailed>>

-----------------------------------------------------------------------------
sched_new_env(e) ==
  /\ env_status[e] = "FREE"
  /\ env_status' = [env_status EXCEPT ![e] = "NEW"]
  /\ env_new_queue' = enqueue(env_new_queue, e)
  /\ UNCHANGED <<env_ready_queues, env_exit_queue, cpu, config, assertFailed>>

sched_run_env(e) ==
  /\ Contains(env_new_queue, e)
  /\ env_new_queue' = RemoveFirst(env_new_queue, e)
  /\ InvokeIfStopped([env_ready_queues EXCEPT ![0] = enqueue(@, e)],
                     [env_status EXCEPT ![e] = "READY"])
  /\ UNCHANGED <<env_exit_queue, config, assertFailed>>

(* The newest environment is moved first, so it is the first to run.       *)
sched_run_all ==
  /\ env_new_queue' = <<>>
  /\ InvokeIfStopped([env_ready_queues EXCEPT ![0] = enqueueAll(@, env_new_queue)],
                     [e \in Env |-> IF Contains(env_new_queue, e) THEN "READY"
                                                                 ELSE env_status[e]])
  /\ UNCHANGED <<env_exit_queue, config, assertFailed>>

(* The search of the NEW queue has no break: ptr_env is NULL when it ends, *)
(* and the environment is in no queue afterwards.                          *)
ExitNewEnv(e) ==
  /\ Contains(env_new_queue, e)
  /\ env_new_queue' = RemoveFirst(env_new_queue, e)
  /\ env_status' = [env_status EXCEPT ![e] = "UNKNOWN"]
  /\ UNCHANGED <<env_ready_queues, env_exit_queue, cpu, config, assertFailed>>

ExitReadyEnv(e) ==
  /\ InReady(e)
  /\ env_ready_queues' = [i \in Levels |->
       IF i \in InUseLevels THEN RemoveFirst(env_ready_queues[i], e)
                            ELSE env_ready_queues[i]]
  /\ env_status' = [env_status EXCEPT ![e] = "EXIT"]
  /\ env_exit_queue' = enqueue(env_exit_queue, e)
  /\ UNCHANGED <<env_new_queue, cpu, config, assertFailed>>

(* Fault: the scheduler is not entered, curenv goes on running.            *)
ExitCurenvGoesOn(e) ==
  /\ e = curenv
  /\ env_exit_queue' = enqueue(env_exit_queue, e)
  /\ env_status' = [env_status EXCEPT ![e] = "EXIT"]
  /\ UNCHANGED <<env_new_queue, env_ready_queues, cpu, config, assertFailed>>

ExitCurenv(e) ==
  /\ e = curenv
  /\ env_exit_queue' = enqueue(env_exit_queue, e)
  /\ fos_scheduler(env_ready_queues, NoEnv, [env_status EXCEPT ![e] = "EXIT"])
  /\ UNCHANGED <<env_new_queue, config, assertFailed>>

sched_exit_env(e) == ExitNewEnv(e) \/ ExitReadyEnv(e) \/ ExitCurenv(e)

(* Level after level, each from its newest to its oldest element.          *)
sched_exit_all_ready_envs ==
  LET exited == FlattenSeq([i \in 1 .. num_of_ready_queues |-> env_ready_queues[i-1]])
  IN  /\ env_exit_queue' = enqueueAll(env_exit_queue, exited)
      /\ env_ready_queues' = [i \in Levels |->
           IF i \in InUseLevels THEN <<>> ELSE env_ready_queues[i]]
      /\ env_status' = [e \in Env |-> IF InReady(e) THEN "EXIT" ELSE env_status[e]]
      /\ UNCHANGED <<env_new_queue, cpu, config, assertFailed>>

(* Fault: the environment goes to the EXIT queue and is not freed.         *)
KillQueuedEnvExits(e) ==
  /\ \/ Contains(env_new_queue, e) \/ InReady(e)
  /\ env_new_queue' = RemoveFirst(env_new_queue, e)
  /\ env_ready_queues' = [i \in Levels |->
       IF i \in InUseLevels THEN RemoveFirst(env_ready_queues[i], e)
                            ELSE env_ready_queues[i]]
  /\ env_exit_queue' = enqueue(env_exit_queue, e)
  /\ env_status' = [env_status EXCEPT ![e] = "EXIT"]
  /\ UNCHANGED <<cpu, config, assertFailed>>

(* An environment in a queue is taken out and freed.                       *)
KillQueuedEnv(e) ==
  /\ \/ Contains(env_new_queue, e) \/ InReady(e) \/ Contains(env_exit_queue, e)
  /\ env_new_queue' = RemoveFirst(env_new_queue, e)
  /\ env_ready_queues' = [i \in Levels |->
       IF i \in InUseLevels THEN RemoveFirst(env_ready_queues[i], e)
                            ELSE env_ready_queues[i]]
  /\ env_exit_queue' = RemoveFirst(env_exit_queue, e)
  /\ env_status' = [env_status EXCEPT ![e] = "FREE"]
  /\ UNCHANGED <<cpu, config, assertFailed>>

(* Killing curenv ends in the prompt: the assertion before start_env_free  *)
(* compares env_id, not env_status, with ENV_RUNNABLE, and fails.          *)
KillCurenv(e) ==
  /\ e = curenv
  /\ mode' = "prompt"
  /\ assertFailed' = TRUE
  /\ UNCHANGED <<queues, curenv, scheduler_status, indexToEnqueue, quantumLevel,
                 config, env_status>>

sched_kill_env(e) == KillQueuedEnv(e) \/ KillCurenv(e)

(* A command of the prompt: every queue is emptied and its environments    *)
(* freed.  If a panic left a curenv behind, it is forgotten, not freed.    *)
sched_kill_all ==
  /\ mode = "prompt"
  /\ env_new_queue' = <<>>
  /\ env_exit_queue' = <<>>
  /\ fos_scheduler([i \in Levels |-> IF i \in InUseLevels THEN <<>>
                                                        ELSE env_ready_queues[i]],
                   NoEnv,
                   [e \in Env |->
                      IF Contains(env_new_queue, e) \/ InReady(e) \/ Contains(env_exit_queue, e)
                        THEN "FREE" ELSE env_status[e]])
  /\ UNCHANGED <<config, assertFailed>>

(* Blocking and waking another environment, for callers outside sched.c.   *)
sched_remove_ready(e) ==
  /\ mode = "user"
  /\ InReady(e)
  /\ env_ready_queues' = [i \in Levels |->
       IF i \in InUseLevels THEN RemoveFirst(env_ready_queues[i], e)
                            ELSE env_ready_queues[i]]
  /\ env_status' = [env_status EXCEPT ![e] = "UNKNOWN"]
  /\ UNCHANGED <<env_new_queue, env_exit_queue, cpu, config, assertFailed>>

sched_insert_ready(e) ==
  /\ mode = "user"
  /\ env_status[e] = "UNKNOWN"
  /\ e # curenv
  /\ env_status' = [env_status EXCEPT ![e] = "READY"]
  /\ env_ready_queues' = [env_ready_queues EXCEPT ![0] = enqueue(@, e)]
  /\ UNCHANGED <<env_new_queue, env_exit_queue, cpu, config, assertFailed>>

(* The method is chosen at the prompt of a stopped scheduler.  The ready   *)
(* queues are new; indexToEnqueue keeps its value.                         *)
Reconfigure(method, n) ==
  /\ mode = "prompt"
  /\ scheduler_status = "STOPPED"
  /\ num_of_ready_queues' = n
  /\ scheduler_method' = method
  /\ env_ready_queues' = [i \in Levels |-> <<>>]
  /\ quantumLevel' = 0
  /\ UNCHANGED <<env_new_queue, env_exit_queue, curenv, scheduler_status,
                 indexToEnqueue, mode, env_status, assertFailed>>

sched_init_RR      == "RR" \in Methods /\ Reconfigure("RR", 1)
sched_init_MLFQ(n) == "MLFQ" \in Methods /\ Reconfigure("MLFQ", n)

Next ==
  \/ clock_interrupt_handler
  \/ \E e \in Env : \/ sched_new_env(e)
                    \/ sched_run_env(e)
                    \/ sched_exit_env(e)
                    \/ sched_kill_env(e)
                    \/ sched_remove_ready(e)
                    \/ sched_insert_ready(e)
  \/ sched_run_all
  \/ sched_exit_all_ready_envs
  \/ sched_kill_all
  \/ sched_init_RR
  \/ \E n \in LevelCounts : sched_init_MLFQ(n)

Spec == Init /\ [][Next]_vars

(* The hardware timer interrupts whatever environment runs.  Nothing else  *)
(* is fair: no system call and no command need ever be given.              *)
FairSpec == Spec /\ WF_vars(clock_interrupt_handler)

-----------------------------------------------------------------------------
(* Every environment is in the one place its status says, once: no call    *)
(* loses an environment, leaves it in two queues or twice in one.  READY   *)
(* and RUNNABLE are both used in the ready queues (the scheduler puts      *)
(* curenv back without touching its status); an UNKNOWN one is blocked, or *)
(* was lost by the exit of a NEW one; only a failed assertion leaves a     *)
(* RUNNABLE one nowhere (sched.c:46-62, 181-244, 280-340, 388-650).        *)
StatusSaysWhere ==
  /\ IsInjective(env_new_queue) /\ IsInjective(env_exit_queue)
  /\ \A l \in Levels : IsInjective(env_ready_queues[l])
  /\ \A l, k \in Levels : \A e \in Env :
       Contains(env_ready_queues[l], e) /\ Contains(env_ready_queues[k], e) => l = k
  /\ \A e \in Env :
       /\ Contains(env_new_queue, e) <=> env_status[e] = "NEW"
       /\ Contains(env_exit_queue, e) <=> env_status[e] = "EXIT"
       /\ InReady(e) => env_status[e] \in {"READY", "RUNNABLE"} /\ e # curenv
       /\ env_status[e] = "READY" => InReady(e)
       /\ env_status[e] = "RUNNABLE" => InReady(e) \/ e = curenv \/ assertFailed
       /\ e = curenv => env_status[e] = "RUNNABLE"

(* What trap asserts before it returns to user mode (trap.c:302): there is *)
(* a current environment and it is RUNNABLE, after every system call and   *)
(* clock interrupt.                                                        *)
TrapAssertionHolds ==
  mode = "user" => /\ curenv # NoEnv
                   /\ env_status[curenv] = "RUNNABLE"
                   /\ scheduler_status = "STARTED"

(* The scheduler stops only when nothing is left to run, and no call makes *)
(* an environment ready without starting a stopped scheduler: otherwise it *)
(* would wait in a ready queue while the machine sits at the prompt        *)
(* (sched.c:226-242, 396-398, 482-485).                                    *)
StoppedMeansIdle ==
  scheduler_status = "STOPPED" =>
    /\ mode = "prompt"
    /\ curenv = NoEnv
    /\ \A l \in Levels : env_ready_queues[l] = <<>>

(* Where an environment is in its life.                                    *)
Stage(e) ==
  CASE e = curenv                      -> "running"
    [] e # curenv /\ InReady(e)       -> "ready"
    [] OTHER                           -> env_status[e]

Moves ==
  {<<"FREE", "NEW">>, <<"NEW", "ready">>, <<"NEW", "running">>, <<"NEW", "UNKNOWN">>,
   <<"NEW", "FREE">>, <<"ready", "running">>, <<"ready", "EXIT">>, <<"ready", "FREE">>,
   <<"ready", "UNKNOWN">>, <<"UNKNOWN", "ready">>, <<"running", "ready">>,
   <<"running", "EXIT">>, <<"EXIT", "FREE">>}

(* An environment goes through its life in order: it runs only from a      *)
(* ready queue (or from NEW, when that starts the scheduler), an exited    *)
(* one is never scheduled again and its structure is reused only after it  *)
(* was freed.  Only the assertion that fails on the way breaks the order.  *)
LifeInOrder ==
  [][~assertFailed => \A e \in Env :
       Stage(e)' = Stage(e) \/ <<Stage(e), Stage(e)'>> \in Moves]_vars

(* Under MLFQ an environment that uses up the quantum of a level other     *)
(* than the last waits one level lower, or runs there at once: the level   *)
(* is computed when an environment is selected and used at the next clock  *)
(* interrupt, whatever exits or arrives in between (sched.c:128-172).      *)
At(e, l) == Contains(env_ready_queues[l], e) \/ (e = curenv /\ quantumLevel = l)

DemotedByOneLevel ==
  [][\A e \in Env, l \in Levels :
       /\ clock_interrupt_handler /\ scheduler_method = "MLFQ"
       /\ e = curenv /\ l = quantumLevel + 1 /\ l < num_of_ready_queues
       => At(e, l)']_vars

(* Round robin starves no one: a ready environment runs, or is taken out   *)
(* of the ready queue by another, however many new ones arrive, as long as *)
(* the machine does not end in the prompt by the failed assertion.         *)
RoundRobinRunsAll ==
  \A e \in Env : (InReady(e) /\ scheduler_method = "RR")
                    ~> (e = curenv \/ ~InReady(e) \/ assertFailed)

=============================================================================
