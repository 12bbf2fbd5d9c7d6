----------------------------- MODULE SignSchedule -----------------------------
(***************************************************************************)
(* The schedule of one sign task: the jobs of APScheduler that            *)
(* backend/scheduler/__init__.py keeps for it, the one-shot jobs of a     *)
(* random moment and of the catch-up after a start, the requests that     *)
(* edit the task (sign_task_crud.py, in a thread of the server) and the   *)
(* mark of the last run in config.json.                                   *)
(*                                                                         *)
(* A day has Slots slots.  A job is due at the beginning of its slot, and  *)
(* whatever else happens in the slot happens after that moment.            *)
(***************************************************************************)
EXTENDS Integers, FiniteSets

CONSTANTS
  Slots,       \* slots of a day
  Days,        \* days that are modelled
  Plans,       \* the schedules a task may have: mode, from, to
  Occasions,   \* what may happen in one behaviour: sets of kinds
  MaxOccasions

ASSUME ScheduleAssumption ==
  /\ Slots \in Nat \ {0} /\ Days \in Nat \ {0} /\ MaxOccasions \in Nat
  /\ Plans \subseteq
       [mode : {"fixed", "range"}, from : 0..(Slots - 1), to : 0..(Slots - 1)]
  /\ Occasions \subseteq SUBSET {"restart", "edit", "manual", "late", "overlap"}

VARIABLES
  clock,      \* the slot now
  file,       \* config.json: enabled, plan, and when the last run ended
  cron,       \* the slot in which the cron job of the task fires, or NoSlot
  due,        \* has the moment of the cron job come, and it was not fired yet?
  shots,      \* when the one-shot job of each day fires, or NoSlot
  process,    \* is the process up, starting (before the first sync) or down?
  run,        \* the run of the task that executes: where it is, when it began,
              \* who began it, and the file it has read at its end
  request,    \* a request that edits the task: where it is, what it read, what it wants
  completed,  \* the completed runs the scheduler began, by the day they began
  chances,    \* the kinds that may happen
  happened    \* how many occasions there were

scheduleVars == <<clock, file, cron, due, shots, process, run, request,
                  completed, chances, happened>>

NoSlot == -1
Times == 0..(Slots * Days - 1)
DayOf(t) == t \div Slots
SlotOf(t) == t % Slots
DaySet == 0..(Days - 1)

Files == [enabled : BOOLEAN, plan : Plans, last : Times \cup {NoSlot}]
NoRun(f) == [at |-> "none", began |-> 0, by |-> "nobody", read |-> f]
NoRequest(f) == [at |-> "none", read |-> f, wants |-> f]

ScheduleTypeOK ==
  /\ clock \in Times /\ file \in Files
  /\ cron \in 0..(Slots - 1) \cup {NoSlot} /\ due \in BOOLEAN
  /\ shots \in [DaySet -> Times \cup {NoSlot}]
  /\ process \in {"up", "starting", "down"}
  /\ run \in [at : {"none", "working", "ending"}, began : Times,
              by : {"nobody", "scheduler", "user"}, read : Files]
  /\ request \in [at : {"none", "read", "written"}, read : Files, wants : Files]
  /\ completed \in [DaySet -> Nat]
  /\ chances \in Occasions /\ happened \in 0..MaxOccasions

ScheduleInit ==
  /\ clock = 0 /\ due = FALSE /\ process = "starting" /\ cron = NoSlot
  /\ file \in [enabled : {TRUE}, plan : Plans, last : {NoSlot}]
  /\ shots = [d \in DaySet |-> NoSlot]
  /\ run = NoRun(file) /\ request = NoRequest(file)
  /\ completed = [d \in DaySet |-> 0]
  /\ chances \in Occasions /\ happened = 0

-----------------------------------------------------------------------------
LastIsToday(f) == f.last # NoSlot /\ DayOf(f.last) = DayOf(clock)

(* in_daily_window; a window that ends before it begins spans midnight.    *)
InWindow(p) ==
  LET now == SlotOf(clock) IN
  CASE p.mode = "fixed" -> now >= p.from
    [] p.mode = "range" /\ p.to > p.from -> p.from <= now /\ now <= p.to
    [] OTHER -> p.from <= now \/ now <= p.to

(* The last slot of the window whose cron job fires now. *)
EndOfWindow(p) ==
  clock - SlotOf(clock) + p.to + (IF p.to < p.from THEN Slots ELSE 0)

(* The run began, unless the task is executing already: the runner refuses.*)
Begins(who) ==
  IF run.at = "none"
    THEN run' = [NoRun(file) EXCEPT !.at = "working", !.began = clock, !.by = who]
    ELSE UNCHANGED run

Overdue == due \/ \E d \in DaySet : shots[d] = clock
Occasion(k) ==
  /\ k \in chances /\ happened < MaxOccasions /\ happened' = happened + 1
  /\ UNCHANGED chances
Usual == UNCHANGED <<chances, happened>>

(* Time passes; APScheduler fires what is due first.  A run lasts past the *)
(* end of the day only in behaviours with late runs.                       *)
Tick ==
  /\ ~Overdue /\ clock + 1 \in Times
  /\ run.at = "none" \/ "late" \in chances \/ DayOf(clock + 1) = DayOf(clock)
  /\ clock' = clock + 1
  /\ due' = (cron = SlotOf(clock + 1))
  /\ UNCHANGED <<file, cron, shots, process, run, request, completed>> /\ Usual

(* _job_run_sign_task of the cron job: a range task is put off to a random *)
(* moment of its window, unless it ran today.                              *)
FireCron ==
  /\ due /\ due' = FALSE
  /\ IF file.plan.mode = "range"
       THEN IF LastIsToday(file) THEN UNCHANGED <<run, shots>>
              ELSE \E t \in (clock..EndOfWindow(file.plan)) \cap Times :
                     IF t = clock THEN Begins("scheduler") /\ UNCHANGED shots
                       ELSE /\ shots' = [shots EXCEPT ![DayOf(clock)] = t]
                            /\ UNCHANGED run
       ELSE Begins("scheduler") /\ UNCHANGED shots
  /\ UNCHANGED <<clock, file, cron, process, request, completed>> /\ Usual

(* Mutant: the one-shot job stays after it fired. *)
FireShotKept(d) ==
  /\ shots[d] = clock
  /\ Begins("scheduler")
  /\ UNCHANGED <<clock, file, cron, due, shots, process, request, completed>> /\ Usual

(* The one-shot job: skip_range_delay, nothing is looked up any more. *)
FireShot(d) ==
  /\ shots[d] = clock
  /\ shots' = [shots EXCEPT ![d] = NoSlot]
  /\ Begins("scheduler")
  /\ UNCHANGED <<clock, file, cron, due, process, request, completed>> /\ Usual

(* The end of a run: config.json is read, the mark added, and the file     *)
(* written; a request's thread may come in between.                        *)
RunReads ==
  /\ run.at = "working"
  /\ request.at = "read" => "overlap" \in chances
  /\ run' = [run EXCEPT !.at = "ending", !.read = file]
  /\ UNCHANGED <<clock, file, cron, due, shots, process, request, completed>> /\ Usual

RunEnds ==
  /\ run.at = "ending"
  /\ file' = [run.read EXCEPT !.last = clock]
  /\ completed' = IF run.by = "scheduler"
                    THEN [completed EXCEPT ![DayOf(run.began)] = @ + 1] ELSE completed
  /\ run' = NoRun(file)
  /\ UNCHANGED <<clock, cron, due, shots, process, request>> /\ Usual

(* A client runs the task by hand. *)
RunByHand ==
  /\ process # "down" /\ run.at = "none" /\ Occasion("manual")
  /\ Begins("user")
  /\ UNCHANGED <<clock, file, cron, due, shots, process, request, completed>>

-----------------------------------------------------------------------------
(* add_or_update_sign_task_job and sync_jobs: the cron job follows what is *)
(* asked; replaced, it fires at the next occurrence of its slot.           *)
JobOf(f) == IF f.enabled THEN f.plan.from ELSE NoSlot

(* Mutant: a disabled task keeps its job. *)
RegisteredAnyway(f) == cron' = f.plan.from /\ due' = FALSE

Registered(f) == cron' = JobOf(f) /\ due' = FALSE

EditReads ==
  /\ process # "down" /\ request.at = "none" /\ ~due
  /\ run.at = "ending" => "overlap" \in chances
  /\ Occasion("edit")
  /\ \E e \in BOOLEAN, p \in Plans :
       /\ <<e, p>> # <<file.enabled, file.plan>>
       /\ request' = [at |-> "read", read |-> file,
                      wants |-> [enabled |-> e, plan |-> p, last |-> file.last]]
  /\ UNCHANGED <<clock, file, cron, due, shots, process, run, completed>>

EditWrites ==
  /\ request.at = "read"
  /\ file' = request.wants
  /\ Registered(request.wants)
  /\ request' = [request EXCEPT !.at = "written"]
  /\ UNCHANGED <<clock, shots, process, run, completed>> /\ Usual

(* The background sync after the response. *)
EditSyncs ==
  /\ request.at = "written"
  /\ Registered(file)
  /\ request' = NoRequest(file)
  /\ UNCHANGED <<clock, file, shots, process, run, completed>> /\ Usual

-----------------------------------------------------------------------------
(* Mutant: the mark of the last run is not looked at. *)
CatchesUpAnyway(f) == f.enabled /\ InWindow(f.plan)
(* Mutant: only tasks with a fixed time are caught up. *)
CatchesUpFixed(f) == f.enabled /\ f.plan.mode = "fixed" /\ ~LastIsToday(f) /\ InWindow(f.plan)
(* should_catch_up_sign_task *)
CatchesUp(f) == f.enabled /\ ~LastIsToday(f) /\ InWindow(f.plan)

(* sync_jobs and catch_up_missed_sign_tasks of the start: the task runs a  *)
(* few seconds later if it should have run.                                *)
Boot ==
  /\ process = "starting" /\ process' = "up"
  /\ Registered(file)
  /\ shots' = IF CatchesUp(file) THEN [shots EXCEPT ![DayOf(clock)] = clock] ELSE shots
  /\ UNCHANGED <<clock, file, run, request, completed>> /\ Usual

(* The process dies: jobs and runs are gone, the file stays. *)
Dies ==
  /\ process # "down" /\ Occasion("restart")
  /\ process' = "down" /\ cron' = NoSlot /\ due' = FALSE
  /\ shots' = [d \in DaySet |-> NoSlot]
  /\ run' = NoRun(file) /\ request' = NoRequest(file)
  /\ UNCHANGED <<clock, file, completed>>

ComesBack ==
  /\ process = "down" /\ process' = "starting"
  /\ UNCHANGED <<clock, file, cron, due, shots, run, request, completed>> /\ Usual

ScheduleNext ==
  \/ Tick \/ FireCron \/ RunReads \/ RunEnds \/ RunByHand
  \/ EditReads \/ EditWrites \/ EditSyncs \/ Boot \/ Dies \/ ComesBack
  \/ \E d \in DaySet : FireShot(d)

ScheduleSpec == ScheduleInit /\ [][ScheduleNext]_scheduleVars

-----------------------------------------------------------------------------
(* The scheduler signs at most once for a day, whatever restarts come in   *)
(* between (oneshot_job_id, last_run_is_today); the user has neither moved *)
(* the task nor run it by hand that day.                                   *)
OncePerDay ==
  chances \cap {"edit", "manual"} = {} => \A d \in DaySet : completed[d] <= 1

(* Inside the window of an enabled task it has run today, runs, or a job   *)
(* will still run it today: a restart loses no day                         *)
(* (catch_up_missed_sign_tasks).  Runs end before midnight, and the user   *)
(* does not move the task.                                                 *)
WindowIsServed ==
  process = "up" /\ InWindow(file.plan) /\ chances \cap {"edit", "late"} = {} =>
    \/ LastIsToday(file) \/ run.at # "none" \/ due
    \/ \E d \in DaySet : shots[d] # NoSlot /\ clock <= shots[d] /\ DayOf(shots[d]) = DayOf(clock)

(* The cron job is the one config.json asks for, none for a disabled task, *)
(* when the scheduler has started and no request is at work: no end of a   *)
(* run brings an older configuration back.                                 *)
CronFollowsFile ==
  process = "up" /\ request.at # "read" /\ "overlap" \notin chances =>
    cron = JobOf(file) /\ (due => file.enabled)

(* Every day has its one run, at the time config.json asks for.            *)
DaysAreKept == ScheduleTypeOK /\ OncePerDay /\ WindowIsServed /\ CronFollowsFile
=============================================================================
