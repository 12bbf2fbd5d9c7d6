----------------------------- MODULE GamesPipeline -----------------------------
(***************************************************************************)
(* The automatic publishing of game posts (backend/services/games/         *)
(* automation.py and the runner in worker.py): a listener scans a channel  *)
(* behind a cursor, keeps an item per post in a file, gives one post after *)
(* the other to the job runner and waits for the job; the runner pulls the *)
(* post, creates its article and records it in the catalogue.              *)
(*                                                                         *)
(* Posts are numbered in the order of the channel.  An action is what the  *)
(* event loop does between two awaits; while the listener is choosing it   *)
(* does not await, so only a crash can come in between.                    *)
(***************************************************************************)
EXTENDS Naturals, FiniteSets

CONSTANTS
  MaxPosts,      \* posts that appear in the channel
  Backfill,      \* telegram_backfill_limit
  Window,        \* how many of the newest posts a scan sees, at least 100 in the code
  RetryLimit,    \* auto_retry_limit
  MaxJobs,       \* job files (a file nobody refers to is used again)
  Disturbances,  \* what may happen from outside in one behaviour: sets of kinds
  MaxDisturbances,
  LookupFails    \* may the search for an existing article fail?

ASSUME GamesAssumption ==
  /\ MaxPosts \in Nat /\ Backfill \in Nat /\ Window \in Nat /\ RetryLimit \in Nat \ {0}
  /\ MaxJobs \in Nat /\ MaxDisturbances \in Nat /\ LookupFails \in BOOLEAN
  /\ Disturbances \subseteq
       SUBSET {"cancel", "pull", "reload", "crash", "shutdown", "retry"}

VARIABLES
  arrived,   \* the posts of the channel are 1..arrived
  memory,    \* self.state: cursor and items
  disk,      \* automation.json
  skipped,   \* the posts the first scan left out on purpose
  on,        \* auto_publish_enabled
  listener,  \* where the listener's task is
  post,      \* the post it waits for
  jobFile,   \* the job files: stage, and whether wp_id is set
  task,      \* the runner's task: job, post (0: a manual pull), next step
  asked,     \* has the runner's task been cancelled?
  snapshot,  \* the runner's snapshot: job, and running
  canceller, \* is a request inside GamesJobRunner.cancel?
  articles,  \* how many articles the site has about each post
  catalog,   \* the posts in the catalogue
  kinds,     \* one of Disturbances, chosen at the start
  spent      \* disturbances so far

gamesVars == <<arrived, memory, disk, skipped, on, listener, post, jobFile, task,
               asked, snapshot, canceller, articles, catalog, kinds, spent>>

GamePosts == 1..MaxPosts
GameJobs == 1..MaxJobs
NoJob == 0
Waiting == {"pending", "processing", "failed"}
Settled == {"exhausted", "done", "skipped"}
EndStages == {"done", "skipped", "failed", "cancelled", "ready"}

NoFile == [stage |-> "none", wp |-> FALSE]
NoItem == [status |-> "none", attempts |-> 0, job |-> NoJob]
NoTask == [job |-> NoJob, post |-> 0, at |-> "idle"]
Unscanned == [scanned |-> FALSE, cursor |-> 0, item |-> [p \in GamePosts |-> NoItem]]

States ==
  [scanned : BOOLEAN, cursor : 0..MaxPosts,
   item : [GamePosts -> [status : Waiting \cup Settled \cup {"none"},
                         attempts : 0..(RetryLimit + MaxDisturbances),
                         job : 0..MaxJobs]]]

GamesTypeOK ==
  /\ arrived \in 0..MaxPosts /\ skipped \subseteq GamePosts /\ on \in BOOLEAN
  /\ memory \in States /\ disk \in States
  /\ listener \in {"off", "dead", "resting", "scanning", "choosing", "watching",
                   "returned", "aborted"}
  /\ post \in 0..MaxPosts
  /\ jobFile \in [GameJobs -> [stage : EndStages \cup {"none", "active"}, wp : BOOLEAN]]
  /\ task \in [job : 0..MaxJobs, post : 0..MaxPosts,
               at : {"idle", "created", "pulling", "packing", "found", "missing",
                     "finalizing"}]
  /\ asked \in BOOLEAN /\ canceller \in BOOLEAN
  /\ snapshot \in [job : 0..MaxJobs, running : BOOLEAN]
  /\ articles \in [GamePosts -> Nat] /\ catalog \subseteq GamePosts
  /\ kinds \in Disturbances /\ spent \in 0..MaxDisturbances

GamesInit ==
  /\ arrived = 0 /\ memory = Unscanned /\ disk = Unscanned /\ skipped = {}
  /\ on \in BOOLEAN /\ listener = (IF on THEN "resting" ELSE "off") /\ post = 0
  /\ jobFile = [j \in GameJobs |-> NoFile] /\ task = NoTask /\ asked = FALSE
  /\ snapshot = [job |-> NoJob, running |-> FALSE] /\ canceller = FALSE
  /\ articles = [p \in GamePosts |-> 0] /\ catalog = {}
  /\ kinds \in Disturbances /\ spent = 0

-----------------------------------------------------------------------------
siteVars == <<articles, catalog>>
runnerVars == <<jobFile, task, asked, snapshot, canceller>>
LoopFree == listener # "choosing"
Serving == listener \notin {"off", "dead"}

Item(p) == memory.item[p]
With(p, it) == [memory EXCEPT !.item[p] = it]
Marked(p, s) == [Item(p) EXCEPT !.status = s]
(* Mutant: a failed post goes back to the queue. *)
FailedToQueue(it) == [it EXCEPT !.status = "pending"]
FailedOf(it) ==
  [it EXCEPT !.status = IF it.attempts >= RetryLimit THEN "exhausted" ELSE "failed"]

(* A post appears, or is now old enough to be taken (SETTLE_SECONDS). *)
Arrives ==
  /\ arrived < MaxPosts /\ arrived' = arrived + 1
  /\ LoopFree
  /\ UNCHANGED <<memory, disk, skipped, on, listener, post, runnerVars, siteVars, kinds, spent>>

-----------------------------------------------------------------------------
(* The listener.                                                           *)

(* _reconcile_processing for one item. *)
Running(j) == task.at # "idle" /\ snapshot.running /\ snapshot.job = j
(* Mutant: an item whose job is gone is left alone. *)
ReconciledIfEnded(p) ==
  LET it == Item(p)
      file == IF it.job = NoJob THEN NoFile ELSE jobFile[it.job]
  IN IF it.status # "processing" \/ (it.job # NoJob /\ Running(it.job)) THEN it
     ELSE IF file.wp \/ file.stage = "done" \/ p \in catalog
            THEN [it EXCEPT !.status = "done"]
     ELSE IF file.stage \in {"failed", "cancelled"} THEN FailedOf(it)
     ELSE it

ReconciledItem(p) ==
  LET it == Item(p)
      file == IF it.job = NoJob THEN NoFile ELSE jobFile[it.job]
  IN IF it.status # "processing" \/ (it.job # NoJob /\ Running(it.job)) THEN it
     ELSE IF file.wp \/ file.stage = "done" \/ p \in catalog
            THEN [it EXCEPT !.status = "done"]
     ELSE IF file.stage = "skipped" THEN [it EXCEPT !.status = "skipped"]
     ELSE IF file.stage \in {"failed", "cancelled"} THEN FailedOf(it)
     ELSE [it EXCEPT !.status = "pending"]

(* The items whose article exists are recorded (finalize_published_job). *)
Recorded ==
  {p \in GamePosts :
     /\ Item(p).status = "processing" /\ Item(p).job # NoJob
     /\ ~Running(Item(p).job) /\ jobFile[Item(p).job].wp}

PassBegins ==
  /\ listener = "resting" /\ listener' = "scanning"
  /\ memory' = [memory EXCEPT !.item = [p \in GamePosts |-> ReconciledItem(p)]]
  /\ catalog' = catalog \cup Recorded
  /\ jobFile' = [j \in GameJobs |-> IF \E p \in Recorded : Item(p).job = j
                                  THEN [jobFile[j] EXCEPT !.stage = "done"]
                                  ELSE jobFile[j]]
  /\ UNCHANGED <<arrived, disk, skipped, on, post, task, asked, snapshot,
                 canceller, articles, kinds, spent>>

(* _scan_channel: the history goes back to the cursor, but not further than
   its limit. *)
NewItem(p) ==
  [NoItem EXCEPT !.status = IF p \in catalog THEN "done" ELSE "pending"]
Selected ==
  IF memory.scanned
    THEN {p \in 1..arrived : p > memory.cursor /\ p + Window > arrived}
    ELSE {p \in 1..arrived : p + Backfill > arrived}
Scanned ==
  [scanned |-> TRUE,
   cursor |-> IF arrived > memory.cursor THEN arrived ELSE memory.cursor,
   item |-> [p \in GamePosts |->
               IF p \in Selected /\ Item(p).status = "none"
                 THEN NewItem(p) ELSE Item(p)]]

(* Mutant: the cursor is saved, the items at the end of the pass. *)
ScanSavesCursor ==
  /\ listener = "scanning" /\ listener' = "choosing"
  /\ memory' = Scanned
  /\ skipped' = IF memory.scanned THEN skipped ELSE (1..arrived) \ Selected
  /\ disk' = [disk EXCEPT !.scanned = TRUE, !.cursor = memory'.cursor]
  /\ UNCHANGED <<arrived, on, post, runnerVars, siteVars, kinds, spent>>

Scan ==
  /\ listener = "scanning" /\ listener' = "choosing"
  /\ \/ /\ memory' = Scanned
        /\ skipped' = IF memory.scanned THEN skipped ELSE (1..arrived) \ Selected
     \/ UNCHANGED <<memory, skipped>>          \* Telegram could not be read
  /\ disk' = memory'
  /\ UNCHANGED <<arrived, on, post, runnerVars, siteVars, kinds, spent>>

(* _next_item; whether a failed item is due is a matter of time. *)
(* Mutant: exhausted posts are tried again. *)
CandidateAnyway(p) == Item(p).status \in {"pending", "failed", "exhausted"}

Candidate(p) ==
  \/ Item(p).status = "pending"
  \/ Item(p).status = "failed" /\ Item(p).attempts < RetryLimit
First(p) == Candidate(p) /\ \A q \in 1..(p - 1) : Item(q).status # "pending"

(* _process_item: the article exists already ... *)
ChooseKnown(p) ==
  /\ listener = "choosing" /\ First(p) /\ p \in catalog
  /\ memory' = With(p, Marked(p, "done"))
  /\ UNCHANGED <<arrived, disk, skipped, on, listener, post, runnerVars, siteVars, kinds, spent>>

(* ... or the runner is busy and the pass ends ... *)
ChooseBusy(p) ==
  /\ listener = "choosing" /\ First(p) /\ p \notin catalog
  /\ task.at # "idle"
  /\ memory' = With(p, Marked(p, "pending")) /\ disk' = memory'
  /\ listener' = "resting"
  /\ UNCHANGED <<arrived, skipped, on, post, runnerVars, siteVars, kinds, spent>>

(* ... or a job is started and waited for (start_auto_publish).  A file that
   nobody refers to stands for the new one. *)
Referenced(j) ==
  \/ j \in {task.job, snapshot.job}
  \/ \E p \in GamePosts : j \in {memory.item[p].job, disk.item[p].job}
Tried(p) == [Item(p) EXCEPT !.status = "processing", !.attempts = @ + 1]
BeginsJob(j, p) ==
  /\ ~Referenced(j) /\ \A i \in 1..(j - 1) : Referenced(i)
  /\ jobFile' = [jobFile EXCEPT ![j] = [stage |-> "active", wp |-> FALSE]]
  /\ task' = [job |-> j, post |-> p, at |-> "created"]
  /\ asked' = FALSE /\ snapshot' = [job |-> j, running |-> TRUE]

ChooseNew(p) ==
  /\ listener = "choosing" /\ First(p) /\ p \notin catalog
  /\ task.at = "idle"
  /\ \E j \in GameJobs :
       /\ BeginsJob(j, p)
       /\ memory' = With(p, [Tried(p) EXCEPT !.job = j]) /\ disk' = memory'
  /\ listener' = "watching" /\ post' = p
  /\ UNCHANGED <<arrived, skipped, on, canceller, siteVars, kinds, spent>>

PassEnds ==
  /\ listener = "choosing" /\ listener' = "resting"
  /\ \A p \in GamePosts : Item(p).status # "pending"
  /\ disk' = memory
  /\ UNCHANGED <<arrived, memory, skipped, on, post, runnerVars, siteVars, kinds, spent>>

(* wait_for_job returns: the file of the job decides. *)
(* Mutant: what has not failed is done. *)
VerdictUnlessFailed(p) ==
  IF jobFile[Item(p).job].stage = "failed" THEN FailedOf(Item(p)) ELSE Marked(p, "done")

Verdict(p) ==
  LET file == jobFile[Item(p).job] IN
  IF file.stage = "skipped" THEN Marked(p, "skipped")
  ELSE IF file.stage = "done" \/ file.wp THEN Marked(p, "done")
  ELSE FailedOf(Item(p))
JobReturned ==
  LET j == Item(post).job IN
  /\ listener = "returned" /\ listener' = "choosing" /\ post' = 0
  /\ memory' = With(post, Verdict(post)) /\ disk' = memory'
  /\ IF jobFile[j].wp /\ jobFile[j].stage # "skipped"
       THEN /\ catalog' = catalog \cup {post}
            /\ jobFile' = [jobFile EXCEPT ![j].stage = "done"]
       ELSE UNCHANGED <<catalog, jobFile>>
  /\ UNCHANGED <<arrived, skipped, on, task, asked, snapshot, canceller, articles, kinds, spent>>

(* The job was cancelled: so is the wait for it, and the listener's task ends
   with the CancelledError (_process_item, _serve). *)
JobAborted ==
  /\ listener = "aborted" /\ listener' = "dead" /\ post' = 0
  /\ disk' = memory
  /\ UNCHANGED <<arrived, memory, skipped, on, runnerVars, siteVars, kinds, spent>>

-----------------------------------------------------------------------------
(* The runner.                                                             *)

Touch(f) ==
  /\ jobFile' = [jobFile EXCEPT ![task.job] = f]
  /\ snapshot' = [job |-> task.job, running |-> f.stage = "active"]
File == jobFile[task.job]
Active(wp) == [stage |-> "active", wp |-> wp]
Ended(s) == [File EXCEPT !.stage = s]

Wakes(how) == IF listener = "watching" /\ task.post = post THEN how ELSE listener
EndTask(s, how) ==
  /\ Touch(Ended(s)) /\ task' = NoTask /\ asked' = FALSE
  /\ listener' = Wakes(how)

RunnerStep ==
  /\ LoopFree /\ ~asked
  /\ UNCHANGED <<arrived, memory, disk, skipped, on, post, canceller, kinds, spent>>

Goes(at) == task' = [task EXCEPT !.at = at] /\ UNCHANGED <<asked, listener>>

Pulls ==
  /\ task.at = "created" /\ RunnerStep
  /\ Goes("pulling") /\ Touch(Active(FALSE))
  /\ UNCHANGED siteVars

(* pull_telegram_post: fails, is refused by the AI, or goes on; a manual job
   ends with it. *)
Pulled ==
  /\ task.at = "pulling" /\ RunnerStep
  /\ \/ EndTask("failed", "returned")
     \/ task.post = 0 /\ EndTask("ready", "returned")
     \/ task.post # 0 /\ EndTask("skipped", "returned")
     \/ task.post # 0 /\ Goes("packing") /\ Touch(Active(FALSE))
  /\ UNCHANGED siteVars

(* _publish up to create_post, which looks for the post's slug ... *)
(* Mutant: an article is always created. *)
LooksUpNothing ==
  /\ task.at = "packing" /\ RunnerStep
  /\ \/ EndTask("failed", "returned")
     \/ Goes("missing") /\ UNCHANGED <<jobFile, snapshot>>
  /\ UNCHANGED siteVars

LooksUp ==
  /\ task.at = "packing" /\ RunnerStep
  /\ \/ EndTask("failed", "returned")
     \/ articles[task.post] > 0 /\ Goes("found") /\ UNCHANGED <<jobFile, snapshot>>
     \/ /\ articles[task.post] = 0 \/ LookupFails
        /\ Goes("missing") /\ UNCHANGED <<jobFile, snapshot>>
  /\ UNCHANGED siteVars

(* ... and updates or creates the article; the answer may be lost. *)
Created == [articles EXCEPT ![task.post] = IF task.at = "missing" THEN @ + 1 ELSE @]
Publishes ==
  /\ task.at \in {"found", "missing"} /\ RunnerStep
  /\ \/ EndTask("failed", "returned") /\ articles' \in {articles, Created}
     \/ Goes("finalizing") /\ Touch(Active(TRUE)) /\ articles' = Created
  /\ UNCHANGED catalog

(* The deferred uploads end, then finalize_published_job. *)
Finalizes ==
  /\ task.at = "finalizing" /\ RunnerStep
  /\ \/ EndTask("failed", "returned") /\ UNCHANGED catalog
     \/ EndTask("done", "returned") /\ catalog' = catalog \cup {task.post}
  /\ UNCHANGED articles

(* The cancellation arrives; a task that has not begun runs no handler. *)
TaskCancelled ==
  /\ task.at # "idle" /\ asked /\ LoopFree
  /\ \/ task.at = "created" /\ task' = NoTask /\ asked' = FALSE
        /\ listener' = Wakes("aborted")
        /\ UNCHANGED <<jobFile, snapshot>>
     \/ task.at # "created" /\ EndTask("cancelled", "aborted")
  /\ \/ UNCHANGED articles
     \/ task.at \in {"found", "missing"} /\ articles' = Created
  /\ UNCHANGED <<arrived, memory, disk, skipped, on, post, canceller, catalog, kinds, spent>>

(* What cancel does once its task has ended, to the job it finds then. *)
CancelReturns ==
  /\ canceller /\ (task.at = "idle" \/ ~asked) /\ LoopFree
  /\ canceller' = FALSE
  /\ snapshot' = [snapshot EXCEPT !.running = FALSE]
  /\ jobFile' = IF jobFile[snapshot.job].stage \in {"done", "cancelled"} THEN jobFile
                ELSE [jobFile EXCEPT ![snapshot.job].stage = "cancelled"]
  /\ UNCHANGED <<arrived, memory, disk, skipped, on, listener, post, task, asked,
                 siteVars, kinds, spent>>

-----------------------------------------------------------------------------
(* From outside.                                                           *)

Disturb(kind) ==
  /\ kind \in kinds /\ spent < MaxDisturbances /\ spent' = spent + 1
  /\ UNCHANGED kinds

(* GamesJobRunner.cancel *)
Cancel ==
  /\ Disturb("cancel") /\ LoopFree
  /\ task.at # "idle" /\ ~canceller
  /\ asked' = TRUE /\ canceller' = TRUE
  /\ UNCHANGED <<arrived, memory, disk, skipped, on, listener, post, jobFile, task,
                 snapshot, siteVars>>

(* start_pull, the first half of a manual job *)
Pull ==
  /\ Disturb("pull") /\ LoopFree /\ task.at = "idle"
  /\ \E j \in GameJobs : BeginsJob(j, 0)
  /\ UNCHANGED <<arrived, memory, disk, skipped, on, listener, post, canceller, siteVars>>

(* stop: the listener is cancelled and its item saved; the job goes on. *)
Leaves == disk' = IF listener \in {"watching", "returned", "aborted"} THEN memory ELSE disk
Restarts(enabled) ==
  /\ memory' = disk' /\ on' = enabled /\ post' = 0
  /\ listener' = IF enabled THEN "resting" ELSE "off"

(* The settings are saved, then GamesAutomationService.reload *)
Reload ==
  /\ Disturb("reload") /\ LoopFree
  /\ Leaves /\ \E enabled \in BOOLEAN : Restarts(enabled)
  /\ UNCHANGED <<arrived, skipped, runnerVars, siteVars>>

(* retry_failed *)
RetryFailed ==
  /\ Disturb("retry") /\ LoopFree
  /\ \E p \in GamePosts : Item(p).status \in {"failed", "exhausted"}
  /\ memory' = [memory EXCEPT !.item = [p \in GamePosts |->
       IF Item(p).status \in {"failed", "exhausted"}
         THEN [Item(p) EXCEPT !.status = "pending", !.attempts = 0] ELSE Item(p)]]
  /\ disk' = memory'
  /\ UNCHANGED <<arrived, skipped, on, listener, post, runnerVars, siteVars>>

(* The process dies, perhaps while a job file is written (save_job is not
   atomic), or between the file that says an item is tried and the start of
   its job, or between the catalogue and the job file. *)
Dies == task' = NoTask /\ asked' = FALSE /\ canceller' = FALSE
        /\ snapshot' = [job |-> NoJob, running |-> FALSE]
Crash ==
  /\ Disturb("crash")
  /\ Dies
  /\ \/ UNCHANGED <<jobFile, disk>>
     \/ task.at # "idle" /\ jobFile' = [jobFile EXCEPT ![task.job] = NoFile]
        /\ UNCHANGED disk
     \/ /\ listener = "choosing"
        /\ \E p \in GamePosts :
             First(p) /\ p \notin catalog /\ disk' = With(p, Tried(p))
        /\ UNCHANGED jobFile
  /\ \/ UNCHANGED catalog
     \/ task.at = "finalizing" /\ catalog' = catalog \cup {task.post}
  /\ Restarts(on)
  /\ UNCHANGED <<arrived, skipped, articles>>

(* stop(cancel_job=True) at the shutdown *)
Shutdown ==
  /\ Disturb("shutdown") /\ LoopFree
  /\ Leaves /\ Dies /\ Restarts(on)
  /\ jobFile' = IF task.at = "idle" THEN jobFile
                ELSE [jobFile EXCEPT ![task.job] = [@ EXCEPT !.stage = "cancelled"]]
  /\ UNCHANGED <<arrived, skipped, siteVars>>

-----------------------------------------------------------------------------
Choose(p) == ChooseKnown(p) \/ ChooseBusy(p) \/ ChooseNew(p)
ListenerStep == PassBegins \/ Scan \/ PassEnds \/ JobReturned \/ JobAborted
TaskStep == Pulls \/ Pulled \/ LooksUp \/ Publishes \/ Finalizes \/ TaskCancelled
             \/ CancelReturns
Outside == Arrives \/ Cancel \/ Pull \/ Reload \/ RetryFailed \/ Crash \/ Shutdown

GamesNext ==
  \/ ListenerStep \/ TaskStep \/ Outside
  \/ \E p \in GamePosts : Choose(p)

(* The event loop serves the listener and the runner in turn, and the
   pause after a failure ends (at most an hour). *)
GamesFairness ==
  /\ WF_gamesVars(ListenerStep) /\ SF_gamesVars(TaskStep)
  /\ SF_gamesVars(\E p \in GamePosts : Choose(p))

GamesSpec == GamesInit /\ [][GamesNext]_gamesVars
FairGamesSpec == GamesSpec /\ GamesFairness

-----------------------------------------------------------------------------
(* Properties.                                                             *)

(* A post gets one article, whatever is lost between the site and the files
   (create_post looks for the slug first). *)
OneArticle == \A p \in GamePosts : articles[p] <= 1

(* An item is done, in memory and on disk, only when its article exists. *)
DoneIsPublished ==
  \A p \in GamePosts :
    "done" \in {memory.item[p].status, disk.item[p].status} => articles[p] > 0

(* The cursor never passes a post that has no item, neither in memory nor in
   the file another process will read (_scan_channel). *)
NoPostIsLost ==
  \A s \in {memory, disk} : \A p \in 1..s.cursor :
    s.item[p].status # "none" \/ p \in skipped

(* Nothing makes a post be tried more often than the limit, but for one more
   try after each disturbance. *)
TriesAreBounded ==
  \A p \in GamePosts : memory.item[p].attempts <= RetryLimit + spent

(* A listener that is on settles all the posts it knows, unless a cancelled
   job took it along. *)
PostSettles ==
  (\E p \in GamePosts : memory.item[p].status \in Waiting) ~>
    (\/ \A p \in GamePosts : memory.item[p].status \notin Waiting
     \/ ~on \/ listener = "dead")

(* ... which it should not: a listener that is on is not dead. *)
ListenerStays == on => Serving

(* A post is neither published twice nor lost nor taken for published nor tried
   for ever. *)
PostsAreKept ==
  GamesTypeOK /\ OneArticle /\ DoneIsPublished /\ NoPostIsLost /\ TriesAreBounded
=============================================================================
