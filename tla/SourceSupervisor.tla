--------------------------- MODULE SourceSupervisor ---------------------------
(***************************************************************************)
(* The supervisor of one polling manga source (backend/services/manga/     *)
(* runtime.py; E-Hentai and WNACG are twins): requests start, stop and     *)
(* reload a worker, a crashed worker is started again after a pause, and a *)
(* generation number tells a restart that it came too late.                *)
(*                                                                         *)
(* Requests are numbered in the order of their arrival and workers in the  *)
(* order of their creation; the restart after worker w is the process      *)
(* MaxRequests + w.  An action is the code between two awaits.             *)
(***************************************************************************)
EXTENDS Naturals, FiniteSets

CONSTANTS
  MaxRequests,    \* requests to the supervisor
  MaxWorkers,     \* workers ever created
  Circumstances   \* source: E-Hentai downloads a catalogue in its start;
                  \* overlap: do requests overlap?  crashes: may workers crash?

ASSUME SupervisorAssumption ==
  /\ MaxRequests \in Nat /\ MaxWorkers \in Nat
  /\ Circumstances \subseteq [source : {"ehentai", "wnacg"},
                              overlap : BOOLEAN, crashes : BOOLEAN]

VARIABLES
  facts,        \* one of Circumstances
  initialized,  \* initialize() has run since the start or the last reload
  saved,        \* the settings on disk: enabled, and the edition
  settings,     \* the settings in memory
  current,      \* ehentai_worker and ehentai_task: a worker, or 0
  generation,   \* _ehentai_generation
  stopping,     \* _ehentai_stopping
  worker,       \* worker: state, generation, edition, told to stop, cancelled
  call,         \* call: kind, next step, and what it has captured
  wanted        \* what the last request that took effect asked for (ghost)

supVars == <<facts, initialized, saved, settings, current, generation, stopping,
             worker, call, wanted>>

Workers == 1..MaxWorkers
Requests == 1..MaxRequests
RestartOf(w) == MaxRequests + w
Restarts == {RestartOf(w) : w \in Workers}
Calls == Requests \cup Restarts

Kinds == {"boot", "start", "pass", "disable", "reload"}
Waits == {"sleeping", "init", "catalogue", "closing", "joining"}
Live == {"created", "running", "crashing"}

NoCall == [kind |-> "none", at |-> "idle", kept |-> 0]
NoWorker == [state |-> "none", gen |-> 0, edition |-> 0,
             told |-> FALSE, cancelled |-> FALSE]

SupervisorTypeOK ==
  /\ facts \in Circumstances
  /\ initialized \in BOOLEAN /\ stopping \in BOOLEAN /\ wanted \in BOOLEAN
  /\ saved \in [enabled : BOOLEAN, edition : Nat]
  /\ settings \in [enabled : BOOLEAN, edition : Nat]
  /\ current \in Workers \cup {0} /\ generation \in Nat
  /\ worker \in [Workers -> [state : Live \cup {"none", "ended"}, gen : Nat,
                             edition : Nat, told : BOOLEAN, cancelled : BOOLEAN]]
  /\ call \in [Calls -> [kind : Kinds \cup {"restart", "none"},
                         at : Waits \cup {"idle", "done"}, kept : Nat]]

SupervisorInit ==
  /\ facts \in Circumstances
  /\ initialized = FALSE /\ stopping = FALSE /\ wanted = FALSE
  /\ \E on \in BOOLEAN : saved = [enabled |-> on, edition |-> 0]
  /\ settings = saved
  /\ current = 0 /\ generation = 0
  /\ worker = [w \in Workers |-> NoWorker]
  /\ call = [c \in Calls |-> NoCall]

-----------------------------------------------------------------------------
IsLive(w) == worker[w].state \in Live
Created == {w \in Workers : worker[w].state # "none"}
Spare == MaxWorkers - Cardinality(Created)
Busy(c) == call[c].at \in Waits
MayLaunch == {c \in Calls : Busy(c) /\ call[c].kind # "disable"}

Goto(c, at) == call' = [call EXCEPT ![c].at = at]
Ends(c) == Goto(c, "done")
Loaded == settings' = saved

(* start_ehentai creates the worker and its task. *)
Launch(c, edition) ==
  \E w \in Workers :
    /\ \A v \in Workers : v \in Created <=> v < w
    /\ worker' = [worker EXCEPT ![w] =
                    [state |-> "created", gen |-> generation + 1, edition |-> edition,
                     told |-> FALSE, cancelled |-> FALSE]]
    /\ current' = w /\ generation' = generation + 1
    /\ Ends(c)

(* start_ehentai once the database is open: it returns when a worker is
   there, switches the source on, and may wait for the catalogue with the
   settings it has read. *)
(* Mutants: a running worker is not looked for; the source is not switched
   on; the start works with the settings of the worker before. *)
StartWithAnother(c, k, s) ==
  /\ saved' = IF s.enabled THEN saved ELSE [saved EXCEPT !.enabled = TRUE]
  /\ settings' = IF s.enabled THEN s ELSE saved'
  /\ Launch(c, settings'.edition)

StartWithoutEnabling(c, k, s) ==
  /\ settings' = s /\ UNCHANGED saved
  /\ IF current # 0 THEN Ends(c) /\ UNCHANGED <<worker, current, generation>>
                    ELSE Launch(c, s.edition)

StartWith(c, k, s) ==
  IF current # 0
    THEN /\ Ends(c) /\ settings' = s
         /\ UNCHANGED <<saved, worker, current, generation>>
    ELSE /\ saved' = IF s.enabled THEN saved ELSE [saved EXCEPT !.enabled = TRUE]
         /\ settings' = IF s.enabled THEN s ELSE saved'
         /\ \/ /\ facts.source = "ehentai"
               /\ call' = [call EXCEPT ![c] =
                            [kind |-> k, at |-> "catalogue", kept |-> settings'.edition]]
               /\ UNCHANGED <<worker, current, generation>>
            \/ Launch(c, settings'.edition)

(* ... and before that. *)
Opens(c, k) ==
  /\ ~initialized
  /\ Loaded
  /\ call' = [call EXCEPT ![c] = [kind |-> k, at |-> "init", kept |-> 0]]
  /\ UNCHANGED <<saved, worker, current, generation>>

Starts(c, k, s) ==
  \/ initialized /\ StartWith(c, k, s)
  \/ Opens(c, k)

(* reload after stop_ehentai: the settings are read and the database opened
   again. *)
Reopens(c) ==
  /\ settings' = saved' /\ initialized' = FALSE
  /\ call' = [call EXCEPT ![c] = [kind |-> "reload", at |-> "init", kept |-> 0]]

-----------------------------------------------------------------------------
(* Requests.                                                               *)

Turn(r) ==
  /\ call[r] = NoCall /\ \A q \in Requests : q < r => call[q] # NoCall
  /\ facts.overlap \/ \A q \in Requests : ~Busy(q)

Room == Cardinality(MayLaunch) < Spare

(* start_if_enabled, start_ehentai, request_ehentai_pass *)
Boot(r) ==
  /\ r = 1 /\ Turn(r) /\ Room
  /\ Opens(r, "boot")
  /\ UNCHANGED <<facts, initialized, stopping, wanted>>

StartSource(r) ==
  /\ r > 1 /\ Turn(r) /\ Room
  /\ Starts(r, "start", settings)
  /\ wanted' = (wanted \/ initialized)
  /\ UNCHANGED <<facts, initialized, stopping>>

RequestPass(r) ==
  /\ r > 1 /\ Turn(r) /\ Room
  /\ settings.enabled /\ current = 0
  /\ Starts(r, "pass", settings)
  /\ wanted' = (wanted \/ initialized)
  /\ UNCHANGED <<facts, initialized, stopping>>

(* stop_ehentai takes the worker out and tells it to stop, if there is one. *)
TakesOut(r, k) ==
  /\ current # 0
  /\ stopping' = TRUE
  /\ worker' = [worker EXCEPT ![current].told = TRUE]
  /\ call' = [call EXCEPT ![r] = [kind |-> k, at |-> "closing", kept |-> current]]
FindsNone == current = 0 /\ stopping' = FALSE /\ UNCHANGED worker
(* Mutants: the generation goes back, or is left alone. *)
UnplugsBack == generation' = generation - 1 /\ current' = 0
UnplugsSameGeneration == generation' = generation /\ current' = 0
Unplugs == generation' = generation + 1 /\ current' = 0

(* stop_ehentai(persist_disabled=True) *)
Disable(r) ==
  /\ r > 1 /\ Turn(r)
  /\ wanted' = FALSE
  /\ saved' = [saved EXCEPT !.enabled = FALSE] /\ settings' = saved'
  /\ Unplugs
  /\ TakesOut(r, "disable") \/ (FindsNone /\ Ends(r))
  /\ UNCHANGED <<facts, initialized>>

(* The settings are saved, then reload. *)
Reload(r) ==
  /\ r > 1 /\ Turn(r) /\ Room
  /\ \E on \in BOOLEAN :
       saved' = [enabled |-> on, edition |-> r] /\ wanted' = on
  /\ Unplugs
  /\ \/ TakesOut(r, "reload") /\ UNCHANGED <<settings, initialized>>
     \/ FindsNone /\ Reopens(r)
  /\ UNCHANGED facts

-----------------------------------------------------------------------------
(* What calls do after a wait.                                             *)

(* initialize returns. *)
Opened(c) ==
  /\ call[c].at = "init"
  /\ initialized' = TRUE
  /\ \/ /\ call[c].kind \in {"boot", "reload"} /\ ~settings.enabled
        /\ Ends(c)
        /\ UNCHANGED <<saved, settings, worker, current, generation, wanted>>
     \/ /\ call[c].kind \in {"boot", "reload"} => settings.enabled
        /\ StartWith(c, call[c].kind, settings)
        /\ wanted' = (wanted \/ call[c].kind \in {"boot", "start", "pass"})
  /\ UNCHANGED <<facts, stopping>>

CatalogueRead(c) ==
  /\ call[c].at = "catalogue"
  /\ Launch(c, call[c].kept)
  /\ UNCHANGED <<facts, initialized, saved, settings, stopping, wanted>>

(* worker.stop() has returned: the task is cancelled and waited for. *)
Finishes(c) ==
  /\ stopping' = FALSE
  /\ UNCHANGED saved
  /\ \/ call[c].kind = "reload" /\ Reopens(c)
     \/ call[c].kind = "disable" /\ Ends(c) /\ UNCHANGED <<settings, initialized>>

WorkerStopped(c) ==
  /\ call[c].at = "closing"
  /\ \/ /\ IsLive(call[c].kept)
        /\ worker' = [worker EXCEPT ![call[c].kept].cancelled = TRUE]
        /\ Goto(c, "joining")
        /\ UNCHANGED <<initialized, saved, settings, stopping>>
     \/ ~IsLive(call[c].kept) /\ Finishes(c) /\ UNCHANGED worker
  /\ UNCHANGED <<facts, current, generation, wanted>>

TaskJoined(c) ==
  /\ call[c].at = "joining" /\ ~IsLive(call[c].kept)
  /\ Finishes(c)
  /\ UNCHANGED <<facts, current, generation, worker, wanted>>

-----------------------------------------------------------------------------
(* The worker and its task, _serve_ehentai.                                *)

Begins(w) ==
  /\ worker[w].state = "created" /\ ~worker[w].cancelled
  /\ worker' = [worker EXCEPT ![w].state = "running"]
  /\ UNCHANGED <<facts, initialized, saved, settings, current, generation,
                 stopping, call, wanted>>

(* An error leaves run_until_stopped, which first closes the worker. *)
Crashes(w) ==
  /\ facts.crashes /\ worker[w].state = "running" /\ ~worker[w].told
  /\ Cardinality(MayLaunch) < Spare
  /\ worker' = [worker EXCEPT ![w].state = "crashing"]
  /\ UNCHANGED <<facts, initialized, saved, settings, current, generation,
                 stopping, call, wanted>>

Forgets(w) == current' = IF current = w THEN 0 ELSE current

(* The task ends because it was told to or was cancelled.  Cancelled before
   its first step it does not even run its finally. *)
Stops(w) ==
  /\ \/ worker[w].state = "running" /\ (worker[w].told \/ worker[w].cancelled)
     \/ worker[w].state \in {"created", "crashing"} /\ worker[w].cancelled
  /\ worker' = [worker EXCEPT ![w].state = "ended"]
  /\ IF worker[w].state = "created" THEN UNCHANGED current ELSE Forgets(w)
  /\ UNCHANGED <<facts, initialized, saved, settings, generation, stopping,
                 call, wanted>>

(* The finally of a crashed task decides about a restart. *)
(* Mutant: a worker that failed on its own is not started again. *)
RestartableIfTold(w) == worker[w].gen = generation /\ worker[w].told

Restartable(w) ==
  worker[w].gen = generation /\ ~stopping /\ settings.enabled

TaskFails(w) ==
  /\ worker[w].state = "crashing" /\ ~worker[w].cancelled
  /\ worker' = [worker EXCEPT ![w].state = "ended"]
  /\ Forgets(w)
  /\ IF Restartable(w)
       THEN call' = [call EXCEPT ![RestartOf(w)] =
                       [kind |-> "restart", at |-> "sleeping", kept |-> worker[w].gen]]
       ELSE UNCHANGED call
  /\ UNCHANGED <<facts, initialized, saved, settings, generation, stopping, wanted>>

(* _restart_ehentai after its pause. *)
RestartAfterCrash(w) ==
  LET c == RestartOf(w) IN
  /\ call[c].at = "sleeping"
  /\ \/ /\ call[c].kept # generation \/ stopping
        /\ Ends(c) /\ UNCHANGED <<saved, settings, worker, current, generation>>
     \/ /\ call[c].kept = generation /\ ~stopping
        /\ \/ /\ ~saved.enabled \/ current # 0
              /\ Ends(c) /\ Loaded /\ UNCHANGED <<saved, worker, current, generation>>
           \/ saved.enabled /\ current = 0 /\ Starts(c, "restart", saved)
  /\ UNCHANGED <<facts, initialized, stopping, wanted>>

-----------------------------------------------------------------------------
Request(r) == Boot(r) \/ StartSource(r) \/ RequestPass(r) \/ Disable(r) \/ Reload(r)
Continues(c) == Opened(c) \/ CatalogueRead(c) \/ WorkerStopped(c) \/ TaskJoined(c)
Serves(w) == Begins(w) \/ Stops(w) \/ TaskFails(w) \/ RestartAfterCrash(w)

SupervisorNext ==
  \/ \E r \in Requests : Request(r)
  \/ \E c \in Calls : Continues(c)
  \/ \E w \in Workers : Serves(w) \/ Crashes(w)

SupervisorSpec == SupervisorInit /\ [][SupervisorNext]_supVars
SupervisorFairness ==
  /\ \A c \in Calls : WF_supVars(Continues(c))
  /\ \A w \in Workers : WF_supVars(Serves(w))
FairSupervisorSpec == SupervisorSpec /\ SupervisorFairness

-----------------------------------------------------------------------------
(* Properties.                                                             *)

(* A worker that nobody has told to stop is the one the supervisor knows:
   there is one at most, and a stop reaches it (start_ehentai). *)
NoStrayWorker ==
  \A w \in Workers : IsLive(w) /\ ~worker[w].told => w = current

(* When requests do not overlap: once the source is switched off, no worker
   goes on and no crash restart brings one back (_ehentai_generation). *)
OffMeansOff ==
  ~facts.overlap /\ ~wanted => \A w \in Workers : IsLive(w) => worker[w].told

(* ... and the worker that runs between requests has the settings on disk,
   also when a restart has read them; a source that is off is off on disk. *)
Quiet == ~facts.overlap /\ \A c \in Requests : ~Busy(c)
WorkerHasSettings ==
  /\ Quiet /\ current # 0 =>
       worker[current].edition = saved.edition /\ saved.enabled
  /\ Quiet /\ initialized => saved = settings /\ saved.enabled = wanted

(* ... and while the source is on, a worker comes back after a crash. *)
OnMeansServed ==
  (~facts.overlap /\ wanted) ~> ((\E w \in Workers : IsLive(w)) \/ ~wanted)

(* At any time one worker at most that nobody has told to stop, none while
   the source is off, and with the settings that were saved. *)
SwitchIsObeyed ==
  SupervisorTypeOK /\ NoStrayWorker /\ OffMeansOff /\ WorkerHasSettings
=============================================================================
