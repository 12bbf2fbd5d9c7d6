----------------------------- MODULE SignEngine -----------------------------
(***************************************************************************)
(* The sign engine (tg_signer/core/signer_runner.py, signer_actions.py,    *)
(* signer_matchers.py): the script of one chat, step by step, against a    *)
(* bot that answers when it likes.  The engine sees the chat through the   *)
(* updates its handlers got, in a cache it writes to itself, and through   *)
(* the newest messages of the history.  Whether the bot has reacted it     *)
(* tells by comparing both with what it saw before its own action.         *)
(*                                                                         *)
(* "send" is a text or a dice, "click" a button by its text, "reply" one   *)
(* of the actions that answer with the help of the AI by one message or    *)
(* one click.  Topics, several choices in one picture and the trimming of  *)
(* the cache at 200 messages are left out.                                 *)
(*                                                                         *)
(* Messages are those of the bot, numbered in the order of the chat.  An   *)
(* edit keeps the number of a message and gives it the next version.       *)
(***************************************************************************)
EXTENDS Naturals, Sequences

CONSTANTS
  Scripts,      \* sequences of "send", "click" and "reply"
  Histories,    \* what the bot had said before: sequences of texts
  Lookback,     \* SIGN_TASK_HISTORY_LOOKBACK: how much of the history is read
  MaxAttempts,  \* the retry count of the task
  MaxBotPosts,  \* messages the bot posts, unless it is helpful
  MaxBotEdits,  \* edits of its messages, unless it is helpful
  Conditions    \* under which the engine may work, see `terms`

Texts == {"menu", "question", "success"}

ASSUME EngineAssumption ==
  /\ Scripts \subseteq Seq({"send", "click", "reply"}) \ {<<>>}
  /\ Histories \subseteq Seq(Texts)
  /\ {Lookback, MaxAttempts} \subseteq Nat \ {0}
  /\ {MaxBotPosts, MaxBotEdits} \subseteq Nat
  /\ Conditions \subseteq
       [helpful : BOOLEAN, unreadable : BOOLEAN, deaf : BOOLEAN, backoff : Nat,
        faults : SUBSET {"raise", "unconfirmed"}]

VARIABLES
  script,   \* chat.actions
  terms,    \* helpful: no call fails, and the bot reacts to each step as the
            \* script expects; unreadable: the history cannot always be read;
            \* deaf: the handlers do not know the chat under its number;
            \* backoff: SIGN_TASK_RETRY_BACKOFF_STEPS; faults: how calls fail
  talk,     \* what the chat shows now
  feed,     \* updates under way to the handlers
  cache,    \* context.chat_messages[chat_id], in its order
  flow,     \* where sign_a_chat is, and what it knows
  effects,  \* how often Telegram confirmed each step
  answered, \* unconfirmed steps the bot had reacted to
  bot       \* what it has done: posts, edits, the step it prompted for, and
            \* whether it has reacted since the last snapshot, and has said
            \* that the sign succeeded

engineVars == <<script, terms, talk, feed, cache, flow, effects, answered, bot>>

Steps == DOMAIN script
NoMessage == [id |-> 0, ver |-> 0, text |-> "none"]

EngineInit ==
  /\ script \in Scripts /\ terms \in Conditions
  /\ \E h \in Histories :
       talk = [i \in DOMAIN h |-> [id |-> i, ver |-> 1, text |-> h[i]]]
  /\ feed = <<>> /\ cache = <<>>
  /\ flow = [pc |-> "preheat", step |-> 1, tries |-> 1, attempt |-> 1, done |-> 0,
             before |-> {}, last |-> NoMessage, rest |-> <<>>, target |-> NoMessage,
             cached |-> FALSE, confirmed |-> FALSE, callback |-> FALSE]
  /\ effects = [s \in Steps |-> 0] /\ answered = {}
  /\ bot = [posts |-> 0, edits |-> 0, prompted |-> 1, reacted |-> FALSE, told |-> FALSE]

At(pc) == flow.pc = pc
Doing(kind) == script[flow.step] = kind

-----------------------------------------------------------------------------
(* The bot, and the handlers of the engine.                                *)
Says(m, prompted) ==
  /\ talk' = IF m.id \in DOMAIN talk THEN [talk EXCEPT ![m.id] = m] ELSE Append(talk, m)
  /\ feed' = Append(feed, m)
  /\ bot' = [bot EXCEPT
               !.posts = IF m.ver = 1 THEN @ + 1 ELSE @,
               !.edits = IF m.ver = 1 THEN @ ELSE @ + 1,
               !.prompted = prompted, !.reacted = TRUE,
               !.told = @ \/ m.text = "success"]
  /\ UNCHANGED <<script, terms, cache, flow, effects, answered>>

New(text) == [id |-> Len(talk) + 1, ver |-> 1, text |-> text]
Edited(id, text) == [id |-> id, ver |-> talk[id].ver + 1, text |-> text]

BotTalks ==
  /\ ~terms.helpful
  /\ \E t \in Texts :
       \/ bot.posts < MaxBotPosts /\ Says(New(t), bot.prompted)
       \/ bot.edits < MaxBotEdits /\ \E i \in DOMAIN talk : Says(Edited(i, t), bot.prompted)

(* The helpful bot: when a step is confirmed it gives what the next one    *)
(* needs, in a new message or in place of its last one.                    *)
Prompt == [click |-> "menu", reply |-> "question"]
OwesPrompt(s) ==
  /\ s > bot.prompted /\ effects[s - 1] > 0 /\ script[s] # "send"
  /\ \A later \in Steps : later >= s => effects[later] = 0
Owes == \E s \in Steps \ {1} : OwesPrompt(s)

BotHelps ==
  /\ terms.helpful
  /\ \E s \in Steps \ {1} :
       /\ OwesPrompt(s)
       /\ \/ Says(New(Prompt[script[s]]), s)
          \/ talk # <<>> /\ Says(Edited(Len(talk), Prompt[script[s]]), s)

(* _on_message: the update of a message goes to the end of the cache, an   *)
(* edit to the place the message has.                                      *)
Places(id) == {i \in DOMAIN cache : cache[i].id = id}
With(m, id) ==
  [i \in DOMAIN cache |-> IF i \in Places(id) THEN m ELSE cache[i]]

HandlerGets ==
  /\ feed # <<>> /\ feed' = Tail(feed)
  /\ cache' = IF terms.deaf THEN cache
              ELSE IF Places(Head(feed).id) = {} THEN Append(cache, Head(feed))
              ELSE With(Head(feed), Head(feed).id)
  /\ bot' = [bot EXCEPT !.reacted = TRUE]
  /\ UNCHANGED <<script, terms, talk, flow, effects, answered>>

-----------------------------------------------------------------------------
(* What the engine sees.  A handled message is None in the cache.          *)
None(id) == [id |-> id, ver |-> 0, text |-> "none"]
Cached == {cache[i] : i \in {j \in DOMAIN cache : cache[j].text # "none"}}
Recent == {talk[i] : i \in {j \in DOMAIN talk : j + Lookback > Len(talk)}}

(* _chat_state_snapshot: the cache, and over it the history.               *)
Over(history) ==
  history \cup {m \in Cached : \A h \in history : h.id # m.id}
Snapshots == {Over(Recent)} \cup (IF terms.unreadable THEN {Cached} ELSE {})

(* A message with one of the texts whose state is not the one before.      *)
Changed(texts) ==
  \E now \in Snapshots : \E m \in Cached \cup Recent :
    /\ m.text \in texts
    /\ \E c \in now : c.id = m.id /\ c \notin flow.before

(* Mutant: any success text in the chat counts. *)
AnnouncedAtAll == \E m \in Cached \cup Recent : m.text = "success"

(* _wait_for_terminal_success finds the text it waits for.                 *)
Announced == Changed({"success"})

(* _message_supports_next_action                                           *)
Supports == [send |-> {}, click |-> {"menu"}, reply |-> Texts]

TakesSnapshot(changed) ==
  /\ \E seen \in Snapshots : flow' = [changed EXCEPT !.before = seen]
  /\ bot' = [bot EXCEPT !.reacted = FALSE]

-----------------------------------------------------------------------------
(* sign_a_chat: attempts and steps.                                        *)
Budge(f) == flow' = f /\ UNCHANGED <<script, terms, talk, feed, effects, bot>>

(* Mutant: every attempt begins with the first step. *)
FirstStepAlways == 1

FirstStep ==
  IF flow.done + 1 > terms.backoff THEN flow.done + 1 - terms.backoff ELSE 1

BeginsAttempt(attempt, first) ==
  /\ cache' = IF first = 1 THEN <<>> ELSE cache
  /\ Budge([flow EXCEPT !.pc = "step", !.attempt = attempt, !.step = first, !.tries = 1,
                        !.last = NoMessage])
  /\ UNCHANGED answered

Preheats == At("preheat") /\ BeginsAttempt(1, 1)
PreheatFails ==
  /\ At("preheat") /\ "raise" \in terms.faults
  /\ Budge([flow EXCEPT !.pc = "failed"])
  /\ UNCHANGED <<cache, answered>>
Retries == At("pause") /\ BeginsAttempt(flow.attempt + 1, FirstStep)

(* The outcomes of a step.  The attempt fails, or the step is tried once   *)
(* more after a transient error.                                           *)
AttemptFails == [flow EXCEPT !.pc = IF flow.attempt < MaxAttempts THEN "pause" ELSE "failed"]
Fails == Budge(AttemptFails) /\ UNCHANGED <<cache, answered>>
Raises ==
  /\ \/ Budge(AttemptFails)
     \/ flow.tries = 1 /\ Budge([flow EXCEPT !.pc = "step", !.tries = 2, !.last = NoMessage])
  /\ UNCHANGED <<cache, answered>>

StepDone ==
  Budge(IF flow.step = Len(script)
          THEN [flow EXCEPT !.pc = "completed", !.done = flow.step]
          ELSE [flow EXCEPT !.pc = "step", !.done = flow.step, !.step = @ + 1,
                            !.tries = 1, !.last = NoMessage])
Stops == Budge([flow EXCEPT !.pc = "stopped", !.done = flow.step])

(* A message that was dealt with becomes None, if it came from the cache.  *)
Marks(really) ==
  cache' = IF really /\ flow.cached THEN With(None(flow.target.id), flow.target.id) ELSE cache

Confirms == effects' = [effects EXCEPT ![flow.step] = @ + 1]
MayRaise == "raise" \in terms.faults

-----------------------------------------------------------------------------
(* Sending a text or a dice, then a short wait for the bot to say that     *)
(* there is nothing left to do (_maybe_stop_after_send).                   *)
SendLooks ==
  /\ At("step") /\ Doing("send")
  /\ TakesSnapshot([flow EXCEPT !.pc = "sending"])
  /\ UNCHANGED <<script, terms, talk, feed, cache, effects, answered>>

Sends ==
  /\ At("sending")
  /\ flow' = [flow EXCEPT !.pc = "sent"]
  /\ Confirms
  /\ UNCHANGED <<script, terms, talk, feed, cache, answered, bot>>

SendRaises == At("sending") /\ MayRaise /\ Raises
SendIsEnough == At("sent") /\ Announced /\ Stops /\ UNCHANGED <<cache, answered>>
SendIsDone == At("sent") /\ StepDone /\ UNCHANGED <<cache, answered>>

-----------------------------------------------------------------------------
(* Clicking a button: the newest message of the cache that has it, and     *)
(* without one the newest of the history.                                  *)
IsMenu(m) == m.text = "menu"
Newest(ms) == CHOOSE m \in ms : \A other \in ms : other.id <= m.id
LastMenuAt == {i \in DOMAIN cache : IsMenu(cache[i])}

Finds(m, cached) ==
  /\ TakesSnapshot([flow EXCEPT !.pc = "clicking", !.target = m, !.cached = cached])
  /\ UNCHANGED <<script, terms, talk, feed, cache, effects, answered>>

FindsCached ==
  /\ At("step") /\ Doing("click")
  /\ \E i \in LastMenuAt : (\A j \in LastMenuAt : j <= i) /\ Finds(cache[i], TRUE)

(* Mutant: the history is not looked at. *)
FindsNothingInHistory ==
  /\ At("step") /\ Doing("click") /\ LastMenuAt = {} /\ terms.unreadable
  /\ \E m \in Recent : IsMenu(m) /\ Finds(Newest({n \in Recent : IsMenu(n)}), FALSE)

FindsInHistory ==
  /\ At("step") /\ Doing("click") /\ LastMenuAt = {}
  /\ \E m \in Recent : IsMenu(m) /\ Finds(Newest({n \in Recent : IsMenu(n)}), FALSE)

(* The helpful bot answers before the engine loses patience.               *)
Patient == terms.helpful => ~Owes /\ feed = <<>>

FindsNone ==
  /\ At("step") /\ Doing("click")
  /\ Patient /\ (terms.helpful => {m \in Cached \cup Recent : IsMenu(m)} = {})
  /\ Fails

ClickConfirmed ==
  /\ At("clicking")
  /\ \E said \in (IF terms.helpful THEN {FALSE} ELSE BOOLEAN) :
       /\ flow' = [flow EXCEPT !.pc = "following", !.confirmed = TRUE, !.callback = said]
       /\ bot' = [bot EXCEPT !.told = @ \/ said]
  /\ Confirms
  /\ UNCHANGED <<script, terms, talk, feed, cache, answered>>

ClickUnconfirmed ==
  /\ At("clicking") /\ "unconfirmed" \in terms.faults
  /\ Budge([flow EXCEPT !.pc = "following", !.confirmed = FALSE, !.callback = FALSE])
  /\ UNCHANGED <<cache, answered>>

(* Pressing a key of a reply keyboard is a message, and may raise; in the  *)
(* scan of the history that is caught.                                     *)
ClickRaises ==
  /\ At("clicking") /\ MayRaise
  /\ IF flow.cached THEN Raises
     ELSE Budge([flow EXCEPT !.pc = "step"]) /\ UNCHANGED <<cache, answered>>

(* _handle_post_click_followup; a confirmed last click needs no followup,  *)
(* an unconfirmed one waits for the success.                               *)
Final == flow.step = Len(script)
Settles == Marks(flow.confirmed)
Credits ==
  answered' = IF ~flow.confirmed /\ bot.reacted THEN answered \cup {flow.step} ELSE answered

FollowSucceeds ==
  /\ At("following") /\ ~Final
  /\ flow.callback \/ Announced
  /\ Stops /\ Settles /\ Credits

FollowGoesOn ==
  /\ At("following") /\ ~Final /\ ~flow.callback
  /\ Changed(Supports[script[flow.step + 1]])
  /\ StepDone /\ Settles /\ Credits

FollowEnds ==
  /\ At("following") /\ ~Final /\ ~flow.callback
  /\ IF flow.confirmed THEN StepDone /\ Settles /\ UNCHANGED answered ELSE Fails

LastClickEnds ==
  /\ At("following") /\ Final
  /\ \/ (flow.confirmed \/ Announced) /\ StepDone /\ Settles /\ Credits
     \/ ~flow.confirmed /\ Fails

-----------------------------------------------------------------------------
(* Replying, with an answer of the AI: the messages of the cache are tried *)
(* in their order each time its last one is a new one.                     *)
Shown(m) == IF m.text = "none" THEN NoMessage ELSE m
IsTarget(m) == m.text \in {"menu", "question"}
Noticeable == cache # <<>> /\ Shown(cache[Len(cache)]) # flow.last

Notices ==
  /\ At("step") /\ Doing("reply") /\ Noticeable
  /\ LET targets == SelectSeq(cache, IsTarget)
         f == [flow EXCEPT !.last = Shown(cache[Len(cache)])]
     IN  Budge(IF targets = <<>> THEN f
               ELSE [f EXCEPT !.pc = "reading", !.rest = targets, !.cached = TRUE])
  /\ UNCHANGED <<cache, answered>>

Answers ==
  /\ At("reading")
  /\ flow' = [flow EXCEPT !.pc = "replied", !.target = Head(flow.rest)]
  /\ Confirms
  /\ UNCHANGED <<script, terms, talk, feed, cache, answered, bot>>

Replied == At("replied") /\ StepDone /\ Marks(TRUE) /\ UNCHANGED answered

(* The message is not of the right kind, or the AI has no answer.          *)
AnswersNot ==
  /\ At("reading") /\ (terms.helpful => Head(flow.rest).text # "question")
  /\ IF Len(flow.rest) > 1
       THEN Budge([flow EXCEPT !.rest = Tail(@)]) /\ UNCHANGED <<cache, answered>>
       ELSE IF flow.cached
              THEN Budge([flow EXCEPT !.pc = "step"]) /\ UNCHANGED <<cache, answered>>
              ELSE Fails

AnswerRaises == At("reading") /\ MayRaise /\ IF flow.cached THEN Raises ELSE Fails

(* Mutant: the step fails without a look at the history. *)
GivesUp ==
  /\ At("step") /\ Doing("reply")
  /\ Patient /\ (terms.helpful => ~Noticeable)
  /\ Fails

(* In the end the newest messages of the history are tried.                *)
Reversed(ms) == [i \in DOMAIN ms |-> ms[Len(ms) + 1 - i]]
LooksBack ==
  /\ At("step") /\ Doing("reply")
  /\ Patient /\ (terms.helpful => ~Noticeable)
  /\ LET IsRecent(m) == m \in Recent /\ IsTarget(m)
         targets == Reversed(SelectSeq(talk, IsRecent))
     IN  \/ /\ targets # <<>>
            /\ Budge([flow EXCEPT !.pc = "reading", !.rest = targets, !.cached = FALSE])
            /\ UNCHANGED <<cache, answered>>
         \/ (targets = <<>> \/ terms.unreadable) /\ Fails

-----------------------------------------------------------------------------
EngineStep ==
  \/ Preheats \/ PreheatFails \/ Retries
  \/ SendLooks \/ Sends \/ SendRaises \/ SendIsEnough \/ SendIsDone
  \/ FindsCached \/ FindsInHistory \/ FindsNone
  \/ ClickConfirmed \/ ClickUnconfirmed \/ ClickRaises
  \/ FollowSucceeds \/ FollowGoesOn \/ FollowEnds \/ LastClickEnds
  \/ Notices \/ Answers \/ Replied \/ AnswersNot \/ AnswerRaises \/ LooksBack

EngineNext == EngineStep \/ BotTalks \/ BotHelps \/ HandlerGets

(* The coroutine goes on, updates arrive, and the helpful bot reacts.      *)
EngineFairness ==
  WF_engineVars(EngineStep) /\ WF_engineVars(HandlerGets) /\ WF_engineVars(BotHelps)

EngineSpec == EngineInit /\ [][EngineNext]_engineVars
EngineFairSpec == EngineSpec /\ EngineFairness
-----------------------------------------------------------------------------
EngineTypeOK ==
  /\ flow.step \in Steps /\ flow.done \in 0..Len(script)
  /\ flow.attempt \in 1..MaxAttempts /\ flow.tries \in 1..2
  /\ \A i \in DOMAIN talk : talk[i].id = i
  /\ \A i, j \in DOMAIN cache : cache[i].id = cache[j].id => i = j

(* A flow stops early only if the bot has said since the flow began that   *)
(* the sign succeeded: the success of yesterday is not taken for today's.  *)
StopIsEarned == At("stopped") /\ ~terms.unreadable => bot.told

(* A step that Telegram confirmed is not done again by a retry.            *)
DoneOnce == terms.backoff = 0 => \A s \in Steps : effects[s] <= 1

(* A flow that completes has done every step: Telegram confirmed it, or    *)
(* the bot reacted to it.                                                  *)
NothingSkipped ==
  At("completed") /\ ~terms.unreadable =>
    \A s \in Steps : effects[s] > 0 \/ s \in answered

ScriptIsFollowed == EngineTypeOK /\ StopIsEarned /\ DoneOnce /\ NothingSkipped

(* With a bot that reacts as expected, and calls that do not fail, the     *)
(* script runs to its end, however late updates arrive, whether the bot    *)
(* posts or edits, and even if the handlers do not know the chat.          *)
HelpfulBotSucceeds == terms.helpful ~> At("completed")
=============================================================================
