----------------------------- MODULE MangaDelivery -----------------------------
(***************************************************************************)
(* One discussion thread of a manga source on its way from Telegram to the *)
(* reader: pages gather in a bucket (manga/assembler.py), a delivery       *)
(* stores them in the database, pushes the chapter to the site and, when   *)
(* the thread is closed, posts it in the channel (_on_chapter_ready in     *)
(* manga/telegram_worker.py, with manga/publisher.py).                     *)
(*                                                                         *)
(* Nothing keeps two deliveries of a thread apart but a lock around the    *)
(* channel and the unique keys of the database.  An action is what one     *)
(* delivery does between two awaits.  Pages are numbered as they come; the *)
(* page numbers in Videos are videos.                                      *)
(***************************************************************************)
EXTENDS Naturals, Sequences, FiniteSets, Subsequences

CONSTANTS
  MaxPages,     \* pages of the thread
  Videos,       \* those that are videos
  BatchSize,    \* flush_every, 10 in the code
  MaxAttempts,  \* OUTBOUND_MAX_ATTEMPTS, 6 in the code
  Conditions    \* how many pages come; how many deliveries at once; how many
                \* mishaps (failures, lost answers, restarts, edited messages);
                \* are messages edited?

ASSUME MangaAssumption ==
  /\ MaxPages \in Nat /\ Videos \subseteq 1..MaxPages /\ BatchSize \in Nat \ {0}
  /\ MaxAttempts \in Nat \ {0}
  /\ Conditions \subseteq [pages : 1..MaxPages, atOnce : Nat, mishaps : Nat, edits : BOOLEAN]

VARIABLES
  circumstances,  \* one of Conditions, chosen at the start
  sent,      \* the pages 1..sent have been posted in the thread
  bucket,    \* the thread's bucket: is it there, and its pages
  chapter,   \* the rows of the chapter in the database
  site,      \* the images the site shows
  channel,   \* how often the channel got the album (0) and each video
  delivery,  \* what each deliverer is doing
  history,   \* is the history still to be read since the start, if it is at all?
  mishaps

mangaVars == <<circumstances, sent, bucket, chapter, site, channel, delivery, history, mishaps>>

MangaPages == 1..MaxPages
Album == 0
Deliverers == {"watchdog", "handler", "sweep", "backfill"}

NoBucket == [open |-> FALSE, pages |-> <<>>]
NoChapter == [exists |-> FALSE, pages |-> <<>>, siteCount |-> 0, sent |-> {},
              attempts |-> 0]
(* pages left to store, is_final, publish_to_site's last round, the chapter as
   read, site_urls and video_urls, published.site_published_page_count, what
   is still to be posted, and what will then be marked as sent *)
Idle == [at |-> "idle", pages |-> <<>>, final |-> FALSE, last |-> FALSE,
         batch |-> <<>>, read |-> NoChapter, published |-> FALSE, ok |-> FALSE,
         images |-> <<>>, videos |-> {}, count |-> 0, known |-> {}, todo |-> {},
         plan |-> {}]

PageSeqs == Seq(MangaPages)
Images(pages) == Keeping(pages, MangaPages \ Videos)
VideosIn(pages) == Elements(pages) \cap Videos
Steps == {"idle", "taken", "storing", "listing", "posting", "marking", "stored",
          "deferring", "locking", "sending", "failing"}

MangaTypeOK ==
  /\ sent \in 0..MaxPages /\ mishaps \in 0..circumstances.mishaps
  /\ circumstances \in Conditions /\ history \in BOOLEAN
  /\ bucket.open \in BOOLEAN /\ bucket.pages \in PageSeqs
  /\ ~bucket.open => bucket.pages = <<>>
  /\ chapter.pages \in PageSeqs /\ chapter.siteCount \in 0..Len(Images(chapter.pages))
  /\ chapter.sent \subseteq Videos \cup {Album} /\ chapter.attempts \in 0..MaxAttempts
  /\ site \in PageSeqs /\ channel \in [Videos \cup {Album} -> Nat]
  /\ \A d \in Deliverers : delivery[d].at \in Steps /\ delivery[d].pages \in PageSeqs

MangaInit ==
  /\ circumstances \in Conditions
  /\ history \in BOOLEAN /\ sent \in (IF history THEN {0, 1} ELSE {0})
  /\ bucket = NoBucket /\ chapter = NoChapter
  /\ site = <<>> /\ channel = [i \in Videos \cup {Album} |-> 0]
  /\ delivery = [d \in Deliverers |-> Idle] /\ mishaps = 0

-----------------------------------------------------------------------------
D(d) == delivery[d]
Busy(d) == D(d).at # "idle"
Becomes(d, r) == delivery' = [delivery EXCEPT ![d] = r]
Ends(d) == Becomes(d, Idle)
Mishap == mishaps < circumstances.mishaps /\ mishaps' = mishaps + 1
NoMishap == UNCHANGED mishaps
Starts(d) ==
  /\ ~Busy(d)
  /\ Cardinality({e \in Deliverers : Busy(e)}) < circumstances.atOnce

-----------------------------------------------------------------------------
(* The assembler.                                                          *)

AddPage ==
  /\ sent < circumstances.pages /\ sent' = sent + 1
  /\ bucket' = [open |-> TRUE, pages |-> Append(bucket.pages, sent + 1)]
  /\ UNCHANGED <<circumstances, chapter, site, channel, delivery, history, mishaps>>

(* An edited message is taken for a page (EditedMessageHandler). *)
EditPage ==
  /\ circumstances.edits /\ sent > 0 /\ Mishap
  /\ \E p \in 1..sent : bucket' = [open |-> TRUE, pages |-> Append(bucket.pages, p)]
  /\ UNCHANGED <<circumstances, sent, chapter, site, channel, delivery, history>>

InOrder(s) ==
  LET upto[p \in 0..MaxPages] == IF p = 0 THEN <<>> ELSE upto[p - 1] \o Keeping(s, {p})
  IN upto[MaxPages]
Takes(d, final) ==
  /\ Becomes(d, [Idle EXCEPT !.at = "taken", !.pages = InOrder(bucket.pages), !.final = final])
  /\ UNCHANGED <<circumstances, sent, chapter, site, channel, history, mishaps>>

(* _checkpoint: the thread has been quiet for a while, or the bucket is full. *)
Checkpoint(d) ==
  /\ d \in {"watchdog", "handler"} /\ Starts(d) /\ bucket.pages # <<>>
  /\ bucket' = [bucket EXCEPT !.pages = <<>>]
  /\ Takes(d, FALSE)

(* _flush: the thread is closed, or a page of another thread has come.  An
   empty bucket sends its chapter on its way too. *)
(* Mutant: the pages stay in the closed bucket. *)
FlushKeepsPages(d) ==
  /\ d \in {"watchdog", "handler"} /\ Starts(d) /\ bucket.open
  /\ bucket' = [bucket EXCEPT !.open = FALSE]
  /\ Takes(d, TRUE)

Flush(d) ==
  /\ d \in {"watchdog", "handler"} /\ Starts(d) /\ bucket.open
  /\ bucket' = NoBucket
  /\ Takes(d, TRUE)

(* _flush_stale_outbound: a chapter that is due and whose bucket is gone. *)
Undelivered ==
  /\ chapter.exists /\ chapter.attempts < MaxAttempts
  /\ \/ (VideosIn(chapter.pages) \cup {Album}) \ chapter.sent # {}
     \/ chapter.siteCount < Len(Images(chapter.pages))
(* Mutant: a chapter that has failed is not tried again. *)
DueOnce == Undelivered /\ chapter.attempts = 0
Due == Undelivered
Sweep ==
  /\ Starts("sweep") /\ Due /\ ~bucket.open
  /\ Becomes("sweep", [Idle EXCEPT !.at = "taken", !.final = TRUE])
  /\ UNCHANGED <<circumstances, sent, bucket, chapter, site, channel, history, mishaps>>

(* _backfill_chat, once after the start: the thread so far, without the pages
   the database knows, as a closed chapter. *)
BackfillChat ==
  /\ history /\ history' = FALSE /\ Starts("backfill")
  /\ LET new == Keeping([p \in 1..sent |-> p], MangaPages \ Elements(chapter.pages))
     IN IF new = <<>> THEN UNCHANGED delivery
        ELSE Becomes("backfill", [Idle EXCEPT !.at = "taken", !.pages = new, !.final = TRUE])
  /\ UNCHANGED <<circumstances, sent, bucket, chapter, site, channel, mishaps>>

-----------------------------------------------------------------------------
(* _on_chapter_ready: the database.                                        *)

NextAt(r) == IF r.pages # <<>> THEN "taken" ELSE "stored"
Upto(n, s) == SubSeq(s, 1, n)
After(n, s) == SubSeq(s, n + 1, Len(s))
NextBatch(s) == IF Len(s) < BatchSize THEN Len(s) ELSE BatchSize

(* The next pages are uploaded and the chapter is read; the first failed
   upload ends the loop, and the files of the pages after it are deleted. *)
Uploads(d) ==
  LET r == D(d)
      stores(n, rest) == [r EXCEPT !.at = "storing", !.batch = Upto(n, r.pages),
                                   !.pages = rest, !.read = [chapter EXCEPT !.attempts = 0]]
      n == NextBatch(r.pages)
  IN
  /\ r.at = "taken" /\ r.pages # <<>>
  /\ \/ NoMishap /\ Becomes(d, stores(n, After(n, r.pages)))
     \/ Mishap /\ \E k \in 1..(n - 1) : Becomes(d, stores(k, <<>>))
     \/ Mishap /\ Becomes(d, [r EXCEPT !.at = "stored", !.pages = <<>>])
  /\ UNCHANGED <<circumstances, sent, bucket, chapter, site, channel, history>>

(* publish_chapter and _append_chapter_pages: the rows are added behind those
   that were read; a unique key refuses them if there are others by now, and
   the delivery ends with the error. *)
(* Mutant: as many pages are passed over as there are. *)
UnseenByCount(r) == After(Len(r.read.pages), r.batch)
Unseen(r) ==
  IF ~r.read.exists THEN r.batch
  ELSE LET isNew(i) == /\ r.batch[i] \notin Elements(r.read.pages)
                       /\ \A j \in 1..(i - 1) : r.batch[j] # r.batch[i]
           new == Keeping([i \in DOMAIN r.batch |-> i], {i \in DOMAIN r.batch : isNew(i)})
       IN [k \in DOMAIN new |-> r.batch[new[k]]]
(* Mutant: there is no unique key. *)
NeverRefused(r) == FALSE
Refused(r) == chapter.exists # r.read.exists \/ Len(chapter.pages) # Len(r.read.pages)
VideoOnly(r) == ~r.read.exists /\ Images(r.batch) = <<>>

Stores(d) ==
  LET r == D(d)
      next == [r EXCEPT !.batch = <<>>, !.read = NoChapter]
  IN
  /\ r.at = "storing"
  /\ IF Unseen(r) = <<>> \/ VideoOnly(r)
       THEN /\ Becomes(d, [next EXCEPT !.published = FALSE, !.at = NextAt(r)])
            /\ UNCHANGED chapter
     ELSE IF Refused(r)
       THEN Ends(d) /\ UNCHANGED chapter
     ELSE /\ chapter' = [chapter EXCEPT !.exists = TRUE, !.attempts = 0,
                                        !.pages = @ \o Unseen(r)]
          /\ Becomes(d, [next EXCEPT !.published = TRUE, !.at = "listing",
                                     !.count = r.read.siteCount, !.known = r.read.sent])
  /\ UNCHANGED <<circumstances, sent, bucket, site, channel, history, mishaps>>

(* An empty delivery begins with what is stored. *)
LoadsStored(d) ==
  LET r == D(d) IN
  /\ r.at = "taken" /\ r.pages = <<>>
  /\ IF chapter.exists
       THEN Becomes(d, [r EXCEPT !.at = "stored", !.published = TRUE,
                                 !.count = chapter.siteCount, !.known = chapter.sent,
                                 !.images = Images(chapter.pages),
                                 !.videos = VideosIn(chapter.pages)])
       ELSE Ends(d)
  /\ UNCHANGED <<circumstances, sent, bucket, chapter, site, channel, history, mishaps>>

-----------------------------------------------------------------------------
(* publish_to_site                                                         *)

(* All images of the chapter are listed, and sent unless the site is known to
   have as many. *)
Asks(r) == [r EXCEPT !.at = IF r.count >= Len(r.images) THEN "marking" ELSE "posting",
                     !.ok = r.count >= Len(r.images)]
Lists(d) ==
  /\ D(d).at = "listing"
  /\ Becomes(d, Asks([D(d) EXCEPT !.images = Images(chapter.pages),
                                  !.videos = VideosIn(chapter.pages)]))
  /\ UNCHANGED <<circumstances, sent, bucket, chapter, site, channel, history, mishaps>>

(* The request reaches the site, or its answer is lost, or it fails. *)
Posts(d) ==
  LET r == D(d) IN
  /\ r.at = "posting"
  /\ \/ NoMishap /\ site' = r.images /\ Becomes(d, [r EXCEPT !.at = "marking", !.ok = TRUE])
     \/ Mishap /\ site' \in {site, r.images}
        /\ Becomes(d, [r EXCEPT !.at = "marking", !.ok = FALSE])
  /\ UNCHANGED <<circumstances, sent, bucket, chapter, channel, history>>

(* mark_site_publish_succeeded *)
AtLeast(a, b) == IF a < b THEN b ELSE a
(* Mutant: what was sent counts, whatever the answer. *)
MarksAnyway(d) ==
  LET r == D(d) IN
  /\ r.at = "marking"
  /\ chapter' = [chapter EXCEPT !.siteCount =
                   IF r.published THEN AtLeast(@, Len(r.images)) ELSE @]
  /\ Becomes(d, [r EXCEPT !.at = NextAt(r),
                          !.count = IF r.ok THEN AtLeast(@, Len(r.images)) ELSE @])
  /\ UNCHANGED <<circumstances, sent, bucket, site, channel, history, mishaps>>

Marks(d) ==
  LET r == D(d) IN
  /\ r.at = "marking"
  /\ IF r.ok /\ r.published
       THEN chapter' = [chapter EXCEPT !.siteCount = AtLeast(@, Len(r.images))]
       ELSE UNCHANGED chapter
  /\ Becomes(d, [r EXCEPT !.at = NextAt(r),
                          !.count = IF r.ok THEN AtLeast(@, Len(r.images)) ELSE @])
  /\ UNCHANGED <<circumstances, sent, bucket, site, channel, history, mishaps>>

-----------------------------------------------------------------------------
(* The channel.                                                            *)

(* plan_outbound_post *)
(* Mutant: what has been sent is as it was read with the chapter. *)
PlanAsRead(r) == (r.videos \cup {Album}) \ r.known
Plan(r) == (r.videos \cup {Album}) \ chapter.sent

Failing(plan) == [Idle EXCEPT !.at = "failing", !.plan = plan]

(* The site is asked once more, unless it has everything; then a closed
   thread goes to the channel, if the site has it. *)
(* Mutant: the channel does not wait for the site. *)
DecidesWithoutSite(d) ==
  LET r == D(d) IN
  /\ r.at = "stored"
  /\ IF ~r.published THEN Ends(d)
     ELSE IF ~r.last THEN Becomes(d, [Asks(r) EXCEPT !.last = TRUE])
     ELSE IF ~r.final \/ (r.videos \cup {Album}) \subseteq r.known THEN Ends(d)
     ELSE Becomes(d, [Idle EXCEPT !.at = "locking", !.videos = r.videos,
                                  !.known = r.known])
  /\ UNCHANGED <<circumstances, sent, bucket, chapter, site, channel, history, mishaps>>

Decides(d) ==
  LET r == D(d) IN
  /\ r.at = "stored"
  /\ IF ~r.published THEN Ends(d)
     ELSE IF ~r.last THEN Becomes(d, [Asks(r) EXCEPT !.last = TRUE])
     ELSE IF ~r.final THEN Ends(d)
     ELSE IF ~r.ok THEN Becomes(d, Failing({}))
     ELSE IF (r.videos \cup {Album}) \subseteq r.known THEN Ends(d)
     ELSE Becomes(d, [Idle EXCEPT !.at = "locking", !.videos = r.videos,
                                  !.known = r.known])
  /\ UNCHANGED <<circumstances, sent, bucket, chapter, site, channel, history, mishaps>>

(* Under the lock of the thread the plan is made again; a delivery that fails
   under it holds it until that is marked. *)
HoldsOutbound(d) == D(d).at = "sending" \/ (D(d).at = "failing" /\ D(d).plan # {})
Locks(d) ==
  /\ D(d).at = "locking" /\ \A e \in Deliverers : ~HoldsOutbound(e)
  /\ LET plan == Plan(D(d)) IN
     IF plan = {} THEN Ends(d)
     ELSE Becomes(d, [Idle EXCEPT !.at = "sending", !.plan = plan, !.todo = plan])
  /\ UNCHANGED <<circumstances, sent, bucket, chapter, site, channel, history, mishaps>>

(* The album, then one video after the other; what was sent is not undone
   when a later one fails. *)
SmallestOf(S) == CHOOSE i \in S : \A j \in S : i <= j
Sends(d) ==
  LET r == D(d)
      i == SmallestOf(r.todo)
      more == [channel EXCEPT ![i] = @ + 1]
  IN
  /\ r.at = "sending" /\ r.todo # {}
  /\ \/ NoMishap /\ channel' = more /\ Becomes(d, [r EXCEPT !.todo = @ \ {i}])
     \/ Mishap /\ channel' \in {channel, more} /\ Becomes(d, Failing(r.plan))
  /\ UNCHANGED <<circumstances, sent, bucket, chapter, site, history>>

(* mark_outbound_sent *)
Records(d) ==
  LET r == D(d) IN
  /\ r.at = "sending" /\ r.todo = {}
  /\ \/ NoMishap /\ Ends(d)
        /\ chapter' = [chapter EXCEPT !.sent = @ \cup r.plan, !.attempts = 0]
     \/ Mishap /\ Becomes(d, Failing(r.plan)) /\ UNCHANGED chapter
  /\ UNCHANGED <<circumstances, sent, bucket, site, channel, history>>

(* mark_outbound_failed *)
Fails(d) ==
  /\ D(d).at = "failing" /\ Ends(d)
  /\ chapter' = [chapter EXCEPT !.attempts = IF @ < MaxAttempts THEN @ + 1 ELSE @]
  /\ UNCHANGED <<circumstances, sent, bucket, site, channel, history, mishaps>>

(* The process dies: the bucket, the deliveries and the files are gone. *)
WorkerRestarts ==
  /\ Mishap
  /\ bucket' = NoBucket /\ delivery' = [d \in Deliverers |-> Idle] /\ history' \in BOOLEAN
  /\ UNCHANGED <<circumstances, sent, chapter, site, channel>>

-----------------------------------------------------------------------------
DeliveryStep(d) ==
  \/ Uploads(d) \/ LoadsStored(d) \/ Stores(d) \/ Lists(d) \/ Posts(d) \/ Marks(d)
  \/ Decides(d) \/ Locks(d) \/ Sends(d) \/ Records(d) \/ Fails(d)

MangaNext ==
  \/ AddPage \/ EditPage \/ Sweep \/ BackfillChat \/ WorkerRestarts
  \/ \E d \in Deliverers : Checkpoint(d) \/ Flush(d) \/ DeliveryStep(d)

(* The worker does not rest while a delivery can go on, a quiet thread can be
   closed, or the sweep or the backfill has something to do. *)
WorkerStep ==
  \/ \E d \in Deliverers : DeliveryStep(d)
  \/ Flush("watchdog") \/ Sweep \/ BackfillChat
MangaFairness == WF_mangaVars(WorkerStep)

MangaSpec == MangaInit /\ [][MangaNext]_mangaVars /\ MangaFairness

-----------------------------------------------------------------------------
(* Properties.                                                             *)

(* A page is stored once, though the backfill and the handler may both bring
   it; it is in its place if deliveries do not overlap. *)
NoPageTwice ==
  LET s == chapter.pages IN
  ~circumstances.edits => \A i, j \in DOMAIN s : i # j => s[i] # s[j]

(* The album and each video are posted once, but for a failure or restart
   between the post and its record. *)
PostedOnce == \A i \in Videos \cup {Album} : channel[i] <= 1 + mishaps

(* The channel never shows what the site does not (can_publish_outbound). *)
ChannelFollowsSite == channel[Album] > 0 => site # <<>>

(* What the database says of the site is true, so nothing is left out because
   it is thought to be there; requests that overtake each other break it. *)
SiteCountIsTrue == circumstances.atOnce = 1 => chapter.siteCount <= Len(site)

(* Without a failure, no image is lost between bucket and database. *)
ImagesKept ==
  (circumstances.atOnce = 1 /\ mishaps = 0 /\ ~history) =>
    \A p \in (1..sent) \ Videos :
      \/ p \in Elements(chapter.pages) \cup Elements(bucket.pages)
      \/ \E d \in Deliverers : p \in Elements(D(d).pages) \cup Elements(D(d).batch)

(* In the end a stored chapter is on the site and in the channel, with all its
   videos, or has failed as often as it may. *)
ChapterSettles == <>[]~Undelivered

(* The pages of a chapter are complete and single: in the database, on the
   site, and in the channel once and only after the site. *)
PagesAreKept ==
  /\ MangaTypeOK /\ NoPageTwice /\ ImagesKept
  /\ SiteCountIsTrue /\ ChannelFollowsSite /\ PostedOnce
=============================================================================
