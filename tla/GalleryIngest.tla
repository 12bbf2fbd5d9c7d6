----------------------------- MODULE GalleryIngest -----------------------------
(***************************************************************************)
(* A gallery on its way from E-Hentai or WNACG to the reader               *)
(* (manga/ehentai/worker.py, manga/wnacg/worker.py): page after page is    *)
(* downloaded and put into the media store (manga/storage.py), every few   *)
(* pages are stored as rows of its chapter and shown on the site, and in   *)
(* the end the album goes to the channel.                                  *)
(*                                                                         *)
(* The listener's pass takes a gallery of which it has nothing yet; for    *)
(* E-Hentai a backfill asked for by hand goes on with what is stored, on   *)
(* the listener's worker if there is one and else on a worker of its own.  *)
(* Nothing keeps two ingests of a gallery apart.  An action is what one    *)
(* ingest does between two awaits.  Site and channel are configured and    *)
(* the gallery is below the size limit.                                    *)
(***************************************************************************)
EXTENDS Naturals, Sequences, FiniteSets, Subsequences

CONSTANTS
  GalleryPages,  \* pages of the gallery
  FlushEvery,    \* FLUSH_EVERY, 10 in the code
  Weathers       \* how many ingests at once, backfills and upsets (failures, stops
                 \* of the listener, restarts); may pages be missing (404)? is the
                 \* store a directory that numbers its files (FTP, SFTP, S3) or an
                 \* image bed, which makes up a new URL?

ASSUME GalleryAssumption ==
  /\ GalleryPages \in Nat \ {0} /\ FlushEvery \in Nat \ {0}
  /\ Weathers \subseteq [ingests : Nat, backfills : Nat, upsets : Nat,
                         missing : BOOLEAN, numbered : BOOLEAN]

VARIABLES
  weather,    \* one of Weathers, chosen at the start
  listening,  \* does the runtime have a worker that listens?
  files,      \* the media store: which page each of its files shows
  nextFile,   \* next_index of the album, in manga_remote_albums.json
  rows,       \* the files of the chapter's pages, in order, in the database
  posted,     \* tg_album_sent of the chapter
  shown,      \* the files the site shows
  albums,     \* how often the channel got the album
  ingest,     \* what each ingest is doing
  outcome,    \* how the last ingest ended
  backfills, upsets

galleryVars == <<weather, listening, files, nextFile, rows, posted, shown, albums,
                 ingest, outcome, backfills, upsets>>

Backfills == {"backfill", "again"}
Ingests == {"pass"} \cup Backfills

(* on a worker of its own?, its worker was stopped, stored pages at the start,
   pages it was told of, the next page, the page in hand and the number its file
   will have (next_index in memory), batch, rows it read, published and its album_sent, site_urls, it
   returns after the flush, a page was not there or not listed *)
AtRest == [at |-> "rest", own |-> FALSE, stopped |-> FALSE, before |-> 0, listed |-> 0,
           next |-> 1, page |-> 0, number |-> 0, batch |-> <<>>, read |-> 0,
           published |-> FALSE, known |-> FALSE, urls |-> <<>>, leaving |-> FALSE,
           hindered |-> FALSE]
NoOutcome == [of |-> "none", hindered |-> FALSE]

Places == {"rest", "looking", "fetching", "paging", "uploading", "putting", "flushing",
           "storing", "listing", "showing", "outbound", "resending", "posting", "recording"}

(* _find_chapter_by_source_key finds it as soon as it has a page. *)
Known == rows # <<>>
IsPartOf(s, t) == Len(s) <= Len(t) /\ s = SubSeq(t, 1, Len(s))

GalleryTypeOK ==
  /\ weather \in Weathers /\ listening \in BOOLEAN /\ posted \in BOOLEAN
  /\ files \in Seq(1..GalleryPages) /\ nextFile \in 1..(Len(files) + 1)
  /\ rows \in Seq(DOMAIN files) /\ shown \in Seq(DOMAIN files) /\ albums \in Nat
  /\ backfills \in 0..weather.backfills /\ upsets \in 0..weather.upsets
  /\ outcome.of \in {"none", "ok", "duplicate", "empty", "failed", "raised", "stopped"}
  /\ \A i \in Ingests : /\ ingest[i].at \in Places /\ ingest[i].next \in 1..(GalleryPages + 1)
                        /\ Elements(ingest[i].batch) \subseteq DOMAIN files

GalleryInit ==
  /\ weather \in Weathers /\ listening \in BOOLEAN
  /\ files = <<>> /\ nextFile = 1 /\ rows = <<>> /\ posted = FALSE
  /\ shown = <<>> /\ albums = 0
  /\ ingest = [i \in Ingests |-> AtRest] /\ outcome = NoOutcome
  /\ backfills = 0 /\ upsets = 0

-----------------------------------------------------------------------------
Doing(i) == ingest[i]
Working(i) == Doing(i).at # "rest"
Turns(i, r) == ingest' = [ingest EXCEPT ![i] = r]
MovesOn(i, place) == Turns(i, [Doing(i) EXCEPT !.at = place])
Upset == upsets < weather.upsets /\ upsets' = upsets + 1
NoUpset == UNCHANGED upsets

(* A request fails; once the worker is stopped its clients are being closed. *)
GoesWrong(i) == IF Doing(i).stopped THEN NoUpset ELSE Upset

EndsAs(i, how) ==
  /\ Turns(i, AtRest)
  /\ outcome' = [of |-> how, hindered |-> Doing(i).hindered]

Begins(i, own) ==
  /\ ~Working(i) /\ Cardinality({j \in Ingests : Working(j)}) < weather.ingests
  /\ Turns(i, [AtRest EXCEPT !.at = "looking", !.own = own])
  /\ outcome' = NoOutcome
  /\ UNCHANGED <<weather, listening, files, nextFile, rows, posted, shown, albums, upsets>>

(* _run_pass: a gallery with a page is a duplicate. *)
PassMeets ==
  /\ listening /\ ~Known
  /\ Begins("pass", FALSE) /\ UNCHANGED backfills

(* backfill_ehentai, list_source_keys *)
BackfillAsked(i) ==
  /\ i \in Backfills /\ Known
  /\ backfills < weather.backfills /\ backfills' = backfills + 1
  /\ Begins(i, ~listening)

-----------------------------------------------------------------------------
(* _ingest_gallery, _ingest_album.                                         *)

(* The stored pages are counted; the store makes sure that its next file comes
   after theirs (remember_group). *)
AfterStored == 1 + IF Known THEN CHOOSE n \in Elements(rows) : \A m \in Elements(rows) : m <= n
                            ELSE 0
(* Mutant: the directory is numbered from 1 in every ingest. *)
RememberNothing == 1
RememberGroup == IF nextFile < AfterStored THEN AfterStored ELSE nextFile

CountsStored(i) ==
  /\ Doing(i).at = "looking"
  /\ Turns(i, [Doing(i) EXCEPT !.at = "fetching", !.before = Len(rows)])
  /\ nextFile' = IF weather.numbered THEN RememberGroup ELSE nextFile
  /\ UNCHANGED <<weather, listening, files, rows, posted, shown, albums, outcome,
                 backfills, upsets>>

(* Mutant: the ingest begins with the first page. *)
FromTheStart(n) == 1
(* image_pages[existing_pages:] *)
ResumeAt(n) == n + 1

(* The list of pages is complete unless a page of it cannot be read
   (_complete_image_pages); what the gallery says of its length is right. *)
FetchesGallery(i) ==
  LET r == Doing(i)
      told(n) ==
        IF r.before > 0 /\ r.before >= GalleryPages THEN EndsAs(i, "duplicate")
        ELSE IF n <= r.before THEN EndsAs(i, "empty")
        ELSE /\ Turns(i, [r EXCEPT !.at = "paging", !.listed = n, !.next = ResumeAt(r.before),
                                  !.hindered = n < GalleryPages])
             /\ UNCHANGED outcome
  IN
  /\ r.at = "fetching"
  /\ \/ NoUpset /\ told(GalleryPages)
     \/ Upset /\ \E n \in 1..(GalleryPages - 1) : told(n)
     \/ GoesWrong(i) /\ EndsAs(i, "raised")
  /\ UNCHANGED <<weather, listening, files, nextFile, rows, posted, shown, albums, backfills>>

(* Mutant: a page that cannot be downloaded is passed over. *)
PassesOver(i) ==
  LET r == Doing(i) IN
  /\ r.at = "paging" /\ r.next <= r.listed /\ ~r.stopped
  /\ \/ NoUpset /\ Turns(i, [r EXCEPT !.at = "uploading", !.page = r.next, !.next = @ + 1])
     \/ Upset /\ Turns(i, [r EXCEPT !.next = @ + 1])
  /\ UNCHANGED <<weather, listening, files, nextFile, rows, posted, shown, albums,
                 outcome, backfills>>

(* The next page: it is downloaded, passed over if it is not there, or fails. *)
Downloads(i) ==
  LET r == Doing(i) IN
  /\ r.at = "paging" /\ r.next <= r.listed /\ ~r.stopped
  /\ \/ /\ NoUpset /\ UNCHANGED outcome
        /\ Turns(i, [r EXCEPT !.at = "uploading", !.page = r.next, !.next = @ + 1])
     \/ /\ weather.missing /\ Upset /\ UNCHANGED outcome
        /\ Turns(i, [r EXCEPT !.next = @ + 1, !.hindered = TRUE])
     \/ Upset /\ EndsAs(i, "raised")
  /\ UNCHANGED <<weather, listening, files, nextFile, rows, posted, shown, albums, backfills>>

(* The worker was stopped: what is in the batch is stored, then it returns. *)
StopsPaging(i) ==
  LET r == Doing(i) IN
  /\ r.at = "paging" /\ r.next <= r.listed /\ r.stopped
  /\ IF r.batch = <<>> THEN EndsAs(i, "stopped")
     ELSE Turns(i, [r EXCEPT !.at = "flushing", !.leaving = TRUE]) /\ UNCHANGED outcome
  /\ UNCHANGED <<weather, listening, files, nextFile, rows, posted, shown, albums,
                 backfills, upsets>>

(* All pages are through. *)
FinishesPaging(i) ==
  LET r == Doing(i) IN
  /\ r.at = "paging" /\ r.next > r.listed
  /\ IF r.batch # <<>> THEN MovesOn(i, "flushing") /\ UNCHANGED outcome
     ELSE IF r.published THEN MovesOn(i, "outbound") /\ UNCHANGED outcome
     ELSE EndsAs(i, "failed")
  /\ UNCHANGED <<weather, listening, files, nextFile, rows, posted, shown, albums,
                 backfills, upsets>>

-----------------------------------------------------------------------------
(* upload_bytes of the media store.                                        *)

(* A numbered store has a lock, but each worker has a store of its own. *)
SameStore(i, j) == ~Doing(i).own /\ ~Doing(j).own /\ Doing(i).stopped = Doing(j).stopped
TakesNumber(i) ==
  /\ Doing(i).at = "uploading" /\ weather.numbered
  /\ \A j \in Ingests \ {i} : SameStore(i, j) => Doing(j).at # "putting"
  /\ Turns(i, [Doing(i) EXCEPT !.at = "putting",
                               !.number = IF @ < nextFile THEN nextFile ELSE @])
  /\ UNCHANGED <<weather, listening, files, nextFile, rows, posted, shown, albums,
                 outcome, backfills, upsets>>

Written(s, n, page) == [k \in 1..(IF n > Len(s) THEN n ELSE Len(s)) |-> IF k = n THEN page ELSE s[k]]

(* The file is there; the album's number goes on.  A put that fails may have
   written it. *)
PutsFile(i) ==
  LET r == Doing(i)
      n == IF weather.numbered THEN r.number ELSE Len(files) + 1
      batch == Append(r.batch, n)
  IN
  /\ r.at = IF weather.numbered THEN "putting" ELSE "uploading"
  /\ \/ /\ NoUpset /\ files' = Written(files, n, r.page)
        /\ nextFile' = IF weather.numbered THEN n + 1 ELSE nextFile
        /\ Turns(i, [r EXCEPT !.batch = batch, !.page = 0,
                             !.number = IF weather.numbered THEN n + 1 ELSE 0,
                             !.at = IF Len(batch) >= FlushEvery THEN "flushing" ELSE "paging"])
        /\ UNCHANGED outcome
     \/ /\ GoesWrong(i) /\ EndsAs(i, "raised") /\ UNCHANGED nextFile
        /\ files' \in {files, Written(files, n, r.page)}
  /\ UNCHANGED <<weather, listening, rows, posted, shown, albums, backfills>>

-----------------------------------------------------------------------------
(* flush: the rows, then the site.                                         *)

FlushReads(i) ==
  /\ Doing(i).at = "flushing"
  /\ Turns(i, [Doing(i) EXCEPT !.at = "storing", !.read = Len(rows)])
  /\ UNCHANGED <<weather, listening, files, nextFile, rows, posted, shown, albums,
                 outcome, backfills, upsets>>

(* Mutant: the state of the channel is not read. *)
AlbumUnsent == FALSE
(* read_outbound_state *)
AlbumSent == posted

(* publish_chapter and _append_chapter_pages: a URL that is stored is left out,
   and if that is all there was the chapter is not published; a unique key
   refuses the rows if there are others by now. *)
FlushStores(i) ==
  LET r == Doing(i)
      new == Keeping(r.batch, DOMAIN files \ Elements(rows))
      flushed == [r EXCEPT !.batch = <<>>, !.read = 0]
  IN
  /\ r.at = "storing"
  /\ IF Len(rows) # r.read THEN EndsAs(i, "raised") /\ UNCHANGED rows
     ELSE IF new # <<>>
       THEN /\ rows' = rows \o new /\ UNCHANGED outcome
            /\ Turns(i, [flushed EXCEPT !.at = "listing", !.published = TRUE,
                                        !.known = AlbumSent])
     ELSE /\ UNCHANGED rows
          /\ IF r.leaving THEN EndsAs(i, "stopped")
             ELSE /\ Turns(i, [flushed EXCEPT !.at = "paging", !.published = FALSE])
                  /\ UNCHANGED outcome
  /\ UNCHANGED <<weather, listening, files, nextFile, posted, shown, albums, backfills, upsets>>

(* Mutant: the site gets what the ingest has stored. *)
ListsBatch(i) == SubSeq(rows, Doing(i).before + 1, Len(rows))
(* list_chapter_image_urls *)
ListedRows(i) == rows
FlushLists(i) ==
  /\ Doing(i).at = "listing"
  /\ Turns(i, [Doing(i) EXCEPT !.at = "showing", !.urls = ListedRows(i)])
  /\ UNCHANGED <<weather, listening, files, nextFile, rows, posted, shown, albums,
                 outcome, backfills, upsets>>

(* SitePublisher.publish_chapter fails, or only its answer does, and with it the
   ingest. *)
SiteFails(i) ==
  /\ GoesWrong(i) /\ shown' \in {shown, Doing(i).urls}
  /\ EndsAs(i, "raised")

FlushShows(i) ==
  /\ Doing(i).at = "showing"
  /\ \/ /\ NoUpset /\ shown' = Doing(i).urls
        /\ IF Doing(i).leaving THEN EndsAs(i, "stopped")
           ELSE MovesOn(i, "paging") /\ UNCHANGED outcome
     \/ SiteFails(i)
  /\ UNCHANGED <<weather, listening, files, nextFile, rows, posted, albums, backfills>>

-----------------------------------------------------------------------------
(* _outbound                                                               *)

(* Mutant: only the ingest that creates the chapter posts it. *)
OutboundIfNew(i) ==
  /\ Doing(i).at = "outbound"
  /\ IF Doing(i).known \/ Doing(i).before > 0 THEN EndsAs(i, "ok")
     ELSE MovesOn(i, "resending") /\ UNCHANGED outcome
  /\ UNCHANGED <<weather, listening, files, nextFile, rows, posted, shown, albums,
                 backfills, upsets>>

Outbound(i) ==
  /\ Doing(i).at = "outbound"
  /\ IF Doing(i).known THEN EndsAs(i, "ok")
     ELSE MovesOn(i, "resending") /\ UNCHANGED outcome
  /\ UNCHANGED <<weather, listening, files, nextFile, rows, posted, shown, albums,
                 backfills, upsets>>

(* The site once more, and only then the channel. *)
ShowsAgain(i) ==
  /\ Doing(i).at = "resending"
  /\ \/ NoUpset /\ shown' = Doing(i).urls /\ MovesOn(i, "posting") /\ UNCHANGED outcome
     \/ SiteFails(i)
  /\ UNCHANGED <<weather, listening, files, nextFile, rows, posted, albums, backfills>>

PostsAlbum(i) ==
  /\ Doing(i).at = "posting"
  /\ \/ NoUpset /\ albums' = albums + 1 /\ MovesOn(i, "recording") /\ UNCHANGED outcome
     \/ Upset /\ albums' \in {albums, albums + 1} /\ EndsAs(i, "raised")
  /\ UNCHANGED <<weather, listening, files, nextFile, rows, posted, shown, backfills>>

(* mark_outbound_sent *)
RecordsAlbum(i) ==
  /\ Doing(i).at = "recording" /\ posted' = TRUE /\ EndsAs(i, "ok")
  /\ UNCHANGED <<weather, listening, files, nextFile, rows, shown, albums, backfills, upsets>>

-----------------------------------------------------------------------------
(* The listener (start_ehentai, stop_ehentai).                             *)

ListenerStarts ==
  /\ ~listening /\ ~Working("pass") /\ listening' = TRUE
  /\ UNCHANGED <<weather, files, nextFile, rows, posted, shown, albums, ingest, outcome,
                 backfills, upsets>>

(* Its worker is stopped, also under a backfill that works on it. *)
ListenerStops ==
  /\ listening /\ Upset /\ listening' = FALSE
  /\ ingest' = [i \in Ingests |->
                  IF Working(i) /\ ~Doing(i).own THEN [Doing(i) EXCEPT !.stopped = TRUE]
                                               ELSE Doing(i)]
  /\ UNCHANGED <<weather, files, nextFile, rows, posted, shown, albums, outcome, backfills>>

(* The task of the pass is cancelled, wherever it waits. *)
PassCancelled ==
  /\ Working("pass") /\ Doing("pass").stopped
  /\ Turns("pass", AtRest)
  /\ UNCHANGED <<weather, listening, files, nextFile, rows, posted, shown, albums,
                 outcome, backfills, upsets>>

ProcessRestarts ==
  /\ Upset /\ listening' \in BOOLEAN
  /\ ingest' = [i \in Ingests |-> AtRest]
  /\ UNCHANGED <<weather, files, nextFile, rows, posted, shown, albums, outcome, backfills>>

-----------------------------------------------------------------------------
IngestStep(i) ==
  \/ CountsStored(i) \/ FetchesGallery(i) \/ Downloads(i) \/ StopsPaging(i) \/ FinishesPaging(i)
  \/ TakesNumber(i) \/ PutsFile(i)
  \/ FlushReads(i) \/ FlushStores(i) \/ FlushLists(i) \/ FlushShows(i)
  \/ Outbound(i) \/ ShowsAgain(i) \/ PostsAlbum(i) \/ RecordsAlbum(i)

GalleryNext ==
  \/ PassMeets \/ ListenerStarts \/ ListenerStops \/ PassCancelled \/ ProcessRestarts
  \/ \E i \in Ingests : BackfillAsked(i) \/ IngestStep(i)

GallerySpec == GalleryInit /\ [][GalleryNext]_galleryVars
-----------------------------------------------------------------------------
(* Properties.                                                             *)

OneIngest == weather.ingests = 1

(* Without missing pages, the chapter shows the pages of the gallery from the
   first on, each once and in its place, however often an ingest failed, was
   stopped or taken up again; no file of it was written over. *)
PagesInPlace ==
  OneIngest /\ ~weather.missing => \A k \in DOMAIN rows : files[rows[k]] = k

(* The site shows the first pages of the chapter, and the channel never has an
   album the site has not. *)
SiteShowsChapter ==
  /\ OneIngest => IsPartOf(shown, rows)
  /\ albums > 0 => shown # <<>>

(* The album is posted once, but for a failure between the post and its record:
   nobody is about to post what is recorded. *)
AlbumPostedOnce ==
  OneIngest =>
    /\ albums <= 1 + upsets
    /\ \A i \in Ingests : Doing(i).at \in {"resending", "posting"} => ~posted

(* An ingest that counts as processed has brought the whole chapter to the site
   and the album to the channel. *)
ProcessedIsOut ==
  OneIngest /\ outcome.of = "ok" => shown = rows /\ albums > 0 /\ posted

GalleryIsKept ==
  GalleryTypeOK /\ PagesInPlace /\ SiteShowsChapter /\ AlbumPostedOnce /\ ProcessedIsOut

(* An ingest that was told of every page, met none that is missing and counts as
   processed or duplicate leaves the gallery complete, as the docstring of
   backfill_incomplete promises. *)
NothingLeftOut ==
  (outcome.of \in {"ok", "duplicate"} /\ ~outcome.hindered) =>
    {files[rows[k]] : k \in DOMAIN rows} = 1..GalleryPages

(* So it is as long as no page was ever missing and ingests come one by one. *)
BackfillFillsIn == OneIngest /\ ~weather.missing => NothingLeftOut
=============================================================================
