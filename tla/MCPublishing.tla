----------------------------- MODULE MCPublishing -----------------------------
(* The pipelines that publish, in one run: the games listener with its runner, *)
(* a thread of a manga channel, and a gallery of E-Hentai or WNACG.  They share *)
(* nothing, so a behaviour has one of them at work and the others switched off. *)
EXTENDS GamesPipeline, MangaDelivery, GalleryIngest

VARIABLE part

TwoAtOnceOrMishaps ==
  {[pages |-> 2, atOnce |-> 2, mishaps |-> 1, edits |-> FALSE],
   [pages |-> 3, atOnce |-> 1, mishaps |-> 2, edits |-> FALSE],
   [pages |-> 3, atOnce |-> 1, mishaps |-> 1, edits |-> TRUE]}

WhatHappensTogether ==
  {{"cancel", "crash", "retry"}, {"cancel", "pull"}, {"reload", "crash"},
   {"reload", "shutdown"}}

OneByOneOrTwoAtOnce ==
  [ingests : {1}, backfills : {2}, upsets : {2}, missing : BOOLEAN, numbered : BOOLEAN]
    \cup [ingests : {2}, backfills : {2}, upsets : {1}, missing : {FALSE}, numbered : {TRUE}]

(* A page may be missing; no other part than the gallery knows this weather. *)
MissingPages ==
  [ingests : {1}, backfills : {1}, upsets : {1}, missing : {TRUE}, numbered : {FALSE}]

QuietWeather ==
  [ingests |-> 1, backfills |-> 2, upsets |-> 2, missing |-> FALSE, numbered |-> FALSE]

PublishingInit ==
  /\ part \in {"games", "manga", "gallery"}
  /\ GamesInit /\ MangaInit /\ GalleryInit
  /\ IF part = "games" THEN on ELSE ~on /\ kinds = {"cancel", "pull"}
  /\ part # "manga" => sent = 0 /\ ~history /\ circumstances.edits
  /\ part # "gallery" => weather = QuietWeather /\ ~listening

PublishingNext ==
  \/ part = "games" /\ GamesNext /\ UNCHANGED <<part, mangaVars, galleryVars>>
  \/ part = "manga" /\ MangaNext /\ UNCHANGED <<part, gamesVars, galleryVars>>
  \/ part = "gallery" /\ GalleryNext /\ UNCHANGED <<part, gamesVars, mangaVars>>

PublishingSpec ==
  /\ PublishingInit /\ [][PublishingNext]_<<part, gamesVars, mangaVars, galleryVars>>
  /\ GamesFairness /\ MangaFairness
=============================================================================
