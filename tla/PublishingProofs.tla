--------------------------- MODULE PublishingProofs ---------------------------
(***************************************************************************)
(* Theorems about the pipelines that publish: the games listener and its   *)
(* runner, a gallery on its way to the site, and a manga thread.           *)
(*                                                                         *)
(* Each part has one inductive invariant: the shape every delivery, ingest *)
(* or task has whatever happens, and, for circumstances in which one of    *)
(* them works at a time, what then holds of the one that does.             *)
(***************************************************************************)
EXTENDS GamesPipeline, MangaDelivery, GalleryIngest,
        FiniteSetTheorems, SequenceTheorems, WellFoundedInduction, TLAPS

-----------------------------------------------------------------------------
(* Sequences: what Keeping returns.  The least counterexample stands for the
   induction. *)

LEMMA LeastCounterexample ==
  ASSUME NEW T \in SUBSET Nat, T # {}
  PROVE  \E n \in T : \A m \in T : n <= m
<1>1. PICK n \in T : \A m \in T : ~(<<m, n>> \in OpToRel(<, Nat))
  BY WFMin, NatLessThanWellFounded
<1>2. \A m \in T : ~(m < n)
  BY <1>1 DEF OpToRel
<1>. QED
  BY <1>2

KeptUpto(s, S, kept, n) ==
  kept = [k \in 0..n |-> IF k = 0 THEN <<>>
                         ELSE IF s[k] \in S THEN Append(kept[k - 1], s[k])
                         ELSE kept[k - 1]]

LEMMA KeptExists ==
  ASSUME NEW s, NEW S, NEW n \in Nat
  PROVE  \E kept : KeptUpto(s, S, kept, n)
<1>. DEFINE T == {k \in Nat : ~ \E kept : KeptUpto(s, S, kept, k)}
<1>1. SUFFICES ASSUME T # {} PROVE FALSE
  OBVIOUS
<1>2. PICK k \in T : \A m \in T : k <= m
  BY <1>1, LeastCounterexample
<1>3. CASE k = 0
  <2>1. KeptUpto(s, S, [j \in 0..0 |-> <<>>], 0)
    BY DEF KeptUpto
  <2>. QED
    BY <1>3, <2>1
<1>4. CASE k # 0
  <2>1. k - 1 \in Nat /\ k - 1 \notin T
    BY <1>2, <1>4
  <2>2. PICK f : KeptUpto(s, S, f, k - 1)
    BY <2>1
  <2>. DEFINE g == [j \in 0..k |-> IF j = k
                                   THEN IF s[k] \in S THEN Append(f[k - 1], s[k]) ELSE f[k - 1]
                                   ELSE f[j]]
  <2>3. \A j \in 0..k : g[j] = IF j = 0 THEN <<>>
                         ELSE IF s[j] \in S THEN Append(g[j - 1], s[j])
                         ELSE g[j - 1]
    <3>. SUFFICES ASSUME NEW j \in 0..k
                  PROVE g[j] = IF j = 0 THEN <<>>
                         ELSE IF s[j] \in S THEN Append(g[j - 1], s[j])
                         ELSE g[j - 1]
      OBVIOUS
    <3>1. CASE j = k
      <4>1. g[k - 1] = f[k - 1]
        BY <1>2, <1>4
      <4>. QED
        BY <3>1, <4>1, <1>4
    <3>2. CASE j # k
      <4>1. j \in 0..(k - 1) /\ g[j] = f[j] /\ (j # 0 => g[j - 1] = f[j - 1])
        BY <3>2, <1>2
      <4>. HIDE DEF g
      <4>2. f[j] = IF j = 0 THEN <<>>
                         ELSE IF s[j] \in S THEN Append(f[j - 1], s[j])
                         ELSE f[j - 1]
        BY <2>2, <4>1 DEF KeptUpto
      <4>. QED
        BY <4>1, <4>2
    <3>. QED
      BY <3>1, <3>2
  <2>4. KeptUpto(s, S, g, k)
    <3>1. g = [j \in 0..k |-> g[j]]
      OBVIOUS
    <3>. HIDE DEF g
    <3>. QED
      BY <3>1, <2>3 DEF KeptUpto
  <2>. QED
    BY <2>4, <1>2
<1>. QED
  BY <1>3, <1>4

LEMMA KeepingIs ==
  ASSUME NEW s, NEW S, Len(s) \in Nat
  PROVE  \E kept : KeptUpto(s, S, kept, Len(s)) /\ Keeping(s, S) = kept[Len(s)]
<1>. DEFINE f == CHOOSE kept : KeptUpto(s, S, kept, Len(s))
<1>1. KeptUpto(s, S, f, Len(s))
  BY KeptExists
<1>2. Keeping(s, S) = f[Len(s)]
  BY DEF Keeping, KeptUpto
<1>. HIDE DEF f
<1>. QED
  BY <1>1, <1>2

Distinct(u) == \A i, j \in DOMAIN u : i # j => u[i] # u[j]

KeptFacts(T, s, S, u, n) ==
  /\ u \in Seq(T)
  /\ Elements(u) = {s[i] : i \in 1..n} \cap S
  /\ Distinct(s) => Distinct(u)
  /\ Elements(s) \subseteq S => Len(u) = n /\ \A i \in 1..n : u[i] = s[i]

LEMMA KeepingFacts ==
  ASSUME NEW T, NEW s \in Seq(T), NEW S
  PROVE  /\ Keeping(s, S) \in Seq(T)
         /\ Elements(Keeping(s, S)) = Elements(s) \cap S
         /\ Distinct(s) => Distinct(Keeping(s, S))
         /\ Elements(s) \subseteq S => Keeping(s, S) = s
<1>1. Len(s) \in Nat /\ DOMAIN s = 1..Len(s) /\ \A i \in 1..Len(s) : s[i] \in T
  OBVIOUS
<1>2. PICK kept : KeptUpto(s, S, kept, Len(s)) /\ Keeping(s, S) = kept[Len(s)]
  BY <1>1, KeepingIs
<1>. DEFINE bad == {n \in Nat : n <= Len(s) /\ ~KeptFacts(T, s, S, kept[n], n)}
<1>3. bad = {}
  <2>. SUFFICES ASSUME bad # {} PROVE FALSE
    OBVIOUS
  <2>1. PICK n \in bad : \A m \in bad : n <= m
    BY LeastCounterexample
  <2>2. n \in Nat /\ n <= Len(s) /\ ~KeptFacts(T, s, S, kept[n], n)
    BY <2>1
  <2>3. CASE n = 0
    <3>1. kept[0] = <<>>
      BY <1>1, <1>2 DEF KeptUpto
    <3>2. KeptFacts(T, s, S, <<>>, 0)
      BY DEF KeptFacts, Elements, Distinct
    <3>. QED
      BY <2>2, <2>3, <3>1, <3>2
  <2>4. CASE n # 0
    <3>. DEFINE u == kept[n - 1]
    <3>1. n - 1 \in Nat /\ n - 1 <= Len(s) /\ n - 1 \notin bad /\ n \in 1..Len(s) /\ n \in 0..Len(s)
      BY <1>1, <2>1, <2>2, <2>4
    <3>2. KeptFacts(T, s, S, u, n - 1)
      BY <3>1
    <3>3. kept[n] = IF s[n] \in S THEN Append(u, s[n]) ELSE u
      BY <1>2, <3>1, <2>4 DEF KeptUpto
    <3>. HIDE DEF u, bad
    <3>4. s[n] \in T /\ u \in Seq(T) /\ 1..n = 1..(n - 1) \cup {n}
      BY <1>1, <3>1, <3>2 DEF KeptFacts
    <3>5. {s[i] : i \in 1..n} = {s[i] : i \in 1..(n - 1)} \cup {s[n]}
      BY <3>4
    <3>6. CASE s[n] \in S
      <4>. DEFINE v == Append(u, s[n])
      <4>1. /\ v \in Seq(T) /\ Len(v) = Len(u) + 1 /\ DOMAIN v = 1..(Len(u) + 1)
            /\ v[Len(u) + 1] = s[n] /\ \A i \in 1..Len(u) : v[i] = u[i]
            /\ DOMAIN u = 1..Len(u) /\ Len(u) \in Nat
            /\ 1..(Len(u) + 1) = 1..Len(u) \cup {Len(u) + 1}
        BY <3>4
      <4>. HIDE DEF v
      <4>2. Elements(v) = Elements(u) \cup {s[n]}
        BY <4>1 DEF Elements
      <4>3. Elements(v) = {s[i] : i \in 1..n} \cap S
        BY <4>2, <3>2, <3>5, <3>6 DEF KeptFacts
      <4>4. Distinct(s) => Distinct(v)
        <5>. SUFFICES ASSUME Distinct(s) PROVE Distinct(v)
          OBVIOUS
        <5>1. \A i \in 1..(n - 1) : s[i] # s[n]
          BY <1>1, <3>1 DEF Distinct
        <5>2. s[n] \notin Elements(u)
          BY <3>2, <5>1 DEF KeptFacts
        <5>3. \A i \in 1..Len(u) : v[i] # s[n]
          BY <4>1, <5>2 DEF Elements
        <5>4. Distinct(u)
          BY <3>2 DEF KeptFacts
        <5>. QED
          BY <4>1, <5>3, <5>4 DEF Distinct
      <4>5. Elements(s) \subseteq S => Len(v) = n /\ \A i \in 1..n : v[i] = s[i]
        BY <4>1, <3>1, <3>2, <3>4 DEF KeptFacts
      <4>6. KeptFacts(T, s, S, v, n)
        BY <4>1, <4>3, <4>4, <4>5 DEF KeptFacts
      <4>. QED
        BY <4>6, <3>3, <3>6, <2>2 DEF v
    <3>7. CASE s[n] \notin S
      <4>1. s[n] \in Elements(s)
        BY <1>1, <3>1 DEF Elements
      <4>2. Elements(u) = {s[i] : i \in 1..n} \cap S
        BY <3>2, <3>5, <3>7 DEF KeptFacts
      <4>3. KeptFacts(T, s, S, u, n)
        BY <4>1, <4>2, <3>2, <3>7 DEF KeptFacts
      <4>. QED
        BY <4>3, <3>3, <3>7, <2>2
    <3>. QED
      BY <3>6, <3>7
  <2>. QED
    BY <2>3, <2>4
<1>4. KeptFacts(T, s, S, Keeping(s, S), Len(s))
  BY <1>1, <1>2, <1>3
<1>5. {s[i] : i \in 1..Len(s)} = Elements(s)
  BY <1>1 DEF Elements
<1>6. Elements(s) \subseteq S => Keeping(s, S) = s
  BY <1>1, <1>4 DEF KeptFacts
<1>. QED
  BY <1>4, <1>5, <1>6 DEF KeptFacts

LEMMA SeqOf ==
  ASSUME NEW T, NEW U, NEW s \in Seq(T), Elements(s) \subseteq U
  PROVE  s \in Seq(U)
<1>1. Len(s) \in Nat /\ s \in [1..Len(s) -> T]
  OBVIOUS
<1>2. \A k \in 1..Len(s) : s[k] \in U
  BY <1>1 DEF Elements
<1>3. s \in [1..Len(s) -> U]
  BY <1>1, <1>2
<1>. QED
  BY <1>1, <1>3

LEMMA AppendFacts ==
  ASSUME NEW T, NEW s \in Seq(T), NEW n \in T
  PROVE  /\ Append(s, n) \in Seq(T) /\ Len(Append(s, n)) = Len(s) + 1
         /\ Append(s, n) # <<>>
         /\ Elements(Append(s, n)) = Elements(s) \cup {n}
         /\ \A k \in DOMAIN s : Append(s, n)[k] = s[k]
         /\ DOMAIN Append(s, n) = DOMAIN s \cup {Len(s) + 1}
         /\ Append(s, n)[Len(s) + 1] = n /\ Len(s) + 1 \notin DOMAIN s
         /\ Distinct(s) /\ n \notin Elements(s) => Distinct(Append(s, n))
<1>. DEFINE u == Append(s, n)
<1>1. /\ u \in Seq(T) /\ Len(u) = Len(s) + 1 /\ DOMAIN u = 1..(Len(s) + 1)
      /\ DOMAIN s = 1..Len(s) /\ Len(s) \in Nat
      /\ 1..(Len(s) + 1) = 1..Len(s) \cup {Len(s) + 1}
      /\ u[Len(s) + 1] = n /\ \A k \in 1..Len(s) : u[k] = s[k]
  OBVIOUS
<1>. HIDE DEF u
<1>2. Elements(u) = Elements(s) \cup {n}
  BY <1>1 DEF Elements
<1>3. ASSUME Distinct(s), n \notin Elements(s) PROVE Distinct(u)
  BY <1>1, <1>3 DEF Distinct, Elements
<1>4. u # <<>> /\ Len(s) + 1 \notin DOMAIN s
  BY <1>1
<1>. QED
  BY <1>1, <1>2, <1>3, <1>4 DEF u

LEMMA ConcatFacts ==
  ASSUME NEW T, NEW s \in Seq(T), NEW u \in Seq(T)
  PROVE  /\ s \o u \in Seq(T) /\ Len(s \o u) = Len(s) + Len(u)
         /\ Elements(s \o u) = Elements(s) \cup Elements(u)
         /\ \A k \in DOMAIN s : (s \o u)[k] = s[k]
         /\ \A k \in 1..Len(u) : (s \o u)[Len(s) + k] = u[k]
         /\ \A k \in DOMAIN (s \o u) : k \in DOMAIN s \/ (k - Len(s) \in DOMAIN u /\ (s \o u)[k] = u[k - Len(s)])
         /\ Distinct(s) /\ Distinct(u) /\ Elements(s) \cap Elements(u) = {} => Distinct(s \o u)
<1>. DEFINE v == s \o u
<1>1. /\ v \in Seq(T) /\ Len(v) = Len(s) + Len(u) /\ DOMAIN v = 1..(Len(s) + Len(u))
      /\ DOMAIN s = 1..Len(s) /\ DOMAIN u = 1..Len(u) /\ Len(s) \in Nat /\ Len(u) \in Nat
      /\ \A k \in 1..Len(s) : v[k] = s[k]
  OBVIOUS
<1>2. \A k \in 1..Len(u) : v[Len(s) + k] = u[k] /\ Len(s) + k \in DOMAIN v
  OBVIOUS
<1>3. \A k \in DOMAIN v : k \in DOMAIN s \/ (k - Len(s) \in DOMAIN u /\ v[k] = u[k - Len(s)])
  <2>. SUFFICES ASSUME NEW k \in DOMAIN v, k \notin DOMAIN s
                PROVE  k - Len(s) \in DOMAIN u /\ v[k] = u[k - Len(s)]
    OBVIOUS
  <2>1. k - Len(s) \in 1..Len(u) /\ Len(s) + (k - Len(s)) = k
    BY <1>1
  <2>. QED
    BY <1>1, <1>2, <2>1
<1>. HIDE DEF v
<1>4. Elements(v) = Elements(s) \cup Elements(u)
  <2>1. Elements(v) \subseteq Elements(s) \cup Elements(u)
    BY <1>1, <1>3 DEF Elements
  <2>2. Elements(s) \subseteq Elements(v)
    <3>1. DOMAIN s \subseteq DOMAIN v
      BY <1>1
    <3>. QED
      BY <1>1, <3>1 DEF Elements
  <2>3. Elements(u) \subseteq Elements(v)
    BY <1>1, <1>2 DEF Elements
  <2>. QED
    BY <2>1, <2>2, <2>3
<1>5. ASSUME Distinct(s), Distinct(u), Elements(s) \cap Elements(u) = {} PROVE Distinct(v)
  <2>. SUFFICES ASSUME NEW j \in DOMAIN v, NEW k \in DOMAIN v, j # k PROVE v[j] # v[k]
    BY DEF Distinct
  <2>1. CASE j \in DOMAIN s /\ k \in DOMAIN s
    BY <1>1, <1>5, <2>1 DEF Distinct
  <2>2. CASE j \in DOMAIN s /\ k \notin DOMAIN s
    BY <1>1, <1>3, <1>5, <2>2 DEF Elements
  <2>3. CASE j \notin DOMAIN s /\ k \in DOMAIN s
    BY <1>1, <1>3, <1>5, <2>3 DEF Elements
  <2>4. CASE j \notin DOMAIN s /\ k \notin DOMAIN s
    <3>1. j - Len(s) \in DOMAIN u /\ k - Len(s) \in DOMAIN u /\ j - Len(s) # k - Len(s)
          /\ v[j] = u[j - Len(s)] /\ v[k] = u[k - Len(s)]
      BY <1>1, <1>3, <2>4
    <3>. QED
      BY <1>5, <3>1 DEF Distinct
  <2>. QED
    BY <2>1, <2>2, <2>3, <2>4
<1>. QED
  BY <1>1, <1>2, <1>3, <1>4, <1>5 DEF v

-----------------------------------------------------------------------------
(* Games.                                                                  *)

Published(file) == file.wp \/ file.stage = "done"
Concluded == {"done", "skipped", "failed", "cancelled"}
ItemType == [status : Waiting \cup Settled \cup {"none"},
             attempts : 0..(RetryLimit + MaxDisturbances), job : 0..MaxJobs]
FileType == [stage : EndStages \cup {"none", "active"}, wp : BOOLEAN]
TaskType == [job : 0..MaxJobs, post : 0..MaxPosts,
             at : {"idle", "created", "pulling", "packing", "found", "missing", "finalizing"}]

(* An item in memory or on disk: it is done only if its article is there, and
   every try it may still get leaves it within its tries. *)
WorksOn(t, j) == t.at # "idle" /\ t.job = j
TriedAgain(it, fs, t, a) ==
  \/ it.status = "pending"
  \/ /\ it.status = "processing"
     /\ it.job # NoJob => /\ fs[it.job].stage \notin Concluded
                          /\ ~(WorksOn(t, it.job) /\ ~a)
ItemKept(p, it, arts, fs, t, a, n) ==
  /\ it.attempts <= RetryLimit + n
  /\ TriedAgain(it, fs, t, a) => it.attempts < RetryLimit + n
  /\ it.status = "done" => arts[p] > 0
  /\ it.job # NoJob => (Published(fs[it.job]) => arts[p] > 0)
  /\ it.job # NoJob => (WorksOn(t, it.job) => p = t.post)
ItemsKept(s, arts, fs, t, a, n) ==
  \A p \in GamePosts : ItemKept(p, s.item[p], arts, fs, t, a, n)
BothKept == ItemsKept(memory, articles, jobFile, task, asked, spent)
            /\ ItemsKept(disk, articles, jobFile, task, asked, spent)

(* The runner's task, the site, what the listener waits for, and its cursor. *)
RunnerKept ==
  /\ task.at = "idle" => task = NoTask
  /\ task.at # "idle" => /\ task.job \in GameJobs /\ snapshot.job = task.job
                         /\ jobFile[task.job].stage \in {"active", "done", "cancelled"}
                         /\ jobFile[task.job].stage = "active" => snapshot.running
  /\ task.at \in {"packing", "found", "missing", "finalizing"} => task.post \in GamePosts
  /\ task.at \in {"found", "finalizing"} => articles[task.post] > 0
  /\ canceller => snapshot.job \in GameJobs
SiteKept ==
  /\ \A p \in catalog : articles[p] > 0
  /\ ~LookupFails => OneArticle /\ (task.at = "missing" => articles[task.post] = 0)
WaitKept ==
  listener \in {"watching", "returned", "aborted"} =>
    post \in GamePosts /\ Item(post).job \in GameJobs
CursorsKept ==
  /\ memory.cursor <= arrived /\ disk.cursor <= arrived
  /\ MaxPosts <= Window => NoPostIsLost

GamesInv ==
  GamesTypeOK /\ RunnerKept /\ SiteKept /\ BothKept /\ WaitKept /\ CursorsKept

-----------------------------------------------------------------------------
LEMMA GamesStates ==
  \A s \in States : /\ s.scanned \in BOOLEAN /\ s.cursor \in 0..MaxPosts
                    /\ s.item \in [GamePosts -> ItemType]
BY DEF States, ItemType

(* The files a step of the runner or of its canceller writes. *)
LEMMA RunnerStepKeeps ==
  ASSUME GamesInv,
         memory' = memory, disk' = disk, spent' = spent,
         articles' \in [GamePosts -> Nat], jobFile' \in [GameJobs -> FileType],
         task' \in TaskType, asked' \in BOOLEAN,
         \A p \in GamePosts : articles[p] > 0 => articles'[p] > 0,
         \A j \in GameJobs : WorksOn(task', j) => WorksOn(task, j) /\ task'.post = task.post,
         \A j \in GameJobs : 
            Published(jobFile'[j]) =>
              \/ Published(jobFile[j])
              \/ (WorksOn(task, j) /\ task.post \in GamePosts /\ articles'[task.post] > 0),
         \A j \in GameJobs :
            \/ jobFile'[j].stage \in Concluded
            \/ (WorksOn(task', j) /\ ~asked')
            \/ (jobFile[j].stage \notin Concluded /\ ~(WorksOn(task, j) /\ ~asked))
            \/ (WorksOn(task, j) /\ task.post \notin GamePosts)
  PROVE  BothKept'
<1>1. ASSUME NEW s \in States, ItemsKept(s, articles, jobFile, task, asked, spent)
      PROVE  ItemsKept(s, articles', jobFile', task', asked', spent')
  <2>. SUFFICES ASSUME NEW p \in GamePosts
                PROVE  ItemKept(p, s.item[p], articles', jobFile', task', asked', spent')
    BY DEF ItemsKept
  <2>. DEFINE it == s.item[p]
  <2>1. it \in ItemType /\ (it.job # NoJob => it.job \in GameJobs)
    BY <1>1, GamesStates, GamesAssumption DEF ItemType, GameJobs, NoJob
  <2>2. ItemKept(p, it, articles, jobFile, task, asked, spent)
    BY <1>1 DEF ItemsKept
  <2>3. /\ articles \in [GamePosts -> Nat] /\ jobFile \in [GameJobs -> FileType]
        /\ task \in TaskType /\ asked \in BOOLEAN /\ spent \in Nat
    BY DEF GamesInv, GamesTypeOK, FileType, TaskType
  <2>. HIDE DEF it
  <2>4. it.job # NoJob => (WorksOn(task, it.job) => p = task.post)
    BY <2>2 DEF ItemKept
  <2>5. it.job # NoJob => (Published(jobFile'[it.job]) => Published(jobFile[it.job]) \/ articles'[p] > 0)
    BY <2>1, <2>4
  <2>6. it.job # NoJob => (WorksOn(task', it.job) => p = task'.post)
    BY <2>1, <2>4
  <2>7. TriedAgain(it, jobFile', task', asked') => TriedAgain(it, jobFile, task, asked)
    BY <2>1, <2>4 DEF TriedAgain
  <2>8. spent' \in Nat /\ spent <= spent' /\ (articles[p] > 0 => articles'[p] > 0)
    BY <2>3
  <2>9. ItemKept(p, it, articles', jobFile', task', asked', spent')
    BY <2>1, <2>2, <2>5, <2>6, <2>7, <2>8 DEF ItemKept
  <2>. QED
    BY <2>9 DEF it
<1>. QED
  BY <1>1 DEF GamesInv, GamesTypeOK, BothKept

LEMMA ScanStays ==
  ASSUME GamesInv, memory' = memory, disk' = disk, skipped' = skipped,
         arrived' \in Nat, arrived <= arrived', post' = post,
         listener' \in {"watching", "returned", "aborted"} =>
           listener \in {"watching", "returned", "aborted"}
  PROVE  WaitKept' /\ CursorsKept'
<1>1. WaitKept'
  BY DEF GamesInv, WaitKept, Item
<1>2. NoPostIsLost => NoPostIsLost'
  BY DEF NoPostIsLost
<1>3. memory.cursor \in Nat /\ disk.cursor \in Nat /\ arrived \in Nat
  BY GamesStates, GamesAssumption DEF GamesInv, GamesTypeOK
<1>. QED
  BY <1>1, <1>2, <1>3 DEF GamesInv, CursorsKept

LEMMA RunnerTypes ==
  ASSUME GamesInv
  PROVE  /\ articles \in [GamePosts -> Nat] /\ jobFile \in [GameJobs -> FileType]
         /\ task \in TaskType /\ asked \in BOOLEAN /\ spent \in Nat
         /\ snapshot \in [job : 0..MaxJobs, running : BOOLEAN]
BY DEF GamesInv, GamesTypeOK, FileType, TaskType

LEMMA TouchKeeps ==
  ASSUME GamesInv, task.at # "idle", NEW f \in FileType, Touch(f)
  PROVE  /\ task.job \in GameJobs
         /\ jobFile' \in [GameJobs -> FileType] /\ jobFile'[task.job] = f
         /\ \A j \in GameJobs \ {task.job} : jobFile'[j] = jobFile[j]
         /\ snapshot' = [job |-> task.job, running |-> f.stage = "active"]
         /\ snapshot' \in [job : 0..MaxJobs, running : BOOLEAN]
<1>1. task.job \in GameJobs /\ task.job \in 0..MaxJobs
  BY RunnerTypes DEF GamesInv, RunnerKept, TaskType
<1>2. jobFile \in [GameJobs -> FileType]
  BY RunnerTypes
<1>. QED
  BY <1>1, <1>2 DEF Touch

(* The end of a task. *)
LEMMA EndTaskKeeps ==
  ASSUME GamesInv, task.at # "idle", NEW s \in EndStages, NEW how \in {"returned", "aborted"},
         EndTask(s, how)
  PROVE  /\ task.job \in GameJobs
         /\ jobFile' \in [GameJobs -> FileType]
         /\ jobFile'[task.job].stage = s /\ jobFile'[task.job].wp = jobFile[task.job].wp
         /\ \A j \in GameJobs \ {task.job} : jobFile'[j] = jobFile[j]
         /\ task' = NoTask /\ task' \in TaskType /\ asked' = FALSE
         /\ snapshot'.job = task.job
         /\ snapshot' \in [job : 0..MaxJobs, running : BOOLEAN]
         /\ listener' \in {listener, how}
         /\ listener' # listener => listener = "watching"
<1>1. jobFile \in [GameJobs -> FileType] /\ task.job \in GameJobs
  BY RunnerTypes DEF GamesInv, RunnerKept
<1>2. Ended(s) \in FileType /\ Ended(s).stage = s /\ Ended(s).wp = jobFile[task.job].wp
  BY <1>1 DEF Ended, File, FileType
<1>3. Touch(Ended(s))
  BY DEF EndTask
<1>4. /\ jobFile' \in [GameJobs -> FileType] /\ jobFile'[task.job] = Ended(s)
      /\ \A j \in GameJobs \ {task.job} : jobFile'[j] = jobFile[j]
      /\ snapshot'.job = task.job
      /\ snapshot' \in [job : 0..MaxJobs, running : BOOLEAN]
  BY <1>2, <1>3, TouchKeeps
<1>5. task' = NoTask /\ task' \in TaskType /\ asked' = FALSE
  BY GamesAssumption DEF EndTask, NoTask, TaskType, NoJob
<1>. QED
  BY <1>1, <1>2, <1>4, <1>5 DEF EndTask, Wakes

LEMMA EndTaskKeepsInv ==
  ASSUME GamesInv, task.at # "idle", NEW s \in EndStages, NEW how \in {"returned", "aborted"},
         EndTask(s, how), s = "ready" => task.post = 0,
         UNCHANGED <<arrived, memory, disk, skipped, on, post, canceller, kinds, spent>>,
         articles' \in [GamePosts -> Nat], catalog' \subseteq GamePosts,
         \A p \in GamePosts : articles[p] > 0 => articles'[p] > 0,
         s = "done" => task.post \in GamePosts /\ articles'[task.post] > 0,
         (\A p \in catalog : articles[p] > 0) => \A p \in catalog' : articles'[p] > 0,
         ~LookupFails => \A p \in GamePosts : articles'[p] <= 1
  PROVE  GamesInv'
<1>1. /\ task.job \in GameJobs
      /\ jobFile' \in [GameJobs -> FileType]
      /\ jobFile'[task.job].stage = s /\ jobFile'[task.job].wp = jobFile[task.job].wp
      /\ \A j \in GameJobs \ {task.job} : jobFile'[j] = jobFile[j]
      /\ task' = NoTask /\ task' \in TaskType /\ asked' = FALSE
      /\ snapshot'.job = task.job
      /\ snapshot' \in [job : 0..MaxJobs, running : BOOLEAN]
      /\ listener' \in {listener, how}
      /\ listener' # listener => listener = "watching"
  BY EndTaskKeeps
<1>2. GamesTypeOK'
  BY <1>1 DEF GamesInv, GamesTypeOK, FileType, TaskType
<1>3. RunnerKept'
  BY <1>1 DEF GamesInv, RunnerKept, NoTask, NoJob
<1>4. SiteKept'
  BY <1>1 DEF GamesInv, SiteKept, OneArticle, NoTask
<1>5. WaitKept' /\ CursorsKept'
  <2>1. /\ arrived' \in Nat /\ arrived <= arrived'
        /\ memory' = memory /\ disk' = disk /\ skipped' = skipped /\ post' = post
    BY DEF GamesInv, GamesTypeOK
  <2>. QED
    BY <2>1, <1>1, ScanStays
<1>6. BothKept'
  <2>1. \A j \in GameJobs : ~WorksOn(task', j)
    BY <1>1 DEF WorksOn, NoTask
  <2>2. WorksOn(task, task.job)
    BY DEF WorksOn
  <2>3. \A j \in GameJobs :
          Published(jobFile'[j]) =>
            \/ Published(jobFile[j])
            \/ (WorksOn(task, j) /\ task.post \in GamePosts /\ articles'[task.post] > 0)
    BY <1>1, <2>2 DEF Published
  <2>4. \A j \in GameJobs :
            \/ jobFile'[j].stage \in Concluded
            \/ (WorksOn(task', j) /\ ~asked')
            \/ (jobFile[j].stage \notin Concluded /\ ~(WorksOn(task, j) /\ ~asked))
            \/ (WorksOn(task, j) /\ task.post \notin GamePosts)
    <3>. SUFFICES ASSUME NEW j \in GameJobs, jobFile'[j].stage \notin Concluded
                  PROVE  \/ (jobFile[j].stage \notin Concluded /\ ~(WorksOn(task, j) /\ ~asked))
                         \/ (WorksOn(task, j) /\ task.post \notin GamePosts)
      OBVIOUS
    <3>1. CASE j = task.job
      BY <3>1, <1>1, <2>2, GamesAssumption DEF EndStages, Concluded, GamePosts
    <3>2. CASE j # task.job
      BY <3>2, <1>1 DEF WorksOn
    <3>. QED
      BY <3>1, <3>2
  <2>5. memory' = memory /\ disk' = disk /\ spent' = spent /\ asked' \in BOOLEAN
    BY <1>1
  <2>. QED
    BY <1>1, <2>1, <2>3, <2>4, <2>5, RunnerStepKeeps
<1>. QED
  BY <1>2, <1>3, <1>4, <1>5, <1>6 DEF GamesInv

(* A task that goes on. *)
LEMMA GoesKeepsInv ==
  ASSUME GamesInv, task.at # "idle", ~asked,
         NEW at \in {"pulling", "packing", "found", "missing", "finalizing"}, Goes(at),
         NEW wp \in BOOLEAN, Touch(Active(wp)) \/ UNCHANGED <<jobFile, snapshot>>,
         UNCHANGED <<arrived, memory, disk, skipped, on, post, canceller, kinds, spent, catalog>>,
         articles' \in [GamePosts -> Nat],
         \A p \in GamePosts : articles[p] > 0 => articles'[p] > 0,
         ~LookupFails => \A p \in GamePosts : articles'[p] <= 1,
         at # "pulling" => task.post \in GamePosts,
         wp \/ at \in {"found", "finalizing"} => task.post \in GamePosts /\ articles'[task.post] > 0,
         at = "missing" /\ ~LookupFails => articles'[task.post] = 0
  PROVE  GamesInv'
<1>1. /\ task.job \in GameJobs /\ task \in TaskType /\ snapshot.job = task.job
      /\ jobFile \in [GameJobs -> FileType]
      /\ snapshot \in [job : 0..MaxJobs, running : BOOLEAN]
  BY RunnerTypes DEF GamesInv, RunnerKept
<1>2. /\ task' \in TaskType /\ task'.job = task.job /\ task'.post = task.post
      /\ task'.at = at /\ asked' = FALSE /\ asked' = asked /\ listener' = listener
  <2>1. task' = [task EXCEPT !.at = at] /\ asked' = asked /\ listener' = listener
    BY DEF Goes
  <2>. QED
    BY <1>1, <2>1, RunnerTypes DEF TaskType
<1>3. /\ jobFile' \in [GameJobs -> FileType]
      /\ snapshot' \in [job : 0..MaxJobs, running : BOOLEAN] /\ snapshot'.job = task.job
      /\ \A j \in GameJobs \ {task.job} : jobFile'[j] = jobFile[j]
      /\ jobFile'[task.job].stage \in {"active", "done", "cancelled"}
      /\ jobFile'[task.job].stage = "active" => snapshot'.running
      /\ Published(jobFile'[task.job]) => Published(jobFile[task.job]) \/ wp
  <2>1. CASE Touch(Active(wp))
    <3>1. /\ Active(wp) \in FileType /\ Active(wp).stage = "active" /\ Active(wp).wp = wp
      BY DEF Active, FileType
    <3>. HIDE DEF Active
    <3>2. /\ jobFile' \in [GameJobs -> FileType] /\ jobFile'[task.job] = Active(wp)
          /\ \A j \in GameJobs \ {task.job} : jobFile'[j] = jobFile[j]
          /\ snapshot' = [job |-> task.job, running |-> Active(wp).stage = "active"]
          /\ snapshot' \in [job : 0..MaxJobs, running : BOOLEAN]
      BY <3>1, <2>1, TouchKeeps
    <3>. QED
      BY <3>1, <3>2 DEF Published
  <2>2. CASE UNCHANGED <<jobFile, snapshot>>
    BY <2>2, <1>1 DEF GamesInv, RunnerKept
  <2>. QED
    BY <2>1, <2>2
<1>4. GamesTypeOK'
  BY <1>2, <1>3 DEF GamesInv, GamesTypeOK, FileType, TaskType
<1>5. RunnerKept'
  BY <1>1, <1>2, <1>3 DEF GamesInv, RunnerKept
<1>6. SiteKept'
  <2>1. \A p \in catalog' : articles'[p] > 0
    BY DEF GamesInv, GamesTypeOK, SiteKept
  <2>. QED
    BY <2>1, <1>2 DEF SiteKept, OneArticle
<1>7. WaitKept' /\ CursorsKept'
  <2>1. /\ arrived' \in Nat /\ arrived <= arrived'
        /\ memory' = memory /\ disk' = disk /\ skipped' = skipped /\ post' = post
    BY DEF GamesInv, GamesTypeOK
  <2>. QED
    BY <2>1, <1>2, ScanStays
<1>8. BothKept'
  <2>1. \A j \in GameJobs : WorksOn(task', j) => WorksOn(task, j) /\ task'.post = task.post
    BY <1>2 DEF WorksOn
  <2>2. WorksOn(task, task.job) /\ WorksOn(task', task.job)
    BY <1>2 DEF WorksOn
  <2>3. \A j \in GameJobs :
          Published(jobFile'[j]) =>
            \/ Published(jobFile[j])
            \/ (WorksOn(task, j) /\ task.post \in GamePosts /\ articles'[task.post] > 0)
    BY <1>3, <2>2
  <2>4. \A j \in GameJobs :
            \/ jobFile'[j].stage \in Concluded
            \/ (WorksOn(task', j) /\ ~asked')
            \/ (jobFile[j].stage \notin Concluded /\ ~(WorksOn(task, j) /\ ~asked))
            \/ (WorksOn(task, j) /\ task.post \notin GamePosts)
    <3>. SUFFICES ASSUME NEW j \in GameJobs, jobFile'[j].stage \notin Concluded
                  PROVE  \/ (WorksOn(task', j) /\ ~asked')
                         \/ (jobFile[j].stage \notin Concluded /\ ~(WorksOn(task, j) /\ ~asked))
      OBVIOUS
    <3>1. CASE j = task.job
      BY <3>1, <1>2, <2>2
    <3>2. CASE j # task.job
      BY <3>2, <1>3 DEF WorksOn
    <3>. QED
      BY <3>1, <3>2
  <2>5. memory' = memory /\ disk' = disk /\ spent' = spent /\ asked' \in BOOLEAN
    BY <1>2
  <2>. QED
    BY <1>2, <1>3, <2>1, <2>3, <2>4, <2>5, RunnerStepKeeps
<1>. QED
  BY <1>4, <1>5, <1>6, <1>7, <1>8 DEF GamesInv

-----------------------------------------------------------------------------
LEMMA PullsKeeps == GamesInv /\ Pulls => GamesInv'
<1>. SUFFICES ASSUME GamesInv, Pulls PROVE GamesInv'
  OBVIOUS
<1>1. /\ task.at = "created" /\ task.at # "idle" /\ ~asked
      /\ Goes("pulling") /\ Touch(Active(FALSE))
      /\ UNCHANGED <<arrived, memory, disk, skipped, on, post, canceller, kinds, spent, catalog, articles>>
  BY DEF Pulls, RunnerStep, siteVars
<1>2. /\ articles' \in [GamePosts -> Nat]
      /\ \A p \in GamePosts : articles[p] > 0 => articles'[p] > 0
      /\ ~LookupFails => \A p \in GamePosts : articles'[p] <= 1
  BY <1>1, RunnerTypes DEF GamesInv, SiteKept, OneArticle
<1>. QED
  BY <1>1, <1>2, GoesKeepsInv

(* Whatever the site answers, an article that was there is there. *)
LEMMA SameSite ==
  ASSUME GamesInv, articles' = articles, catalog' = catalog
  PROVE  /\ articles' \in [GamePosts -> Nat] /\ catalog' \subseteq GamePosts
         /\ \A p \in GamePosts : articles[p] > 0 => articles'[p] > 0
         /\ (\A p \in catalog : articles[p] > 0) => \A p \in catalog' : articles'[p] > 0
         /\ ~LookupFails => \A p \in GamePosts : articles'[p] <= 1
BY RunnerTypes DEF GamesInv, GamesTypeOK, SiteKept, OneArticle

LEMMA PulledKeeps == GamesInv /\ Pulled => GamesInv'
<1>. SUFFICES ASSUME GamesInv, Pulled PROVE GamesInv'
  OBVIOUS
<1>1. /\ task.at = "pulling" /\ task.at # "idle" /\ ~asked
      /\ UNCHANGED <<arrived, memory, disk, skipped, on, post, canceller, kinds, spent, catalog, articles>>
  BY DEF Pulled, RunnerStep, siteVars
<1>2. CASE EndTask("failed", "returned")
  BY <1>1, <1>2, SameSite, EndTaskKeepsInv DEF EndStages
<1>3. CASE task.post = 0 /\ EndTask("ready", "returned")
  BY <1>1, <1>3, SameSite, EndTaskKeepsInv DEF EndStages
<1>4. CASE task.post # 0 /\ EndTask("skipped", "returned")
  BY <1>1, <1>4, SameSite, EndTaskKeepsInv DEF EndStages
<1>5. CASE task.post # 0 /\ Goes("packing") /\ Touch(Active(FALSE))
  <2>1. task.post \in GamePosts
    BY <1>5, RunnerTypes, GamesAssumption DEF TaskType, GamePosts
  <2>. QED
    BY <1>1, <1>5, <2>1, SameSite, GoesKeepsInv
<1>. QED
  BY <1>2, <1>3, <1>4, <1>5 DEF Pulled

LEMMA LooksUpKeeps == GamesInv /\ LooksUp => GamesInv'
<1>. SUFFICES ASSUME GamesInv, LooksUp PROVE GamesInv'
  OBVIOUS
<1>1. /\ task.at = "packing" /\ task.at # "idle" /\ ~asked
      /\ UNCHANGED <<arrived, memory, disk, skipped, on, post, canceller, kinds, spent, catalog, articles>>
  BY DEF LooksUp, RunnerStep, siteVars
<1>2. task.post \in GamePosts
  BY <1>1 DEF GamesInv, RunnerKept
<1>3. CASE EndTask("failed", "returned")
  BY <1>1, <1>3, SameSite, EndTaskKeepsInv DEF EndStages
<1>4. CASE articles[task.post] > 0 /\ Goes("found") /\ UNCHANGED <<jobFile, snapshot>>
  BY <1>1, <1>2, <1>4, SameSite, GoesKeepsInv
<1>5. CASE /\ articles[task.post] = 0 \/ LookupFails
           /\ Goes("missing") /\ UNCHANGED <<jobFile, snapshot>>
  BY <1>1, <1>2, <1>5, SameSite, GoesKeepsInv
<1>. QED
  BY <1>3, <1>4, <1>5 DEF LooksUp

LEMMA CreatedOnce ==
  ASSUME GamesInv, task.at \in {"found", "missing"}, articles' \in {articles, Created}, 
         catalog' = catalog
  PROVE  /\ task.post \in GamePosts
         /\ articles' \in [GamePosts -> Nat] /\ catalog' \subseteq GamePosts
         /\ \A p \in GamePosts : articles[p] > 0 => articles'[p] > 0
         /\ articles' = Created => articles'[task.post] > 0
         /\ (\A p \in catalog : articles[p] > 0) => \A p \in catalog' : articles'[p] > 0
         /\ ~LookupFails => \A p \in GamePosts : articles'[p] <= 1
<1>1. /\ articles \in [GamePosts -> Nat] /\ catalog \subseteq GamePosts /\ task.post \in GamePosts
      /\ ~LookupFails => \A p \in GamePosts : articles[p] <= 1
      /\ ~LookupFails /\ task.at = "missing" => articles[task.post] = 0
      /\ task.at = "found" => articles[task.post] > 0
  BY RunnerTypes DEF GamesInv, GamesTypeOK, SiteKept, OneArticle, RunnerKept
<1>2. CASE articles' = articles /\ articles # Created
  BY <1>1, <1>2
<1>3. CASE articles' = Created
  BY <1>1, <1>3 DEF Created
<1>. QED
  BY <1>2, <1>3

LEMMA PublishesKeeps == GamesInv /\ Publishes => GamesInv'
<1>. SUFFICES ASSUME GamesInv, Publishes PROVE GamesInv'
  OBVIOUS
<1>1. /\ task.at \in {"found", "missing"} /\ task.at # "idle" /\ ~asked
      /\ UNCHANGED <<arrived, memory, disk, skipped, on, post, canceller, kinds, spent, catalog>>
      /\ articles' \in {articles, Created}
  BY DEF Publishes, RunnerStep
<1>2. CASE EndTask("failed", "returned")
  BY <1>1, <1>2, CreatedOnce, EndTaskKeepsInv DEF EndStages
<1>3. CASE Goes("finalizing") /\ Touch(Active(TRUE)) /\ articles' = Created
  BY <1>1, <1>3, CreatedOnce, GoesKeepsInv
<1>. QED
  BY <1>2, <1>3 DEF Publishes

LEMMA FinalizesKeeps == GamesInv /\ Finalizes => GamesInv'
<1>. SUFFICES ASSUME GamesInv, Finalizes PROVE GamesInv'
  OBVIOUS
<1>1. /\ task.at = "finalizing" /\ task.at # "idle" /\ ~asked
      /\ UNCHANGED <<arrived, memory, disk, skipped, on, post, canceller, kinds, spent, articles>>
  BY DEF Finalizes, RunnerStep
<1>2. task.post \in GamePosts /\ articles[task.post] > 0
  BY <1>1 DEF GamesInv, RunnerKept
<1>3. CASE EndTask("failed", "returned") /\ UNCHANGED catalog
  BY <1>1, <1>3, SameSite, EndTaskKeepsInv DEF EndStages
<1>4. CASE EndTask("done", "returned") /\ catalog' = catalog \cup {task.post}
  <2>1. /\ articles' \in [GamePosts -> Nat] /\ catalog' \subseteq GamePosts
        /\ \A p \in GamePosts : articles[p] > 0 => articles'[p] > 0
        /\ (\A p \in catalog : articles[p] > 0) => \A p \in catalog' : articles'[p] > 0
        /\ ~LookupFails => \A p \in GamePosts : articles'[p] <= 1
    BY <1>1, <1>2, <1>4, RunnerTypes DEF GamesInv, GamesTypeOK, SiteKept, OneArticle
  <2>. QED
    BY <1>1, <1>2, <1>4, <2>1, EndTaskKeepsInv DEF EndStages
<1>. QED
  BY <1>3, <1>4 DEF Finalizes

LEMMA TaskCancelledKeeps == GamesInv /\ TaskCancelled => GamesInv'
<1>. SUFFICES ASSUME GamesInv, TaskCancelled PROVE GamesInv'
  OBVIOUS
<1>1. /\ task.at # "idle" /\ asked
      /\ UNCHANGED <<arrived, memory, disk, skipped, on, post, canceller, catalog, kinds, spent>>
      /\ articles' = articles \/ (task.at \in {"found", "missing"} /\ articles' = Created)
  BY DEF TaskCancelled
<1>2. /\ articles' \in [GamePosts -> Nat] /\ catalog' \subseteq GamePosts
      /\ \A p \in GamePosts : articles[p] > 0 => articles'[p] > 0
      /\ (\A p \in catalog : articles[p] > 0) => \A p \in catalog' : articles'[p] > 0
      /\ ~LookupFails => \A p \in GamePosts : articles'[p] <= 1
  BY <1>1, SameSite, CreatedOnce
<1>3. CASE /\ task.at = "created" /\ task' = NoTask /\ asked' = FALSE
           /\ listener' = Wakes("aborted") /\ UNCHANGED <<jobFile, snapshot>>
  <2>1. task' \in TaskType /\ listener' \in {listener, "aborted"}
        /\ (listener' # listener => listener = "watching")
    BY <1>3, GamesAssumption DEF NoTask, TaskType, NoJob, Wakes
  <2>2. GamesTypeOK'
    BY <1>1, <1>2, <1>3, <2>1 DEF GamesInv, GamesTypeOK, TaskType
  <2>3. RunnerKept'
    BY <1>1, <1>3 DEF GamesInv, RunnerKept, NoTask
  <2>4. SiteKept'
    BY <1>2, <1>3 DEF GamesInv, SiteKept, OneArticle, NoTask
  <2>5. WaitKept' /\ CursorsKept'
    <3>1. /\ arrived' \in Nat /\ arrived <= arrived'
          /\ memory' = memory /\ disk' = disk /\ skipped' = skipped /\ post' = post
      BY <1>1 DEF GamesInv, GamesTypeOK
    <3>. QED
      BY <2>1, <3>1, ScanStays
  <2>6. BothKept'
    <3>1. \A j \in GameJobs : ~WorksOn(task', j)
      BY <1>3 DEF WorksOn, NoTask
    <3>2. jobFile' = jobFile /\ jobFile' \in [GameJobs -> FileType] /\ asked' \in BOOLEAN
          /\ memory' = memory /\ disk' = disk /\ spent' = spent
      BY <1>1, <1>3, RunnerTypes
    <3>. QED
      BY <1>1, <1>2, <2>1, <3>1, <3>2, RunnerStepKeeps
  <2>. QED
    BY <2>2, <2>3, <2>4, <2>5, <2>6 DEF GamesInv
<1>4. CASE task.at # "created" /\ EndTask("cancelled", "aborted")
  BY <1>1, <1>2, <1>4, EndTaskKeepsInv DEF EndStages
<1>. QED
  BY <1>3, <1>4 DEF TaskCancelled

LEMMA CancelReturnsKeeps == GamesInv /\ CancelReturns => GamesInv'
<1>. SUFFICES ASSUME GamesInv, CancelReturns PROVE GamesInv'
  OBVIOUS
<1>1. /\ canceller /\ canceller' = FALSE /\ (task.at = "idle" \/ ~asked)
      /\ snapshot' = [snapshot EXCEPT !.running = FALSE]
      /\ UNCHANGED <<arrived, memory, disk, skipped, on, listener, post, task, asked, kinds, spent>>
      /\ articles' = articles /\ catalog' = catalog
  BY DEF CancelReturns, siteVars
<1>2. snapshot.job \in GameJobs /\ jobFile \in [GameJobs -> FileType]
      /\ snapshot \in [job : 0..MaxJobs, running : BOOLEAN]
  BY <1>1, RunnerTypes DEF GamesInv, RunnerKept
<1>3. /\ snapshot' \in [job : 0..MaxJobs, running : BOOLEAN] /\ snapshot'.job = snapshot.job
      /\ jobFile' \in [GameJobs -> FileType]
      /\ jobFile'[snapshot.job].stage \in {"done", "cancelled"}
      /\ jobFile'[snapshot.job].wp = jobFile[snapshot.job].wp
      /\ jobFile'[snapshot.job].stage = "done" => jobFile[snapshot.job].stage = "done"
      /\ \A j \in GameJobs \ {snapshot.job} : jobFile'[j] = jobFile[j]
  <2>1. snapshot' \in [job : 0..MaxJobs, running : BOOLEAN] /\ snapshot'.job = snapshot.job
    BY <1>1, <1>2
  <2>2. CASE jobFile[snapshot.job].stage \in {"done", "cancelled"}
    BY <1>2, <2>1, <2>2 DEF CancelReturns
  <2>3. CASE jobFile[snapshot.job].stage \notin {"done", "cancelled"}
    <3>1. jobFile' = [jobFile EXCEPT ![snapshot.job].stage = "cancelled"]
      BY <2>3 DEF CancelReturns
    <3>2. [jobFile[snapshot.job] EXCEPT !.stage = "cancelled"] \in FileType
      BY <1>2 DEF FileType, EndStages
    <3>. QED
      BY <1>2, <2>1, <3>1, <3>2 DEF FileType
  <2>. QED
    BY <2>2, <2>3
<1>4. GamesTypeOK'
  BY <1>1, <1>3 DEF GamesInv, GamesTypeOK, FileType
<1>5. RunnerKept'
  BY <1>1, <1>2, <1>3 DEF GamesInv, RunnerKept
<1>6. SiteKept'
  BY <1>1 DEF GamesInv, SiteKept, OneArticle
<1>7. WaitKept' /\ CursorsKept'
  <2>1. /\ arrived' \in Nat /\ arrived <= arrived' /\ listener' = listener
        /\ memory' = memory /\ disk' = disk /\ skipped' = skipped /\ post' = post
    BY <1>1 DEF GamesInv, GamesTypeOK
  <2>. QED
    BY <2>1, ScanStays
<1>8. BothKept'
  <2>1. task' = task /\ asked' = asked /\ articles' = articles
        /\ memory' = memory /\ disk' = disk /\ spent' = spent
    BY <1>1
  <2>2. \A j \in GameJobs : Published(jobFile'[j]) => Published(jobFile[j])
    BY <1>3 DEF Published
  <2>3. \A j \in GameJobs : jobFile'[j].stage \in Concluded \/ jobFile'[j] = jobFile[j]
    BY <1>3 DEF Concluded
  <2>4. \A j \in GameJobs :
            \/ jobFile'[j].stage \in Concluded
            \/ (WorksOn(task', j) /\ ~asked')
            \/ (jobFile[j].stage \notin Concluded /\ ~(WorksOn(task, j) /\ ~asked))
            \/ (WorksOn(task, j) /\ task.post \notin GamePosts)
    BY <2>1, <2>3
  <2>. QED
    BY <1>3, <2>1, <2>2, <2>4, RunnerTypes, RunnerStepKeeps
<1>. QED
  BY <1>4, <1>5, <1>6, <1>7, <1>8 DEF GamesInv

LEMMA ArrivesKeeps == GamesInv /\ Arrives => GamesInv'
<1>. SUFFICES ASSUME GamesInv, Arrives PROVE GamesInv'
  OBVIOUS
<1>1. /\ arrived < MaxPosts /\ arrived' = arrived + 1 /\ arrived \in Nat
      /\ UNCHANGED <<memory, disk, skipped, on, listener, post, jobFile, task, asked,
                     snapshot, canceller, articles, catalog, kinds, spent>>
  BY DEF Arrives, runnerVars, siteVars, GamesInv, GamesTypeOK
<1>2. GamesTypeOK'
  BY <1>1, GamesAssumption DEF GamesInv, GamesTypeOK
<1>3. RunnerKept' /\ SiteKept' /\ BothKept'
  BY <1>1 DEF GamesInv, RunnerKept, SiteKept, OneArticle, BothKept
<1>4. WaitKept' /\ CursorsKept'
  BY <1>1, ScanStays
<1>. QED
  BY <1>2, <1>3, <1>4 DEF GamesInv

-----------------------------------------------------------------------------
(* After a disturbance every item may be tried once more. *)
LEMMA UpsetKeeps ==
  ASSUME GamesInv, spent' = spent + 1, articles' = articles,
         jobFile' \in [GameJobs -> FileType],
         \A j \in GameJobs : Published(jobFile'[j]) => Published(jobFile[j]),
         NEW s \in {memory, disk},
         \A p \in GamePosts, j \in GameJobs :
           WorksOn(task', j) /\ s.item[p].job = j => WorksOn(task, j) /\ task'.post = task.post
  PROVE  \A p \in GamePosts :
           /\ s.item[p] \in ItemType /\ s.item[p].attempts < RetryLimit + spent'
           /\ ItemKept(p, s.item[p], articles', jobFile', task', asked', spent')
<1>. TAKE p \in GamePosts
<1>. DEFINE it == s.item[p]
<1>1. it \in ItemType /\ it.attempts \in Nat /\ (it.job # NoJob => it.job \in GameJobs)
  BY GamesStates, GamesAssumption DEF ItemType, GameJobs, NoJob, GamesInv, GamesTypeOK
<1>2. ItemKept(p, it, articles, jobFile, task, asked, spent)
  BY DEF GamesInv, BothKept, ItemsKept
<1>3. \A j \in GameJobs : WorksOn(task', j) /\ it.job = j => WorksOn(task, j) /\ task'.post = task.post
  OBVIOUS
<1>. HIDE DEF it
<1>4. it.attempts < RetryLimit + spent'
  BY <1>1, <1>2, RunnerTypes, GamesAssumption DEF ItemKept
<1>5. ItemKept(p, it, articles', jobFile', task', asked', spent')
  BY <1>1, <1>2, <1>3, <1>4, RunnerTypes, GamesAssumption DEF ItemKept
<1>. QED
  BY <1>1, <1>4, <1>5 DEF it

LEMMA CursorsStay ==
  ASSUME GamesInv, skipped' = skipped, arrived' = arrived,
         NEW m \in {memory, disk}, NEW d \in {memory, disk},
         memory'.cursor = m.cursor, disk'.cursor = d.cursor,
         \A p \in GamePosts : memory'.item[p].status = "none" => m.item[p].status = "none",
         \A p \in GamePosts : disk'.item[p].status = "none" => d.item[p].status = "none"
  PROVE  CursorsKept'
<1>1. memory.cursor \in 0..MaxPosts /\ disk.cursor \in 0..MaxPosts
  BY GamesStates DEF GamesInv, GamesTypeOK
<1>2. \A p \in 1..m.cursor : p \in GamePosts
  BY <1>1, GamesAssumption DEF GamePosts
<1>3. \A p \in 1..d.cursor : p \in GamePosts
  BY <1>1, GamesAssumption DEF GamePosts
<1>4. NoPostIsLost => NoPostIsLost'
  <2>. SUFFICES ASSUME NoPostIsLost PROVE NoPostIsLost'
    OBVIOUS
  <2>1. \A p \in 1..memory'.cursor : memory'.item[p].status # "none" \/ p \in skipped'
    BY <1>2 DEF NoPostIsLost
  <2>2. \A p \in 1..disk'.cursor : disk'.item[p].status # "none" \/ p \in skipped'
    BY <1>3 DEF NoPostIsLost
  <2>. QED
    BY <2>1, <2>2 DEF NoPostIsLost
<1>. QED
  BY <1>4 DEF GamesInv, CursorsKept

LEMMA CancelKeeps == GamesInv /\ Cancel => GamesInv'
<1>. SUFFICES ASSUME GamesInv, Cancel PROVE GamesInv'
  OBVIOUS
<1>1. /\ spent < MaxDisturbances /\ spent' = spent + 1 /\ kinds' = kinds
      /\ task.at # "idle" /\ asked' = TRUE /\ canceller' = TRUE
      /\ UNCHANGED <<arrived, memory, disk, skipped, on, listener, post, jobFile, task,
                     snapshot, articles, catalog>>
  BY DEF Cancel, Disturb, siteVars
<1>2. GamesTypeOK'
  BY <1>1, GamesAssumption DEF GamesInv, GamesTypeOK
<1>3. RunnerKept' /\ SiteKept'
  BY <1>1 DEF GamesInv, RunnerKept, SiteKept, OneArticle
<1>4. WaitKept' /\ CursorsKept'
  <2>1. arrived' \in Nat /\ arrived <= arrived'
    BY <1>1 DEF GamesInv, GamesTypeOK
  <2>. QED
    BY <1>1, <2>1, ScanStays
<1>5. BothKept'
  <2>1. jobFile' \in [GameJobs -> FileType]
    BY <1>1, RunnerTypes
  <2>2. \A s \in {memory, disk}, p \in GamePosts :
          ItemKept(p, s.item[p], articles', jobFile', task', asked', spent')
    BY <1>1, <2>1, UpsetKeeps
  <2>. QED
    BY <1>1, <2>2 DEF BothKept, ItemsKept
<1>. QED
  BY <1>2, <1>3, <1>4, <1>5 DEF GamesInv

(* A new job has a file no item refers to. *)
LEMMA BeginsJobKeeps ==
  ASSUME GamesInv, NEW j \in GameJobs, NEW p \in 0..MaxPosts, BeginsJob(j, p)
  PROVE  /\ jobFile' \in [GameJobs -> FileType]
         /\ jobFile'[j].stage = "active" /\ ~jobFile'[j].wp
         /\ \A k \in GameJobs \ {j} : jobFile'[k] = jobFile[k]
         /\ task' \in TaskType /\ task' = [job |-> j, post |-> p, at |-> "created"]
         /\ asked' = FALSE /\ snapshot' = [job |-> j, running |-> TRUE]
         /\ snapshot' \in [job : 0..MaxJobs, running : BOOLEAN]
         /\ \A s \in {memory, disk}, q \in GamePosts : s.item[q].job # j
<1>1. j \in 0..MaxJobs /\ jobFile \in [GameJobs -> FileType]
  BY RunnerTypes, GamesAssumption DEF GameJobs
<1>2. ~Referenced(j) /\ jobFile' = [jobFile EXCEPT ![j] = [stage |-> "active", wp |-> FALSE]]
      /\ task' = [job |-> j, post |-> p, at |-> "created"]
      /\ asked' = FALSE /\ snapshot' = [job |-> j, running |-> TRUE]
  BY DEF BeginsJob
<1>3. [stage |-> "active", wp |-> FALSE] \in FileType
  BY DEF FileType
<1>4. \A s \in {memory, disk}, q \in GamePosts : s.item[q].job # j
  BY <1>2 DEF Referenced
<1>. QED
  BY <1>1, <1>2, <1>3, <1>4 DEF TaskType

LEMMA PullKeeps == GamesInv /\ Pull => GamesInv'
<1>. SUFFICES ASSUME GamesInv, Pull PROVE GamesInv'
  OBVIOUS
<1>1. /\ spent < MaxDisturbances /\ spent' = spent + 1 /\ kinds' = kinds /\ task.at = "idle"
      /\ UNCHANGED <<arrived, memory, disk, skipped, on, listener, post, canceller,
                     articles, catalog>>
  BY DEF Pull, Disturb, siteVars
<1>2. PICK j \in GameJobs : BeginsJob(j, 0)
  BY DEF Pull
<1>3. /\ jobFile' \in [GameJobs -> FileType]
      /\ jobFile'[j].stage = "active" /\ ~jobFile'[j].wp
      /\ \A k \in GameJobs \ {j} : jobFile'[k] = jobFile[k]
      /\ task' \in TaskType /\ task' = [job |-> j, post |-> 0, at |-> "created"]
      /\ asked' = FALSE /\ snapshot' = [job |-> j, running |-> TRUE]
      /\ snapshot' \in [job : 0..MaxJobs, running : BOOLEAN]
      /\ \A s \in {memory, disk}, q \in GamePosts : s.item[q].job # j
  <2>1. 0 \in 0..MaxPosts
    BY GamesAssumption
  <2>. QED
    BY <1>2, <2>1, BeginsJobKeeps
<1>4. GamesTypeOK'
  <2>1. spent' \in 0..MaxDisturbances
    BY <1>1, GamesAssumption DEF GamesInv, GamesTypeOK
  <2>2. /\ jobFile' \in [GameJobs -> FileType] /\ task' \in TaskType /\ asked' \in BOOLEAN
        /\ snapshot' \in [job : 0..MaxJobs, running : BOOLEAN]
    BY <1>3
  <2>. QED
    BY <1>1, <2>1, <2>2 DEF GamesInv, GamesTypeOK, FileType, TaskType
<1>5. RunnerKept' /\ SiteKept'
  BY <1>1, <1>3 DEF GamesInv, RunnerKept, SiteKept, OneArticle
<1>6. WaitKept' /\ CursorsKept'
  <2>1. arrived' \in Nat /\ arrived <= arrived'
    BY <1>1 DEF GamesInv, GamesTypeOK
  <2>. QED
    BY <1>1, <2>1, ScanStays
<1>7. BothKept'
  <2>1. \A k \in GameJobs : Published(jobFile'[k]) => Published(jobFile[k])
    BY <1>3 DEF Published
  <2>2. \A s \in {memory, disk}, q \in GamePosts, k \in GameJobs :
          ~(WorksOn(task', k) /\ s.item[q].job = k)
    BY <1>3 DEF WorksOn
  <2>3. \A s \in {memory, disk}, q \in GamePosts :
          ItemKept(q, s.item[q], articles', jobFile', task', asked', spent')
    BY <1>1, <1>3, <2>1, <2>2, UpsetKeeps
  <2>. QED
    BY <1>1, <2>3 DEF BothKept, ItemsKept
<1>. QED
  BY <1>4, <1>5, <1>6, <1>7 DEF GamesInv

(* The listener is started again on what one of the files says. *)
LEMMA RestartsKeeps ==
  ASSUME GamesInv, NEW enabled \in BOOLEAN, Restarts(enabled),
         spent' = spent + 1, spent < MaxDisturbances,
         UNCHANGED <<arrived, skipped, articles, kinds>>,
         jobFile' \in [GameJobs -> FileType],
         task' \in TaskType, asked' \in BOOLEAN, canceller' \in BOOLEAN,
         snapshot' \in [job : 0..MaxJobs, running : BOOLEAN],
         catalog' \subseteq GamePosts, \A p \in catalog' : articles[p] > 0,
         task' = task \/ task' = NoTask, RunnerKept',
         \A j \in GameJobs : Published(jobFile'[j]) => Published(jobFile[j]),
         NEW s \in {memory, disk}, disk' \in States, disk'.cursor = s.cursor,
         \A p \in GamePosts : disk'.item[p].status = "none" => s.item[p].status = "none",
         \A p \in GamePosts :
           ItemKept(p, s.item[p], articles', jobFile', task', asked', spent') =>
             ItemKept(p, disk'.item[p], articles', jobFile', task', asked', spent')
  PROVE  GamesInv'
<1>1. memory' = disk' /\ on' = enabled /\ post' = 0 /\ listener' \in {"resting", "off"}
  BY DEF Restarts
<1>2. GamesTypeOK'
  <2>1. spent' \in 0..MaxDisturbances /\ post' \in 0..MaxPosts
    BY <1>1, GamesAssumption DEF GamesInv, GamesTypeOK
  <2>. QED
    BY <1>1, <2>1 DEF GamesInv, GamesTypeOK, FileType, TaskType
<1>3. SiteKept'
  BY DEF GamesInv, SiteKept, OneArticle, NoTask
<1>4. WaitKept'
  BY <1>1 DEF WaitKept
<1>5. CursorsKept'
  BY <1>1, CursorsStay
<1>6. BothKept'
  <2>1. \A p \in GamePosts, j \in GameJobs :
          WorksOn(task', j) => WorksOn(task, j) /\ task'.post = task.post
    BY DEF WorksOn, NoTask
  <2>2. \A p \in GamePosts :
          ItemKept(p, s.item[p], articles', jobFile', task', asked', spent')
    BY <2>1, UpsetKeeps
  <2>. QED
    BY <1>1, <2>2 DEF BothKept, ItemsKept
<1>. QED
  BY <1>2, <1>3, <1>4, <1>5, <1>6 DEF GamesInv

LEMMA DiesKeeps ==
  ASSUME Dies
  PROVE  /\ task' = NoTask /\ task' \in TaskType /\ asked' \in BOOLEAN /\ canceller' \in BOOLEAN
         /\ snapshot' \in [job : 0..MaxJobs, running : BOOLEAN] /\ RunnerKept'
<1>1. task' = NoTask /\ asked' = FALSE /\ canceller' = FALSE
      /\ snapshot' = [job |-> NoJob, running |-> FALSE]
  BY DEF Dies
<1>2. 0 \in 0..MaxJobs /\ 0 \in 0..MaxPosts
  BY GamesAssumption
<1>3. NoTask \in TaskType /\ NoTask.at = "idle"
  BY <1>2 DEF NoTask, NoJob, TaskType
<1>4. snapshot' \in [job : 0..MaxJobs, running : BOOLEAN]
  BY <1>1, <1>2 DEF NoJob
<1>5. RunnerKept'
  BY <1>1, <1>3 DEF RunnerKept
<1>. QED
  BY <1>1, <1>3, <1>4, <1>5

LEMMA LeavesSame ==
  ASSUME GamesInv, Leaves
  PROVE  /\ disk' \in {memory, disk} /\ disk' \in States
BY DEF Leaves, GamesInv, GamesTypeOK

LEMMA ReloadKeeps == GamesInv /\ Reload => GamesInv'
<1>. SUFFICES ASSUME GamesInv, Reload PROVE GamesInv'
  OBVIOUS
<1>1. /\ spent < MaxDisturbances /\ spent' = spent + 1 /\ Leaves
      /\ UNCHANGED <<arrived, skipped, kinds, jobFile, task, asked, snapshot, canceller,
                     articles, catalog>>
  BY DEF Reload, Disturb, runnerVars, siteVars
<1>2. PICK enabled \in BOOLEAN : Restarts(enabled)
  BY DEF Reload
<1>3. RunnerKept'
  BY <1>1 DEF GamesInv, RunnerKept
<1>4. /\ jobFile' \in [GameJobs -> FileType] /\ canceller' \in BOOLEAN
      /\ task' \in TaskType /\ asked' \in BOOLEAN
      /\ snapshot' \in [job : 0..MaxJobs, running : BOOLEAN]
      /\ catalog' \subseteq GamePosts /\ \A p \in catalog' : articles[p] > 0
  BY <1>1, RunnerTypes DEF GamesInv, GamesTypeOK, SiteKept
<1>5. disk' \in {memory, disk} /\ disk' \in States
  BY <1>1, LeavesSame
<1>. QED
  BY <1>1, <1>2, <1>3, <1>4, <1>5, RestartsKeeps

LEMMA ShutdownKeeps == GamesInv /\ Shutdown => GamesInv'
<1>. SUFFICES ASSUME GamesInv, Shutdown PROVE GamesInv'
  OBVIOUS
<1>1. /\ spent < MaxDisturbances /\ spent' = spent + 1 /\ Leaves /\ Dies /\ Restarts(on)
      /\ UNCHANGED <<arrived, skipped, kinds, articles, catalog>>
  BY DEF Shutdown, Disturb, siteVars
<1>2. /\ jobFile' \in [GameJobs -> FileType]
      /\ \A j \in GameJobs : Published(jobFile'[j]) => Published(jobFile[j])
  <2>1. CASE task.at = "idle"
    BY <2>1, RunnerTypes DEF Shutdown
  <2>2. CASE task.at # "idle"
    <3>1. task.job \in GameJobs
      BY <2>2 DEF GamesInv, RunnerKept
    <3>2. [jobFile[task.job] EXCEPT !.stage = "cancelled"] \in FileType
      BY <3>1, RunnerTypes DEF FileType, EndStages
    <3>3. jobFile' = [jobFile EXCEPT ![task.job] = [jobFile[task.job] EXCEPT !.stage = "cancelled"]]
      BY <2>2, <3>1 DEF Shutdown
    <3>4. jobFile' \in [GameJobs -> FileType]
      BY <3>1, <3>2, <3>3, RunnerTypes
    <3>5. jobFile'[task.job].wp = jobFile[task.job].wp /\ jobFile'[task.job].stage = "cancelled"
      BY <3>1, <3>3, RunnerTypes DEF FileType
    <3>. QED
      BY <3>1, <3>3, <3>4, <3>5, RunnerTypes DEF Published
  <2>. QED
    BY <2>1, <2>2
<1>3. /\ catalog' \subseteq GamePosts /\ (\A p \in catalog' : articles[p] > 0) /\ on \in BOOLEAN
  BY <1>1 DEF GamesInv, GamesTypeOK, SiteKept
<1>4. disk' \in {memory, disk} /\ disk' \in States
  BY <1>1, LeavesSame
<1>. QED
  BY <1>1, <1>2, <1>3, <1>4, DiesKeeps, RestartsKeeps

LEMMA WithItem ==
  ASSUME GamesInv, NEW p \in GamePosts, NEW it \in ItemType
  PROVE  /\ With(p, it) \in States /\ With(p, it).cursor = memory.cursor
         /\ With(p, it).item[p] = it
         /\ \A q \in GamePosts \ {p} : With(p, it).item[q] = Item(q)
<1>1. memory \in States /\ memory.item \in [GamePosts -> ItemType]
  BY GamesStates DEF GamesInv, GamesTypeOK
<1>2. With(p, it) = [memory EXCEPT !.item = [memory.item EXCEPT ![p] = it]]
  BY <1>1 DEF With, States
<1>3. [memory.item EXCEPT ![p] = it] \in [GamePosts -> ItemType]
  BY <1>1
<1>4. With(p, it) \in States /\ With(p, it).cursor = memory.cursor
      /\ With(p, it).item = [memory.item EXCEPT ![p] = it]
  BY <1>1, <1>2, <1>3 DEF States, ItemType
<1>. QED
  BY <1>1, <1>4 DEF Item

LEMMA CrashKeeps == GamesInv /\ Crash => GamesInv'
<1>. SUFFICES ASSUME GamesInv, Crash PROVE GamesInv'
  OBVIOUS
<1>1. /\ spent < MaxDisturbances /\ spent' = spent + 1 /\ Dies /\ Restarts(on)
      /\ UNCHANGED <<arrived, skipped, kinds, articles>> /\ on \in BOOLEAN
  BY DEF Crash, Disturb, GamesInv, GamesTypeOK
<1>2. catalog' \subseteq GamePosts /\ \A p \in catalog' : articles[p] > 0
  <2>1. catalog' = catalog \/ (task.at = "finalizing" /\ catalog' = catalog \cup {task.post})
    BY DEF Crash
  <2>. QED
    BY <2>1 DEF GamesInv, GamesTypeOK, SiteKept, RunnerKept
<1>3. CASE UNCHANGED <<jobFile, disk>>
  <2>1. /\ jobFile' \in [GameJobs -> FileType] /\ disk' = disk /\ disk' \in States
        /\ \A j \in GameJobs : Published(jobFile'[j]) => Published(jobFile[j])
    BY <1>3, RunnerTypes DEF GamesInv, GamesTypeOK
  <2>. QED
    BY <1>1, <1>2, <2>1, DiesKeeps, RestartsKeeps
<1>4. CASE /\ task.at # "idle" /\ jobFile' = [jobFile EXCEPT ![task.job] = NoFile]
           /\ UNCHANGED disk
  <2>1. disk' = disk /\ disk' \in States
    BY <1>4 DEF GamesInv, GamesTypeOK
  <2>2. /\ jobFile' \in [GameJobs -> FileType]
        /\ \A j \in GameJobs : Published(jobFile'[j]) => Published(jobFile[j])
    <3>1. task.job \in GameJobs /\ NoFile \in FileType /\ ~Published(NoFile)
      BY <1>4 DEF GamesInv, RunnerKept, NoFile, FileType, Published
    <3>. QED
      BY <1>4, <3>1, RunnerTypes
  <2>. QED
    BY <1>1, <1>2, <2>1, <2>2, DiesKeeps, RestartsKeeps
<1>5. ASSUME NEW p \in GamePosts, First(p), disk' = With(p, Tried(p)), UNCHANGED jobFile
      PROVE  GamesInv'
  <2>1. /\ Item(p) \in ItemType
        /\ ItemKept(p, Item(p), articles, jobFile, task, asked, spent)
    BY GamesStates DEF GamesInv, GamesTypeOK, BothKept, ItemsKept, Item
  <2>2. /\ Item(p).attempts \in Nat /\ Item(p).attempts + 1 <= RetryLimit + spent
        /\ Item(p).attempts + 1 \in 0..(RetryLimit + MaxDisturbances)
    BY <1>1, <2>1, <1>5, RunnerTypes, GamesAssumption
       DEF ItemType, ItemKept, First, Candidate, TriedAgain
  <2>3. /\ Tried(p) \in ItemType /\ Tried(p).status = "processing"
        /\ Tried(p).attempts = Item(p).attempts + 1 /\ Tried(p).job = Item(p).job
    BY <2>1, <2>2 DEF Tried, ItemType, Waiting
  <2>. HIDE DEF Tried
  <2>4. /\ disk' \in States /\ disk'.cursor = memory.cursor /\ disk'.item[p] = Tried(p)
        /\ \A q \in GamePosts \ {p} : disk'.item[q] = memory.item[q]
    BY <1>5, <2>3, WithItem DEF Item
  <2>5. \A q \in GamePosts : disk'.item[q].status = "none" => memory.item[q].status = "none"
    BY <2>3, <2>4
  <2>6. ItemKept(p, Item(p), articles', jobFile', task', asked', spent') =>
          ItemKept(p, Tried(p), articles', jobFile', task', asked', spent')
    BY <1>1, <2>2, <2>3, RunnerTypes, GamesAssumption DEF ItemKept
  <2>7. \A q \in GamePosts :
          ItemKept(q, memory.item[q], articles', jobFile', task', asked', spent') =>
            ItemKept(q, disk'.item[q], articles', jobFile', task', asked', spent')
    BY <2>4, <2>6 DEF Item
  <2>8. /\ jobFile' \in [GameJobs -> FileType]
        /\ \A j \in GameJobs : Published(jobFile'[j]) => Published(jobFile[j])
    BY <1>5, RunnerTypes
  <2>. QED
    BY <1>1, <1>2, <2>4, <2>5, <2>7, <2>8, DiesKeeps, RestartsKeeps
<1>. QED
  BY <1>3, <1>4, <1>5 DEF Crash

(* retry_failed, for one item. *)
Again(it) == IF it.status \in {"failed", "exhausted"}
               THEN [it EXCEPT !.status = "pending", !.attempts = 0] ELSE it

LEMMA AgainKept ==
  ASSUME NEW p \in GamePosts, NEW it \in ItemType, NEW arts, NEW fs, NEW t, NEW a,
         NEW n \in Nat, n > 0, ItemKept(p, it, arts, fs, t, a, n)
  PROVE  /\ Again(it) \in ItemType /\ Again(it).job = it.job
         /\ Again(it).status = "none" => it.status = "none"
         /\ ItemKept(p, Again(it), arts, fs, t, a, n)
<1>1. CASE it.status \in {"failed", "exhausted"}
  <2>1. Again(it) = [status |-> "pending", attempts |-> 0, job |-> it.job]
    BY <1>1 DEF Again, ItemType
  <2>2. 0 \in 0..(RetryLimit + MaxDisturbances) /\ 0 < RetryLimit + n
    BY GamesAssumption
  <2>3. it.job \in 0..MaxJobs
    BY DEF ItemType
  <2>4. Again(it) \in ItemType
    BY <2>1, <2>2, <2>3 DEF ItemType, Waiting
  <2>5. Again(it).job = it.job /\ Again(it).status = "pending" /\ Again(it).attempts = 0
    BY <2>1
  <2>6. ItemKept(p, Again(it), arts, fs, t, a, n)
    BY <2>2, <2>5, GamesAssumption DEF ItemKept
  <2>. QED
    BY <2>4, <2>5, <2>6
<1>2. CASE it.status \notin {"failed", "exhausted"}
  BY <1>2 DEF Again
<1>. QED
  BY <1>1, <1>2

LEMMA RetryFailedKeeps == GamesInv /\ RetryFailed => GamesInv'
<1>. SUFFICES ASSUME GamesInv, RetryFailed PROVE GamesInv'
  OBVIOUS
<1>. DEFINE again(p) == Again(Item(p))
<1>0. spent' = spent + 1
  BY DEF RetryFailed, Disturb
<1>1. /\ spent < MaxDisturbances /\ spent' = spent + 1
      /\ memory' = [memory EXCEPT !.item = [p \in GamePosts |-> again(p)]] /\ disk' = memory'
      /\ UNCHANGED <<arrived, skipped, on, listener, post, kinds, jobFile, task, asked, snapshot,
                     canceller, articles, catalog>>
  BY DEF RetryFailed, Disturb, runnerVars, siteVars, Again
<1>2. memory \in States /\ memory.item \in [GamePosts -> ItemType]
  BY GamesStates DEF GamesInv, GamesTypeOK
<1>3. \A p \in GamePosts :
        /\ Item(p) \in ItemType /\ Item(p).attempts < RetryLimit + spent'
        /\ ItemKept(p, Item(p), articles', jobFile', task', asked', spent')
  <2>1. /\ jobFile' \in [GameJobs -> FileType] /\ task' = task
        /\ \A j \in GameJobs : Published(jobFile'[j]) => Published(jobFile[j])
    BY <1>1, RunnerTypes
  <2>. QED
    BY <1>1, <2>1, UpsetKeeps DEF Item
<1>4. \A p \in GamePosts :
        /\ again(p) \in ItemType /\ again(p).job = Item(p).job
        /\ again(p).status = "none" => Item(p).status = "none"
        /\ ItemKept(p, again(p), articles', jobFile', task', asked', spent')
  <2>. TAKE p \in GamePosts
  <2>1. Item(p) \in ItemType /\ ItemKept(p, Item(p), articles', jobFile', task', asked', spent')
    BY <1>3
  <2>2. RetryLimit \in Nat /\ spent' \in Nat /\ 0 < spent'
    BY <1>0, RunnerTypes, GamesAssumption
  <2>. QED
    BY <2>1, <2>2, AgainKept
<1>. HIDE DEF again
<1>5. /\ memory' \in States /\ memory'.cursor = memory.cursor
      /\ memory'.item = [p \in GamePosts |-> again(p)]
  BY <1>1, <1>2, <1>4 DEF States, ItemType
<1>6. GamesTypeOK'
  <2>1. spent' \in 0..MaxDisturbances
    BY <1>1, GamesAssumption DEF GamesInv, GamesTypeOK
  <2>. QED
    BY <1>1, <1>5, <2>1 DEF GamesInv, GamesTypeOK
<1>7. RunnerKept' /\ SiteKept'
  BY <1>1 DEF GamesInv, RunnerKept, SiteKept, OneArticle
<1>8. WaitKept'
  BY <1>1, <1>4, <1>5 DEF GamesInv, WaitKept, Item
<1>9. CursorsKept'
  <2>1. \A p \in GamePosts : memory'.item[p].status = "none" => memory.item[p].status = "none"
    BY <1>4, <1>5 DEF Item
  <2>2. disk' = memory' /\ skipped' = skipped /\ arrived' = arrived
    BY <1>1
  <2>. QED
    BY <1>5, <2>1, <2>2, CursorsStay
<1>10. BothKept'
  BY <1>1, <1>4, <1>5 DEF BothKept, ItemsKept
<1>. QED
  BY <1>6, <1>7, <1>8, <1>9, <1>10 DEF GamesInv

-----------------------------------------------------------------------------
(* The listener changes one item, and perhaps the file of a job. *)
LEMMA WithKeeps ==
  ASSUME GamesInv, NEW p \in GamePosts, NEW it \in ItemType, it.status # "none",
         memory' = With(p, it), disk' = disk \/ disk' = memory',
         skipped' = skipped, arrived' = arrived,
         \A s \in {memory, disk}, q \in GamePosts :
           ItemKept(q, s.item[q], articles, jobFile, task, asked, spent) =>
             ItemKept(q, s.item[q], articles', jobFile', task', asked', spent'),
         ItemKept(p, it, articles', jobFile', task', asked', spent')
  PROVE  memory' \in States /\ disk' \in States /\ BothKept' /\ CursorsKept'
<1>1. /\ With(p, it) \in States /\ With(p, it).cursor = memory.cursor
      /\ With(p, it).item[p] = it
      /\ \A q \in GamePosts \ {p} : With(p, it).item[q] = memory.item[q]
  BY WithItem DEF Item
<1>2. memory' \in States /\ disk' \in States
  BY <1>1 DEF GamesInv, GamesTypeOK
<1>3. BothKept'
  <2>1. ItemsKept(memory', articles', jobFile', task', asked', spent')
    BY <1>1 DEF GamesInv, BothKept, ItemsKept
  <2>2. ItemsKept(disk, articles', jobFile', task', asked', spent')
    BY DEF GamesInv, BothKept, ItemsKept
  <2>. QED
    BY <2>1, <2>2 DEF BothKept
<1>4. CursorsKept'
  <2>1. \A q \in GamePosts : memory'.item[q].status = "none" => memory.item[q].status = "none"
    BY <1>1
  <2>2. memory'.cursor = memory.cursor
    BY <1>1
  <2>3. CASE disk' = disk
    BY <2>1, <2>2, <2>3, CursorsStay
  <2>4. CASE disk' = memory'
    BY <2>1, <2>2, <2>4, CursorsStay
  <2>. QED
    BY <2>3, <2>4
<1>. QED
  BY <1>2, <1>3, <1>4

(* What the listener finds in memory. *)
LEMMA ItemInMemory ==
  ASSUME GamesInv, NEW p \in GamePosts
  PROVE  /\ Item(p) \in ItemType /\ Item(p).attempts \in Nat
         /\ Item(p).job # NoJob => Item(p).job \in GameJobs
         /\ ItemKept(p, Item(p), articles, jobFile, task, asked, spent)
<1>1. memory \in States /\ ItemsKept(memory, articles, jobFile, task, asked, spent)
  BY DEF GamesInv, GamesTypeOK, BothKept
<1>2. Item(p) \in ItemType
  BY <1>1, GamesStates DEF Item
<1>3. ItemKept(p, Item(p), articles, jobFile, task, asked, spent)
  BY <1>1 DEF ItemsKept, Item
<1>. QED
  BY <1>2, <1>3, GamesAssumption DEF ItemType, GameJobs, NoJob

LEMMA ChooseKnownKeeps ==
  ASSUME GamesInv, NEW p \in GamePosts, ChooseKnown(p) PROVE GamesInv'
<1>1. /\ listener = "choosing" /\ p \in catalog /\ memory' = With(p, Marked(p, "done"))
      /\ UNCHANGED <<arrived, disk, skipped, on, listener, post, jobFile, task, asked, snapshot,
                     canceller, articles, catalog, kinds, spent>>
  BY DEF ChooseKnown, runnerVars, siteVars
<1>2. /\ Marked(p, "done") \in ItemType /\ Marked(p, "done").status = "done"
      /\ Marked(p, "done").attempts = Item(p).attempts /\ Marked(p, "done").job = Item(p).job
  BY ItemInMemory DEF Marked, ItemType, Settled
<1>. HIDE DEF Marked
<1>3. ItemKept(p, Marked(p, "done"), articles, jobFile, task, asked, spent)
  <2>1. articles[p] > 0
    BY <1>1 DEF GamesInv, SiteKept
  <2>. QED
    BY <2>1, <1>2, ItemInMemory DEF ItemKept, TriedAgain
<1>4. memory' \in States /\ disk' \in States /\ BothKept' /\ CursorsKept'
  BY <1>1, <1>2, <1>3, WithKeeps
<1>5. GamesTypeOK'
  BY <1>1, <1>4 DEF GamesInv, GamesTypeOK
<1>6. RunnerKept' /\ SiteKept' /\ WaitKept'
  BY <1>1 DEF GamesInv, RunnerKept, SiteKept, OneArticle, WaitKept
<1>. QED
  BY <1>4, <1>5, <1>6 DEF GamesInv

LEMMA ChooseBusyKeeps ==
  ASSUME GamesInv, NEW p \in GamePosts, ChooseBusy(p) PROVE GamesInv'
<1>1. /\ First(p) /\ memory' = With(p, Marked(p, "pending")) /\ disk' = memory'
      /\ listener' = "resting"
      /\ UNCHANGED <<arrived, skipped, on, post, jobFile, task, asked, snapshot,
                     canceller, articles, catalog, kinds, spent>>
  BY DEF ChooseBusy, runnerVars, siteVars
<1>2. /\ Marked(p, "pending") \in ItemType /\ Marked(p, "pending").status = "pending"
      /\ Marked(p, "pending").attempts = Item(p).attempts /\ Marked(p, "pending").job = Item(p).job
  BY ItemInMemory DEF Marked, ItemType, Waiting
<1>. HIDE DEF Marked
<1>3. Item(p).attempts < RetryLimit + spent
  BY <1>1, ItemInMemory, RunnerTypes, GamesAssumption DEF First, Candidate, ItemKept, TriedAgain
<1>4. ItemKept(p, Marked(p, "pending"), articles, jobFile, task, asked, spent)
  BY <1>2, <1>3, ItemInMemory DEF ItemKept
<1>5. memory' \in States /\ disk' \in States /\ BothKept' /\ CursorsKept'
  BY <1>1, <1>2, <1>4, WithKeeps
<1>6. GamesTypeOK'
  BY <1>1, <1>5 DEF GamesInv, GamesTypeOK
<1>7. RunnerKept' /\ SiteKept' /\ WaitKept'
  BY <1>1 DEF GamesInv, RunnerKept, SiteKept, OneArticle, WaitKept
<1>. QED
  BY <1>5, <1>6, <1>7 DEF GamesInv

LEMMA ChooseNewKeeps ==
  ASSUME GamesInv, NEW p \in GamePosts, ChooseNew(p) PROVE GamesInv'
<1>1. /\ First(p) /\ task.at = "idle" /\ disk' = memory' /\ listener' = "watching" /\ post' = p
      /\ UNCHANGED <<arrived, skipped, on, canceller, articles, catalog, kinds, spent>>
  BY DEF ChooseNew, siteVars
<1>2. PICK j \in GameJobs : BeginsJob(j, p) /\ memory' = With(p, [Tried(p) EXCEPT !.job = j])
  BY DEF ChooseNew
<1>3. p \in 0..MaxPosts /\ j # NoJob /\ j \in 0..MaxJobs
  BY GamesAssumption DEF GamePosts, GameJobs, NoJob
<1>4. /\ jobFile' \in [GameJobs -> FileType]
      /\ jobFile'[j].stage = "active" /\ ~jobFile'[j].wp
      /\ \A k \in GameJobs \ {j} : jobFile'[k] = jobFile[k]
      /\ task' \in TaskType /\ task' = [job |-> j, post |-> p, at |-> "created"]
      /\ asked' = FALSE /\ snapshot' = [job |-> j, running |-> TRUE]
      /\ snapshot' \in [job : 0..MaxJobs, running : BOOLEAN]
      /\ \A s \in {memory, disk}, q \in GamePosts : s.item[q].job # j
  BY <1>2, <1>3, BeginsJobKeeps
<1>. DEFINE it == [Tried(p) EXCEPT !.job = j]
<1>5. Item(p).attempts + 1 <= RetryLimit + spent
      /\ Item(p).attempts + 1 \in 0..(RetryLimit + MaxDisturbances)
  <2>1. Item(p).attempts < RetryLimit + spent /\ Item(p).attempts \in Nat
    BY <1>1, ItemInMemory, RunnerTypes, GamesAssumption DEF First, Candidate, ItemKept, TriedAgain
  <2>2. spent \in 0..MaxDisturbances
    BY DEF GamesInv, GamesTypeOK
  <2>. QED
    BY <2>1, <2>2, GamesAssumption
<1>6. /\ Tried(p) \in ItemType /\ Tried(p).status = "processing"
      /\ Tried(p).attempts = Item(p).attempts + 1
  BY <1>5, ItemInMemory DEF Tried, ItemType, Waiting
<1>7. it \in ItemType /\ it.status = "processing" /\ it.attempts = Item(p).attempts + 1 /\ it.job = j
  BY <1>3, <1>6 DEF ItemType
<1>8. memory' = With(p, it)
  BY <1>2
<1>. HIDE DEF it
<1>9. WorksOn(task', j) /\ \A k \in GameJobs \ {j} : ~WorksOn(task', k)
  BY <1>4 DEF WorksOn
<1>10. ItemKept(p, it, articles', jobFile', task', asked', spent')
  <2>1. ~Published(jobFile'[j]) /\ task'.post = p /\ ~asked' /\ spent' = spent
    BY <1>1, <1>4 DEF Published
  <2>. QED
    BY <1>3, <1>5, <1>7, <1>9, <2>1 DEF ItemKept, TriedAgain
<1>11. ASSUME NEW s \in {memory, disk}, NEW q \in GamePosts,
              ItemKept(q, s.item[q], articles, jobFile, task, asked, spent)
       PROVE  ItemKept(q, s.item[q], articles', jobFile', task', asked', spent')
  <2>. DEFINE other == s.item[q]
  <2>1. other.job # NoJob => other.job \in GameJobs \ {j}
    <3>1. s \in States
      BY DEF GamesInv, GamesTypeOK
    <3>. QED
      BY <3>1, <1>4, GamesStates, GamesAssumption DEF ItemType, GameJobs, NoJob
  <2>2. ItemKept(q, other, articles, jobFile, task, asked, spent)
    BY <1>11
  <2>. HIDE DEF other
  <2>3. other.job # NoJob => jobFile'[other.job] = jobFile[other.job]
                             /\ ~WorksOn(task', other.job) /\ ~WorksOn(task, other.job)
    BY <2>1, <1>1, <1>4, <1>9 DEF WorksOn
  <2>4. ItemKept(q, other, articles', jobFile', task', asked', spent')
    BY <2>2, <2>3, <1>1 DEF ItemKept, TriedAgain
  <2>. QED
    BY <2>4 DEF other
<1>12. memory' \in States /\ disk' \in States /\ BothKept' /\ CursorsKept'
  <2>1. it.status # "none"
    BY <1>7
  <2>. QED
    BY <1>1, <1>7, <1>8, <1>10, <1>11, <2>1, WithKeeps
<1>13. GamesTypeOK'
  <2>1. asked' \in BOOLEAN
    BY <1>4
  <2>2. jobFile' \in [GameJobs -> FileType] /\ task' \in TaskType
        /\ snapshot' \in [job : 0..MaxJobs, running : BOOLEAN]
    BY <1>4
  <2>. QED
    BY <1>1, <1>3, <1>12, <2>1, <2>2 DEF GamesInv, GamesTypeOK, FileType, TaskType
<1>14. RunnerKept'
  BY <1>1, <1>4 DEF GamesInv, RunnerKept
<1>15. SiteKept'
  BY <1>1, <1>4 DEF GamesInv, SiteKept, OneArticle
<1>16. WaitKept'
  <2>1. memory'.item[p] = it
    BY <1>7, <1>8, WithItem
  <2>. QED
    BY <1>1, <1>7, <2>1 DEF WaitKept, Item
<1>. QED
  BY <1>12, <1>13, <1>14, <1>15, <1>16 DEF GamesInv

(* A pass ends: the file of the listener is what is in memory. *)
LEMMA SavesKeeps ==
  ASSUME GamesInv, disk' = memory,
         UNCHANGED <<arrived, memory, skipped, on, jobFile, task, asked, snapshot,
                     canceller, articles, catalog, kinds, spent>>,
         listener' \in {"resting", "dead"}, post' \in 0..MaxPosts
  PROVE  GamesInv'
<1>1. GamesTypeOK'
  BY DEF GamesInv, GamesTypeOK
<1>2. RunnerKept' /\ SiteKept' /\ BothKept' /\ WaitKept'
  BY DEF GamesInv, RunnerKept, SiteKept, OneArticle, BothKept, WaitKept
<1>3. CursorsKept'
  BY CursorsStay
<1>. QED
  BY <1>1, <1>2, <1>3 DEF GamesInv

LEMMA PassEndsKeeps == GamesInv /\ PassEnds => GamesInv'
<1>1. ASSUME GamesInv, PassEnds PROVE post' \in 0..MaxPosts
  BY <1>1 DEF PassEnds, GamesInv, GamesTypeOK
<1>. QED
  BY <1>1, SavesKeeps DEF PassEnds, runnerVars, siteVars

LEMMA JobAbortedKeeps == GamesInv /\ JobAborted => GamesInv'
<1>1. ASSUME GamesInv, JobAborted PROVE post' \in 0..MaxPosts
  BY <1>1, GamesAssumption DEF JobAborted
<1>. QED
  BY <1>1, SavesKeeps DEF JobAborted, runnerVars, siteVars

(* A job file that is recorded as done had its article; nothing else of the
   runner changes. *)
LEMMA RecordingKeeps ==
  ASSUME GamesInv, UNCHANGED <<articles, task, asked, spent>>,
         jobFile' \in [GameJobs -> FileType],
         \A j \in GameJobs : \/ jobFile'[j] = jobFile[j]
                            \/ (jobFile[j].wp /\ jobFile'[j].stage = "done")
  PROVE  \A p \in GamePosts : \A it \in ItemType :
           ItemKept(p, it, articles, jobFile, task, asked, spent) =>
             ItemKept(p, it, articles', jobFile', task', asked', spent')
<1>. SUFFICES ASSUME NEW p \in GamePosts, NEW it \in ItemType,
                     ItemKept(p, it, articles, jobFile, task, asked, spent)
              PROVE  ItemKept(p, it, articles', jobFile', task', asked', spent')
  OBVIOUS
<1>1. it.job # NoJob => it.job \in GameJobs
  BY GamesAssumption DEF ItemType, GameJobs, NoJob
<1>2. it.job # NoJob => (Published(jobFile'[it.job]) => Published(jobFile[it.job]))
  BY <1>1 DEF Published
<1>3. TriedAgain(it, jobFile', task', asked') => TriedAgain(it, jobFile, task, asked)
  BY <1>1 DEF TriedAgain, Concluded
<1>. QED
  BY <1>2, <1>3 DEF ItemKept

LEMMA FailedOfKept ==
  ASSUME NEW p \in GamePosts, NEW it \in ItemType, NEW arts, NEW fs, NEW t, NEW a, NEW n,
         ItemKept(p, it, arts, fs, t, a, n)
  PROVE  /\ FailedOf(it) \in ItemType /\ FailedOf(it).job = it.job
         /\ FailedOf(it).status # "none"
         /\ ItemKept(p, FailedOf(it), arts, fs, t, a, n)
<1>1. PICK s \in {"failed", "exhausted"} : FailedOf(it) = [it EXCEPT !.status = s]
  BY DEF FailedOf
<1>2. /\ FailedOf(it) \in ItemType /\ FailedOf(it).job = it.job
      /\ FailedOf(it).status \in {"failed", "exhausted"} /\ FailedOf(it).attempts = it.attempts
  BY <1>1 DEF ItemType, Waiting, Settled
<1>. HIDE DEF FailedOf
<1>. QED
  BY <1>2 DEF ItemKept, TriedAgain

(* An item that becomes done or skipped. *)
LEMMA SettledKept ==
  ASSUME NEW p \in GamePosts, NEW it \in ItemType, NEW arts, NEW fs, NEW t, NEW a, NEW n,
         ItemKept(p, it, arts, fs, t, a, n), NEW s \in {"done", "skipped"},
         s = "done" => arts[p] > 0
  PROVE  /\ [it EXCEPT !.status = s] \in ItemType /\ [it EXCEPT !.status = s].job = it.job
         /\ [it EXCEPT !.status = s].status # "none"
         /\ ItemKept(p, [it EXCEPT !.status = s], arts, fs, t, a, n)
<1>. DEFINE new == [it EXCEPT !.status = s]
<1>1. /\ new \in ItemType /\ new.job = it.job
      /\ new.status = s /\ new.attempts = it.attempts
  BY DEF ItemType, Settled
<1>. HIDE DEF new
<1>2. ItemKept(p, new, arts, fs, t, a, n) /\ new.status # "none"
  BY <1>1 DEF ItemKept, TriedAgain
<1>. QED
  BY <1>1, <1>2 DEF new

LEMMA JobReturnedKeeps == GamesInv /\ JobReturned => GamesInv'
<1>. SUFFICES ASSUME GamesInv, JobReturned PROVE GamesInv'
  OBVIOUS
<1>. DEFINE j == Item(post).job
<1>1. /\ listener = "returned" /\ listener' = "choosing" /\ post' = 0
      /\ memory' = With(post, Verdict(post)) /\ disk' = memory'
      /\ UNCHANGED <<arrived, skipped, on, task, asked, snapshot, canceller, articles, kinds, spent>>
  BY DEF JobReturned
<1>2. post \in GamePosts /\ j \in GameJobs /\ j # NoJob /\ jobFile[j] \in FileType
  BY <1>1, RunnerTypes, GamesAssumption DEF GamesInv, WaitKept, GameJobs, NoJob
<1>3. /\ jobFile' \in [GameJobs -> FileType]
      /\ \A k \in GameJobs \ {j} : jobFile'[k] = jobFile[k]
      /\ jobFile'[j] = jobFile[j] \/ (jobFile[j].wp /\ jobFile'[j].stage = "done")
      /\ catalog' = catalog \/ (jobFile[j].wp /\ catalog' = catalog \cup {post})
  <2>1. CASE jobFile[j].wp /\ jobFile[j].stage # "skipped"
    <3>1. jobFile' = [jobFile EXCEPT ![j].stage = "done"] /\ catalog' = catalog \cup {post}
      BY <2>1 DEF JobReturned
    <3>2. [jobFile[j] EXCEPT !.stage = "done"] \in FileType
      BY <1>2 DEF FileType, EndStages
    <3>. QED
      BY <1>2, <2>1, <3>1, <3>2, RunnerTypes DEF FileType
  <2>2. CASE ~(jobFile[j].wp /\ jobFile[j].stage # "skipped")
    BY <2>2, RunnerTypes DEF JobReturned
  <2>. QED
    BY <2>1, <2>2
<1>4. /\ Item(post) \in ItemType
      /\ ItemKept(post, Item(post), articles, jobFile, task, asked, spent)
      /\ Published(jobFile[j]) => articles[post] > 0
  BY <1>2, ItemInMemory DEF ItemKept
<1>. HIDE DEF j
<1>5. \A p \in GamePosts : \A it \in ItemType :
        ItemKept(p, it, articles, jobFile, task, asked, spent) =>
          ItemKept(p, it, articles', jobFile', task', asked', spent')
  <2>1. \A k \in GameJobs : \/ jobFile'[k] = jobFile[k]
                             \/ (jobFile[k].wp /\ jobFile'[k].stage = "done")
    BY <1>3
  <2>. QED
    BY <1>1, <1>3, <2>1, RecordingKeeps
<1>6. /\ Verdict(post) \in ItemType /\ Verdict(post).status # "none"
      /\ ItemKept(post, Verdict(post), articles, jobFile, task, asked, spent)
  <2>1. CASE jobFile[j].stage = "skipped"
    <3>1. Verdict(post) = [Item(post) EXCEPT !.status = "skipped"]
      BY <2>1 DEF Verdict, Marked, j
    <3>. DEFINE new == [Item(post) EXCEPT !.status = "skipped"]
    <3>2. /\ new \in ItemType /\ new.status # "none"
          /\ ItemKept(post, new, articles, jobFile, task, asked, spent)
      BY <1>2, <1>4, SettledKept
    <3>. HIDE DEF new
    <3>3. Verdict(post) = new
      BY <3>1 DEF new
    <3>. QED
      BY <3>2, <3>3
  <2>2. CASE jobFile[j].stage # "skipped" /\ Published(jobFile[j])
    <3>1. Verdict(post) = [Item(post) EXCEPT !.status = "done"]
      BY <2>2 DEF Verdict, Marked, j, Published
    <3>. DEFINE new == [Item(post) EXCEPT !.status = "done"]
    <3>2. /\ new \in ItemType /\ new.status # "none"
          /\ ItemKept(post, new, articles, jobFile, task, asked, spent)
      BY <1>2, <1>4, <2>2, SettledKept
    <3>. HIDE DEF new
    <3>3. Verdict(post) = new
      BY <3>1 DEF new
    <3>. QED
      BY <3>2, <3>3
  <2>3. CASE jobFile[j].stage # "skipped" /\ ~Published(jobFile[j])
    <3>1. Verdict(post) = FailedOf(Item(post))
      BY <2>3 DEF Verdict, j, Published
    <3>. QED
      BY <1>2, <1>4, <3>1, FailedOfKept
  <2>. QED
    BY <2>1, <2>2, <2>3
<1>7. ItemKept(post, Verdict(post), articles', jobFile', task', asked', spent')
  BY <1>2, <1>5, <1>6
<1>8. \A s \in {memory, disk}, q \in GamePosts :
        ItemKept(q, s.item[q], articles, jobFile, task, asked, spent) =>
          ItemKept(q, s.item[q], articles', jobFile', task', asked', spent')
  BY <1>5, GamesStates DEF GamesInv, GamesTypeOK
<1>9. memory' \in States /\ disk' \in States /\ BothKept' /\ CursorsKept'
  BY <1>1, <1>2, <1>6, <1>7, <1>8, WithKeeps
<1>10. catalog' \subseteq GamePosts /\ \A p \in catalog' : articles[p] > 0
  BY <1>2, <1>3, <1>4 DEF GamesInv, GamesTypeOK, SiteKept, Published
<1>11. GamesTypeOK'
  <2>1. post' \in 0..MaxPosts
    BY <1>1, GamesAssumption
  <2>. QED
    BY <1>1, <1>3, <1>9, <1>10, <2>1 DEF GamesInv, GamesTypeOK, FileType
<1>12. RunnerKept'
  BY <1>1, <1>3 DEF GamesInv, RunnerKept
<1>13. SiteKept' /\ WaitKept'
  BY <1>1, <1>10 DEF GamesInv, SiteKept, OneArticle, WaitKept
<1>. QED
  BY <1>9, <1>11, <1>12, <1>13 DEF GamesInv

(* _reconcile_processing keeps what is known of an item. *)
LEMMA ReconciledKept ==
  ASSUME GamesInv, NEW p \in GamePosts
  PROVE  /\ ReconciledItem(p) \in ItemType /\ ReconciledItem(p).job = Item(p).job
         /\ ReconciledItem(p).status = "none" => Item(p).status = "none"
         /\ ItemKept(p, ReconciledItem(p), articles, jobFile, task, asked, spent)
<1>. DEFINE it == Item(p)
            file == IF it.job = NoJob THEN NoFile ELSE jobFile[it.job]
<1>1. /\ it \in ItemType /\ it.attempts \in Nat /\ (it.job # NoJob => it.job \in GameJobs)
      /\ ItemKept(p, it, articles, jobFile, task, asked, spent)
  BY ItemInMemory
<1>2. Published(file) => articles[p] > 0
  BY <1>1 DEF ItemKept, NoFile, Published
<1>3. p \in catalog => articles[p] > 0
  BY DEF GamesInv, SiteKept
<1>4. CASE it.status # "processing" \/ (it.job # NoJob /\ Running(it.job))
  <2>1. ReconciledItem(p) = it
    BY <1>4 DEF ReconciledItem
  <2>. QED
    BY <2>1, <1>1
<1>5. CASE /\ it.status = "processing" /\ ~(it.job # NoJob /\ Running(it.job))
           /\ Published(file) \/ p \in catalog
  <2>. DEFINE new == [it EXCEPT !.status = "done"]
  <2>1. /\ new \in ItemType /\ new.job = it.job /\ new.status # "none"
        /\ ItemKept(p, new, articles, jobFile, task, asked, spent)
    BY <1>1, <1>2, <1>3, <1>5, SettledKept
  <2>2. ReconciledItem(p) = new
    BY <1>5 DEF ReconciledItem, Published
  <2>. HIDE DEF new
  <2>. QED
    BY <2>1, <2>2
<1>6. CASE /\ it.status = "processing" /\ ~(it.job # NoJob /\ Running(it.job))
           /\ ~Published(file) /\ p \notin catalog /\ file.stage = "skipped"
  <2>. DEFINE new == [it EXCEPT !.status = "skipped"]
  <2>1. /\ new \in ItemType /\ new.job = it.job /\ new.status # "none"
        /\ ItemKept(p, new, articles, jobFile, task, asked, spent)
    BY <1>1, SettledKept
  <2>2. ReconciledItem(p) = new
    BY <1>6 DEF ReconciledItem, Published
  <2>. HIDE DEF new
  <2>. QED
    BY <2>1, <2>2
<1>7. CASE /\ it.status = "processing" /\ ~(it.job # NoJob /\ Running(it.job))
           /\ ~Published(file) /\ p \notin catalog /\ file.stage \in {"failed", "cancelled"}
  <2>1. /\ FailedOf(it) \in ItemType /\ FailedOf(it).job = it.job /\ FailedOf(it).status # "none"
        /\ ItemKept(p, FailedOf(it), articles, jobFile, task, asked, spent)
    BY <1>1, FailedOfKept
  <2>2. ReconciledItem(p) = FailedOf(it)
    BY <1>7 DEF ReconciledItem, Published
  <2>. QED
    BY <2>1, <2>2
<1>8. CASE /\ it.status = "processing" /\ ~(it.job # NoJob /\ Running(it.job))
           /\ ~Published(file) /\ p \notin catalog
           /\ file.stage \notin {"skipped", "failed", "cancelled"}
  <2>. DEFINE new == [it EXCEPT !.status = "pending"]
  <2>1. ReconciledItem(p) = new
    BY <1>8 DEF ReconciledItem, Published
  <2>2. new \in ItemType /\ new.job = it.job /\ new.status = "pending" /\ new.attempts = it.attempts
    BY <1>1 DEF ItemType, Waiting
  <2>3. it.attempts < RetryLimit + spent
    <3>1. TriedAgain(it, jobFile, task, asked)
      <4>1. CASE it.job = NoJob
        BY <4>1, <1>8 DEF TriedAgain
      <4>2. CASE it.job # NoJob
        <5>1. jobFile[it.job].stage \notin Concluded
          BY <4>2, <1>8 DEF Concluded, Published
        <5>2. ~WorksOn(task, it.job)
          <6>. SUFFICES ASSUME WorksOn(task, it.job) PROVE FALSE
            OBVIOUS
          <6>1. task.at # "idle" /\ task.job = it.job
            BY DEF WorksOn
          <6>2. jobFile[task.job].stage = "active" /\ snapshot.job = task.job /\ snapshot.running
            BY <5>1, <6>1 DEF GamesInv, RunnerKept, Concluded
          <6>. QED
            BY <4>2, <6>1, <6>2, <1>8 DEF Running
        <5>. QED
          BY <4>2, <5>1, <5>2, <1>8 DEF TriedAgain
      <4>. QED
        BY <4>1, <4>2
    <3>. QED
      BY <1>1, <3>1 DEF ItemKept
  <2>. HIDE DEF new
  <2>4. ItemKept(p, new, articles, jobFile, task, asked, spent)
    BY <1>1, <2>2, <2>3 DEF ItemKept
  <2>. QED
    BY <2>1, <2>2, <2>4
<1>. QED
  BY <1>4, <1>5, <1>6, <1>7, <1>8

LEMMA PassBeginsKeeps == GamesInv /\ PassBegins => GamesInv'
<1>. SUFFICES ASSUME GamesInv, PassBegins PROVE GamesInv'
  OBVIOUS
<1>1. /\ listener' = "scanning" /\ catalog' = catalog \cup Recorded
      /\ memory' = [memory EXCEPT !.item = [p \in GamePosts |-> ReconciledItem(p)]]
      /\ UNCHANGED <<arrived, disk, skipped, on, post, task, asked, snapshot,
                     canceller, articles, kinds, spent>>
  BY DEF PassBegins
<1>2. \A p \in Recorded :
        p \in GamePosts /\ Item(p).job \in GameJobs /\ jobFile[Item(p).job].wp /\ articles[p] > 0
        /\ ~Running(Item(p).job)
  BY ItemInMemory DEF Recorded, ItemKept, Published
<1>3. /\ jobFile' \in [GameJobs -> FileType]
      /\ \A j \in GameJobs :
           \/ jobFile'[j] = jobFile[j]
           \/ (jobFile[j].wp /\ jobFile'[j].stage = "done")
  <2>1. jobFile' = [j \in GameJobs |-> IF \E p \in Recorded : Item(p).job = j
                                        THEN [jobFile[j] EXCEPT !.stage = "done"]
                                        ELSE jobFile[j]]
    BY DEF PassBegins
  <2>2. \A j \in GameJobs : jobFile[j] \in FileType /\ [jobFile[j] EXCEPT !.stage = "done"] \in FileType
                            /\ [jobFile[j] EXCEPT !.stage = "done"].stage = "done"
    BY RunnerTypes DEF FileType, EndStages
  <2>3. \A j \in GameJobs : (\E p \in Recorded : Item(p).job = j) => jobFile[j].wp
    BY <1>2
  <2>4. jobFile' \in [GameJobs -> FileType]
    BY <2>1, <2>2
  <2>. QED
    BY <2>1, <2>2, <2>3, <2>4
<1>4. \A p \in GamePosts : \A it \in ItemType :
        ItemKept(p, it, articles, jobFile, task, asked, spent) =>
          ItemKept(p, it, articles', jobFile', task', asked', spent')
  BY <1>1, <1>3, RecordingKeeps
<1>5. memory \in States /\ disk \in States
  BY DEF GamesInv, GamesTypeOK
<1>6. /\ memory' \in States /\ memory'.cursor = memory.cursor
      /\ memory'.item = [p \in GamePosts |-> ReconciledItem(p)]
  BY <1>1, <1>5, ReconciledKept DEF States, ItemType
<1>7. BothKept'
  <2>1. ItemsKept(memory', articles', jobFile', task', asked', spent')
    BY <1>4, <1>6, ReconciledKept DEF ItemsKept
  <2>2. ItemsKept(disk, articles', jobFile', task', asked', spent')
    BY <1>4, <1>5, GamesStates DEF GamesInv, BothKept, ItemsKept
  <2>. QED
    BY <1>1, <2>1, <2>2 DEF BothKept
<1>8. CursorsKept'
  <2>1. \A p \in GamePosts : memory'.item[p].status = "none" => memory.item[p].status = "none"
    BY <1>6, ReconciledKept DEF Item
  <2>2. disk' = disk /\ skipped' = skipped /\ arrived' = arrived
    BY <1>1
  <2>. QED
    BY <1>6, <2>1, <2>2, CursorsStay
<1>9. catalog' \subseteq GamePosts /\ \A p \in catalog' : articles[p] > 0
  BY <1>1, <1>2 DEF GamesInv, GamesTypeOK, SiteKept
<1>10. GamesTypeOK'
  BY <1>1, <1>3, <1>6, <1>9 DEF GamesInv, GamesTypeOK, FileType
<1>11. RunnerKept'
  <2>1. task.at # "idle" /\ jobFile'[task.job].stage = "active" => jobFile'[task.job] = jobFile[task.job]
    BY <1>3 DEF GamesInv, RunnerKept
  <2>. QED
    BY <1>1, <1>3, <2>1 DEF GamesInv, RunnerKept
<1>12. SiteKept' /\ WaitKept'
  BY <1>1, <1>9 DEF GamesInv, SiteKept, OneArticle, WaitKept
<1>. QED
  BY <1>7, <1>8, <1>10, <1>11, <1>12 DEF GamesInv

(* _scan_channel: a post that is not in the catalogue waits to be tried for the
   first time. *)
LEMMA NewItemKept ==
  ASSUME GamesInv, NEW p \in GamePosts
  PROVE  /\ NewItem(p) \in ItemType /\ NewItem(p).status # "none" /\ NewItem(p).job = NoJob
         /\ ItemKept(p, NewItem(p), articles, jobFile, task, asked, spent)
<1>1. PICK s \in {"done", "pending"} :
        NewItem(p) = [status |-> s, attempts |-> 0, job |-> NoJob] /\ (s = "done" => p \in catalog)
  <2>1. NewItem(p) = [status |-> IF p \in catalog THEN "done" ELSE "pending",
                      attempts |-> 0, job |-> NoJob]
    BY DEF NewItem, NoItem
  <2>. QED
    BY <2>1
<1>2. 0 \in 0..(RetryLimit + MaxDisturbances) /\ 0 \in 0..MaxJobs /\ 0 < RetryLimit + spent
      /\ 0 <= RetryLimit + spent
  BY RunnerTypes, GamesAssumption
<1>3. NewItem(p) \in ItemType
  BY <1>1, <1>2 DEF ItemType, Waiting, Settled, NoJob
<1>4. NewItem(p).status = s /\ NewItem(p).attempts = 0 /\ NewItem(p).job = NoJob
  BY <1>1
<1>5. s = "done" => articles[p] > 0
  BY <1>1 DEF GamesInv, SiteKept
<1>. QED
  BY <1>2, <1>3, <1>4, <1>5 DEF ItemKept, TriedAgain

LEMMA ScanKeeps == GamesInv /\ Scan => GamesInv'
<1>. SUFFICES ASSUME GamesInv, Scan PROVE GamesInv'
  OBVIOUS
<1>1. /\ listener' = "choosing" /\ disk' = memory'
      /\ UNCHANGED <<arrived, on, post, jobFile, task, asked, snapshot, canceller,
                     articles, catalog, kinds, spent>>
  BY DEF Scan, runnerVars, siteVars
<1>2. RunnerKept' /\ SiteKept' /\ WaitKept'
  BY <1>1 DEF GamesInv, RunnerKept, SiteKept, OneArticle, WaitKept
<1>3. CASE UNCHANGED <<memory, skipped>>
  <2>1. GamesTypeOK' /\ BothKept'
    BY <1>1, <1>3 DEF GamesInv, GamesTypeOK, BothKept
  <2>2. CursorsKept'
    BY <1>1, <1>3, CursorsStay
  <2>. QED
    BY <1>2, <2>1, <2>2 DEF GamesInv
<1>4. CASE /\ memory' = Scanned
           /\ skipped' = IF memory.scanned THEN skipped ELSE (1..arrived) \ Selected
  <2>. DEFINE new(p) == IF p \in Selected /\ Item(p).status = "none" THEN NewItem(p) ELSE Item(p)
  <2>1. /\ arrived \in 0..MaxPosts /\ memory.cursor \in 0..MaxPosts /\ memory.cursor <= arrived
        /\ memory.scanned \in BOOLEAN
    BY GamesStates DEF GamesInv, GamesTypeOK, CursorsKept
  <2>2. /\ memory'.scanned = TRUE /\ memory'.cursor = arrived
        /\ memory'.item = [p \in GamePosts |-> new(p)]
        /\ memory' = [scanned |-> TRUE, cursor |-> arrived, item |-> [p \in GamePosts |-> new(p)]]
    <3>1. (IF arrived > memory.cursor THEN arrived ELSE memory.cursor) = arrived
      BY <2>1, GamesAssumption
    <3>. QED
      BY <1>4, <3>1 DEF Scanned
  <2>3. \A p \in GamePosts :
          /\ new(p) \in ItemType
          /\ p \in Selected \/ Item(p).status # "none" => new(p).status # "none"
          /\ ItemKept(p, new(p), articles, jobFile, task, asked, spent)
    BY ItemInMemory, NewItemKept
  <2>. HIDE DEF new
  <2>4. memory' \in States
    BY <2>1, <2>2, <2>3 DEF States, ItemType
  <2>5. Selected \subseteq GamePosts /\ skipped' \subseteq GamePosts
    <3>1. 1..arrived \subseteq GamePosts
      BY <2>1, GamesAssumption DEF GamePosts
    <3>2. Selected \subseteq 1..arrived
      BY DEF Selected
    <3>3. skipped \subseteq GamePosts
      BY DEF GamesInv, GamesTypeOK
    <3>. QED
      BY <1>4, <3>1, <3>2, <3>3
  <2>6. GamesTypeOK'
    BY <1>1, <2>4, <2>5 DEF GamesInv, GamesTypeOK
  <2>7. BothKept'
    BY <1>1, <2>2, <2>3 DEF BothKept, ItemsKept
  <2>8. CursorsKept'
    <3>1. memory'.cursor <= arrived' /\ disk'.cursor <= arrived'
      BY <1>1, <2>1, <2>2
    <3>2. ASSUME MaxPosts <= Window PROVE NoPostIsLost'
      <4>1. ASSUME NEW p \in 1..arrived
            PROVE  new(p).status # "none" \/ p \in skipped'
        <5>1. p \in GamePosts
          BY <2>1, GamesAssumption DEF GamePosts
        <5>2. CASE memory.scanned /\ p <= memory.cursor
          <6>1. p \in 1..memory.cursor
            BY <5>2, <2>1
          <6>2. Item(p).status # "none" \/ p \in skipped
            BY <6>1, <3>2 DEF GamesInv, CursorsKept, NoPostIsLost, Item
          <6>. QED
            BY <5>1, <5>2, <6>2, <1>4, <2>3
        <5>3. CASE memory.scanned /\ ~(p <= memory.cursor)
          <6>1. p + Window > arrived
            BY <3>2, <2>1, GamesAssumption
          <6>2. p \in Selected
            BY <5>3, <6>1, <2>1 DEF Selected
          <6>. QED
            BY <5>1, <6>2, <2>3
        <5>4. CASE ~memory.scanned
          BY <5>1, <5>4, <1>4, <2>3
        <5>. QED
          BY <5>2, <5>3, <5>4
      <4>2. \A p \in 1..memory'.cursor : memory'.item[p].status # "none" \/ p \in skipped'
        <5>1. \A p \in 1..arrived : p \in GamePosts
          BY <2>1, GamesAssumption DEF GamePosts
        <5>. QED
          BY <4>1, <5>1, <2>2
      <4>. QED
        BY <1>1, <4>2 DEF NoPostIsLost
    <3>. QED
      BY <3>1, <3>2 DEF CursorsKept
  <2>. QED
    BY <1>2, <2>6, <2>7, <2>8 DEF GamesInv
<1>. QED
  BY <1>3, <1>4 DEF Scan

-----------------------------------------------------------------------------
LEMMA GamesInitInv == GamesInit => GamesInv
<1>. SUFFICES ASSUME GamesInit PROVE GamesInv
  OBVIOUS
<1>1. 0 \in 0..MaxPosts /\ 0 \in 0..MaxJobs /\ 0 \in 0..(RetryLimit + MaxDisturbances)
      /\ 0 \in 0..MaxDisturbances /\ 0 <= RetryLimit
  BY GamesAssumption
<1>2. NoItem \in ItemType /\ NoItem.attempts = 0 /\ NoItem.job = NoJob /\ NoItem.status = "none"
  BY <1>1 DEF NoItem, NoJob, ItemType
<1>3. NoFile \in FileType /\ NoTask \in TaskType
  BY <1>1 DEF NoFile, NoTask, NoJob, FileType, TaskType
<1>4. /\ Unscanned \in States /\ Unscanned.cursor = 0
      /\ \A p \in GamePosts : Unscanned.item[p] = NoItem
  BY <1>1, <1>2 DEF Unscanned, States, ItemType
<1>5. GamesTypeOK
  BY <1>1, <1>3, <1>4 DEF GamesInit, GamesTypeOK, FileType, TaskType, NoJob
<1>6. RunnerKept /\ SiteKept /\ WaitKept
  BY DEF GamesInit, RunnerKept, SiteKept, OneArticle, WaitKept, NoTask
<1>7. BothKept
  BY <1>1, <1>2, <1>4, GamesAssumption DEF GamesInit, BothKept, ItemsKept, ItemKept, TriedAgain
<1>8. CursorsKept
  BY <1>4 DEF GamesInit, CursorsKept, NoPostIsLost
<1>. QED
  BY <1>5, <1>6, <1>7, <1>8 DEF GamesInv

LEMMA GamesNextInv == GamesInv /\ [GamesNext]_gamesVars => GamesInv'
<1>. SUFFICES ASSUME GamesInv, [GamesNext]_gamesVars PROVE GamesInv'
  OBVIOUS
<1>1. CASE ListenerStep
  BY <1>1, PassBeginsKeeps, ScanKeeps, PassEndsKeeps, JobReturnedKeeps, JobAbortedKeeps
     DEF ListenerStep
<1>2. CASE TaskStep
  BY <1>2, PullsKeeps, PulledKeeps, LooksUpKeeps, PublishesKeeps, FinalizesKeeps,
     TaskCancelledKeeps, CancelReturnsKeeps DEF TaskStep
<1>3. CASE Outside
  BY <1>3, ArrivesKeeps, CancelKeeps, PullKeeps, ReloadKeeps, RetryFailedKeeps, CrashKeeps,
     ShutdownKeeps DEF Outside
<1>4. ASSUME NEW p \in GamePosts, Choose(p) PROVE GamesInv'
  BY <1>4, ChooseKnownKeeps, ChooseBusyKeeps, ChooseNewKeeps DEF Choose
<1>5. CASE UNCHANGED gamesVars
  <2>1. UNCHANGED <<arrived, memory, disk, skipped, on, listener, post, jobFile, task,
                   asked, snapshot, canceller, articles, catalog, kinds, spent>>
    BY <1>5 DEF gamesVars
  <2>2. GamesTypeOK' /\ RunnerKept' /\ SiteKept'
    BY <2>1 DEF GamesInv, GamesTypeOK, RunnerKept, SiteKept, OneArticle
  <2>3. BothKept' /\ WaitKept' /\ CursorsKept'
    BY <2>1 DEF GamesInv, BothKept, WaitKept, Item, CursorsKept, NoPostIsLost
  <2>. QED
    BY <2>2, <2>3 DEF GamesInv
<1>. QED
  BY <1>1, <1>2, <1>3, <1>4, <1>5 DEF GamesNext

LEMMA GamesInvHolds == GamesSpec => []GamesInv
<1>. QED
  BY GamesInitInv, GamesNextInv, PTL DEF GamesSpec

(* What is taken for published is published, and nothing is tried for ever: for
   whatever is lost, cancelled or retried, without an assumption on the site or
   on the window of a scan. *)
THEOREM GamesTellTheTruth == GamesSpec => [](GamesTypeOK /\ DoneIsPublished /\ TriesAreBounded)
<1>1. GamesInv => GamesTypeOK /\ DoneIsPublished /\ TriesAreBounded
  BY DEF GamesInv, BothKept, ItemsKept, ItemKept, DoneIsPublished, TriesAreBounded
<1>. QED
  BY <1>1, GamesInvHolds, PTL

(* A post is neither published twice nor passed over nor taken for published
   nor tried more often than it may (games/automation.py, runner.py), if the
   search for an article does not fail (games/wordpress.py:93) and a scan sees
   all the posts there are (games/automation.py:389).  Neither condition can be
   dropped: TLC finds a second article, and a post passed over. *)
THEOREM PostsKept ==
  ASSUME ~LookupFails, MaxPosts <= Window
  PROVE  GamesSpec => []PostsAreKept
<1>1. GamesInv => PostsAreKept
  BY DEF GamesInv, BothKept, ItemsKept, ItemKept, SiteKept, CursorsKept, PostsAreKept,
         DoneIsPublished, TriesAreBounded
<1>. QED
  BY <1>1, GamesInvHolds, PTL

-----------------------------------------------------------------------------
(* A gallery.                                                              *)

Paging == {"paging", "uploading", "putting"}
Showing == {"listing", "showing"}
Outgoing == {"outbound", "resending", "posting", "recording"}
Ways == {"ok", "duplicate", "empty", "failed", "raised", "stopped"}

IngestType ==
  [at : Places, own : BOOLEAN, stopped : BOOLEAN, before : Nat, listed : 0..GalleryPages,
   next : 1..(GalleryPages + 1), page : 0..GalleryPages, number : Nat, batch : Seq(Nat),
   read : Nat, published : BOOLEAN, known : BOOLEAN, urls : Seq(Nat), leaving : BOOLEAN,
   hindered : BOOLEAN]

(* Whatever happens: an ingest refers to files there are, and posts what the
   site shows. *)
IngestShape(r, F, R, S) ==
  /\ r \in IngestType
  /\ r.number <= Len(F) + 1
  /\ Elements(r.batch) \subseteq DOMAIN F
  /\ Elements(r.urls) \subseteq DOMAIN F
  /\ r.at \in {"uploading", "putting"} => r.page # 0
  /\ r.at = "putting" => r.number # 0
  /\ r.at \notin {"rest", "looking", "fetching"} => r.next <= r.listed + 1
  /\ r.at = "listing" => R # <<>>
  /\ r.at \in Showing \cup Outgoing => r.published
  /\ r.published /\ r.at # "listing" => r.urls # <<>>
  /\ r.at \in {"posting", "recording"} => S # <<>>

GalleryVarsOK ==
  /\ weather \in Weathers /\ listening \in BOOLEAN /\ posted \in BOOLEAN
  /\ files \in Seq(1..GalleryPages) /\ nextFile \in 1..(Len(files) + 1)
  /\ rows \in Seq(DOMAIN files) /\ shown \in Seq(DOMAIN files) /\ albums \in Nat
  /\ backfills \in 0..weather.backfills /\ upsets \in 0..weather.upsets
  /\ outcome.of \in {"none"} \cup Ways
GalleryShape ==
  /\ GalleryVarsOK
  /\ albums > 0 => shown # <<>>
  /\ ingest \in [Ingests -> IngestType]
  /\ \A i \in Ingests : IngestShape(ingest[i], files, rows, shown)

(* One ingest at a time: it knows what is stored, shown and posted, its batch
   is new, and each album beyond the first has its upset. *)
OneTurn(r, num, nf, R, S, p, u, a) ==
  /\ num /\ r.at # "looking" => \A n \in Elements(R) \cup Elements(r.batch) : n < nf
  /\ r.at = "putting" => nf <= r.number
  /\ Distinct(r.batch) /\ Elements(r.batch) \cap Elements(R) = {}
  /\ r.at \notin Paging \cup {"flushing", "storing"} => r.batch = <<>>
  /\ r.at \in {"flushing", "storing"} => r.batch # <<>>
  /\ r.at \in {"looking", "fetching"} => ~r.published
  /\ r.at = "fetching" => r.before = Len(R)
  /\ r.published => r.known = p
  /\ r.at \in {"resending", "posting", "recording"} => ~r.known
  /\ r.published /\ r.at # "listing" => r.urls = R
  /\ r.published /\ r.at \notin Showing => S = R
  /\ r.at = "recording" => a > 0
  /\ ~p /\ r.at = "recording" /\ r.stopped => a <= u
  /\ ~p /\ r.at = "recording" /\ ~r.stopped => a <= u + 1
  /\ ~p /\ r.at # "recording" /\ r.stopped => a + 1 <= u
  /\ ~p /\ r.at # "recording" /\ ~r.stopped => a <= u
GalleryAlone ==
  /\ \A i, j \in Ingests : Working(i) /\ Working(j) => i = j
  /\ \A i \in Ingests :
       Working(i) =>
         /\ outcome = NoOutcome
         /\ OneTurn(ingest[i], weather.numbered, nextFile, rows, shown, posted, upsets, albums)
  /\ Distinct(rows)
  /\ IsPartOf(shown, rows)
  /\ posted => albums > 0
  /\ albums <= 1 + upsets
  /\ ~posted /\ (\A i \in Ingests : ~Working(i)) => albums <= upsets
  /\ outcome.of = "ok" => shown = rows /\ albums > 0 /\ posted

(* One ingest at a time and no page missing: row k is page k, and the batch
   goes on behind the rows. *)
Placed(r, F, R) ==
  /\ \A k \in DOMAIN r.batch : F[r.batch[k]] = Len(R) + k
  /\ r.at \in {"paging", "flushing", "storing"} \cup Showing \cup Outgoing =>
       r.next = Len(R) + Len(r.batch) + 1
  /\ r.at \in {"uploading", "putting"} =>
       r.page = Len(R) + Len(r.batch) + 1 /\ r.next = r.page + 1
  /\ r.at \notin {"looking", "fetching"} /\ ~r.hindered => r.listed = GalleryPages
  /\ r.at \in Outgoing => r.listed < r.next
GalleryPlaced ==
  /\ \A k \in DOMAIN rows : files[rows[k]] = k
  /\ \A i \in Ingests : Working(i) => Placed(ingest[i], files, rows)
  /\ outcome.of \in {"ok", "duplicate"} /\ ~outcome.hindered => Len(rows) = GalleryPages

GalleryInv ==
  /\ GalleryShape
  /\ OneIngest => GalleryAlone
  /\ OneIngest /\ ~weather.missing => GalleryPlaced

-----------------------------------------------------------------------------
LEMMA PartOf ==
  ASSUME NEW s \in Seq(Nat), NEW t \in Seq(Nat)
  PROVE  /\ IsPartOf(s, t) <=> Len(s) <= Len(t) /\ \A k \in 1..Len(s) : s[k] = t[k]
         /\ IsPartOf(t, t)
<1>1. ASSUME NEW u \in Seq(Nat), Len(u) <= Len(t)
      PROVE  u = SubSeq(t, 1, Len(u)) <=> \A k \in 1..Len(u) : u[k] = t[k]
  <2>. DEFINE v == SubSeq(t, 1, Len(u))
  <2>1. v \in Seq(Nat) /\ Len(v) = Len(u) /\ \A k \in 1..Len(u) : v[k] = t[k]
    BY <1>1
  <2>. HIDE DEF v
  <2>2. (\A k \in 1..Len(u) : u[k] = t[k]) => u = v
    <3>1. u \in [1..Len(u) -> Nat] /\ v \in [1..Len(u) -> Nat]
      BY <2>1
    <3>2. ASSUME \A k \in 1..Len(u) : u[k] = t[k] PROVE \A k \in 1..Len(u) : u[k] = v[k]
      BY <2>1, <3>2
    <3>3. (\A k \in 1..Len(u) : u[k] = v[k]) => u = v
      BY <3>1
    <3>. QED
      BY <3>2, <3>3
  <2>3. u = v <=> \A k \in 1..Len(u) : u[k] = t[k]
    BY <2>1, <2>2
  <2>. QED
    BY <2>3 DEF v
<1>2. IsPartOf(s, t) <=> Len(s) <= Len(t) /\ \A k \in 1..Len(s) : s[k] = t[k]
  BY <1>1 DEF IsPartOf
<1>3. IsPartOf(t, t)
  BY <1>1 DEF IsPartOf
<1>. QED
  BY <1>2, <1>3

LEMMA RestType == AtRest \in IngestType
BY GalleryAssumption DEF AtRest, IngestType, Places

LEMMA RestShape ==
  ASSUME NEW F, Len(F) \in Nat, NEW R, NEW S
  PROVE  IngestShape(AtRest, F, R, S)
<1>1. AtRest.at = "rest" /\ AtRest.number = 0 /\ AtRest.batch = <<>> /\ AtRest.urls = <<>>
      /\ ~AtRest.published
  BY DEF AtRest
<1>. QED
  BY <1>1, RestType DEF IngestShape, Elements, Showing, Outgoing

LEMMA ShapeStays ==
  ASSUME NEW r, NEW F, NEW R, NEW S, NEW F2, NEW R2, NEW S2,
         Len(F) \in Nat, Len(F2) \in Nat, DOMAIN F \subseteq DOMAIN F2, Len(F) <= Len(F2),
         R # <<>> => R2 # <<>>, S # <<>> => S2 # <<>>, IngestShape(r, F, R, S)
  PROVE  IngestShape(r, F2, R2, S2)
<1>1. r.number \in Nat
  BY DEF IngestShape, IngestType
<1>. QED
  BY <1>1 DEF IngestShape

LEMMA ShapeStep ==
  ASSUME GalleryShape, NEW i \in Ingests, NEW r, Turns(i, r), GalleryVarsOK',
         Len(files) <= Len(files'),
         rows # <<>> => rows' # <<>>, shown # <<>> => shown' # <<>>, albums' > 0 => shown' # <<>>,
         IngestShape(r, files', rows', shown')
  PROVE  GalleryShape'
<1>1. ingest' = [ingest EXCEPT ![i] = r] /\ r \in IngestType
  BY DEF Turns, IngestShape
<1>2. ingest' \in [Ingests -> IngestType]
  BY <1>1 DEF GalleryShape
<1>3. ASSUME NEW j \in Ingests PROVE IngestShape(ingest'[j], files', rows', shown')
  <2>1. CASE j = i
    BY <2>1, <1>1 DEF GalleryShape
  <2>2. CASE j # i
    <3>1. ingest'[j] = ingest[j]
      BY <2>2, <1>1 DEF GalleryShape
    <3>2. Len(files) \in Nat /\ Len(files') \in Nat /\ DOMAIN files \subseteq DOMAIN files'
      <4>1. files \in Seq(1..GalleryPages) /\ files' \in Seq(1..GalleryPages)
        BY DEF GalleryShape, GalleryVarsOK
      <4>. QED
        BY <4>1
    <3>3. IngestShape(ingest[j], files, rows, shown)
      BY DEF GalleryShape
    <3>4. IngestShape(ingest[j], files', rows', shown')
      BY <3>2, <3>3, ShapeStays
    <3>. QED
      BY <3>1, <3>4
  <2>. QED
    BY <2>1, <2>2
<1>. QED
  BY <1>2, <1>3 DEF GalleryShape

LEMMA AloneStep ==
  ASSUME GalleryShape, GalleryAlone, NEW i \in Ingests, Working(i), NEW r, Turns(i, r), r.at # "rest",
         outcome' = outcome,
         OneTurn(r, weather.numbered', nextFile', rows', shown', posted', upsets', albums'),
         Distinct(rows'), IsPartOf(shown', rows'), posted' => albums' > 0, albums' <= 1 + upsets'
  PROVE  GalleryAlone'
<1>1. ingest' = [ingest EXCEPT ![i] = r] /\ ingest \in [Ingests -> IngestType]
  BY DEF Turns, GalleryShape
<1>2. \A j \in Ingests : Working(j)' => j = i
  BY <1>1 DEF Working, Doing, GalleryAlone
<1>3. ingest'[i] = r /\ Working(i)' /\ outcome' = NoOutcome /\ outcome'.of = "none"
  BY <1>1 DEF Working, Doing, GalleryAlone, NoOutcome
<1>. QED
  BY <1>2, <1>3 DEF GalleryAlone

LEMMA AloneEnd ==
  ASSUME GalleryShape, GalleryAlone, NEW i \in Ingests, Working(i), NEW how \in Ways, EndsAs(i, how),
         Distinct(rows'), IsPartOf(shown', rows'), posted' => albums' > 0, albums' <= 1 + upsets',
         ~posted' => albums' <= upsets',
         how = "ok" => shown' = rows' /\ albums' > 0 /\ posted'
  PROVE  GalleryAlone'
<1>1. ingest' = [ingest EXCEPT ![i] = AtRest] /\ ingest \in [Ingests -> IngestType]
  BY DEF Turns, EndsAs, GalleryShape
<1>2. AtRest.at = "rest"
  BY DEF AtRest
<1>3. \A j \in Ingests : ~Working(j)'
  BY <1>1, <1>2 DEF Working, Doing, GalleryAlone
<1>4. outcome'.of = how
  BY DEF EndsAs
<1>. QED
  BY <1>3, <1>4 DEF GalleryAlone

LEMMA PlacedStep ==
  ASSUME GalleryShape, GalleryAlone, GalleryPlaced, NEW i \in Ingests, Working(i), NEW r, Turns(i, r),
         outcome' = outcome, Placed(r, files', rows'),
         \A k \in DOMAIN rows' : files'[rows'[k]] = k
  PROVE  GalleryPlaced'
<1>1. ingest' = [ingest EXCEPT ![i] = r] /\ ingest \in [Ingests -> IngestType]
  BY DEF Turns, GalleryShape
<1>2. \A j \in Ingests : Working(j)' => j = i
  BY <1>1 DEF Working, Doing, GalleryAlone
<1>3. ingest'[i] = r /\ outcome'.of = "none"
  BY <1>1 DEF GalleryAlone, NoOutcome
<1>. QED
  BY <1>2, <1>3 DEF GalleryPlaced

LEMMA PlacedEnd ==
  ASSUME GalleryShape, GalleryAlone, GalleryPlaced, NEW i \in Ingests, Working(i), NEW how \in Ways,
         EndsAs(i, how), \A k \in DOMAIN rows' : files'[rows'[k]] = k,
         how \in {"ok", "duplicate"} /\ ~ingest[i].hindered => Len(rows') = GalleryPages
  PROVE  GalleryPlaced'
<1>1. ingest' = [ingest EXCEPT ![i] = AtRest] /\ ingest \in [Ingests -> IngestType]
  BY DEF Turns, EndsAs, GalleryShape
<1>2. AtRest.at = "rest"
  BY DEF AtRest
<1>3. \A j \in Ingests : ~Working(j)'
  BY <1>1, <1>2 DEF Working, Doing, GalleryAlone
<1>4. outcome'.of = how /\ outcome'.hindered = ingest[i].hindered
  BY DEF EndsAs, Doing
<1>. QED
  BY <1>3, <1>4 DEF GalleryPlaced

(* What holds of the ingest that works. *)
LEMMA AtWork ==
  ASSUME GalleryInv, NEW i \in Ingests, Working(i)
  PROVE  /\ ingest[i] \in IngestType /\ IngestShape(ingest[i], files, rows, shown)
         /\ OneIngest => GalleryAlone
         /\ OneIngest => outcome = NoOutcome /\
              OneTurn(ingest[i], weather.numbered, nextFile, rows, shown, posted, upsets, albums)
         /\ OneIngest /\ ~weather.missing => GalleryPlaced /\ Placed(ingest[i], files, rows)
BY DEF GalleryInv, GalleryShape, GalleryAlone, GalleryPlaced

LEMMA GalleryTypes ==
  ASSUME GalleryInv
  PROVE  /\ files \in Seq(1..GalleryPages) /\ Len(files) \in Nat /\ DOMAIN files = 1..Len(files)
         /\ nextFile \in 1..(Len(files) + 1) /\ nextFile \in Nat
         /\ rows \in Seq(DOMAIN files) /\ rows \in Seq(Nat) /\ Len(rows) \in Nat
         /\ shown \in Seq(DOMAIN files) /\ shown \in Seq(Nat)
         /\ albums \in Nat /\ upsets \in Nat /\ upsets \in 0..weather.upsets
         /\ posted \in BOOLEAN /\ weather \in Weathers
         /\ GalleryPages \in Nat \ {0} /\ FlushEvery \in Nat \ {0}
<1>1. files \in Seq(1..GalleryPages) /\ rows \in Seq(DOMAIN files) /\ shown \in Seq(DOMAIN files)
      /\ nextFile \in 1..(Len(files) + 1) /\ albums \in Nat /\ upsets \in 0..weather.upsets
      /\ posted \in BOOLEAN /\ weather \in Weathers
  BY DEF GalleryInv, GalleryShape, GalleryVarsOK
<1>2. Len(files) \in Nat /\ DOMAIN files = 1..Len(files) /\ DOMAIN files \subseteq Nat
  BY <1>1
<1>3. rows \in Seq(Nat) /\ shown \in Seq(Nat)
  BY <1>1, <1>2, SeqMonotonic
<1>4. weather.upsets \in Nat
  BY <1>1, GalleryAssumption
<1>. QED
  BY <1>1, <1>2, <1>3, <1>4, GalleryAssumption

(* An ingest that only goes on. *)
LEMMA MovesKeepsRows ==
  ASSUME GalleryInv, NEW i \in Ingests, Working(i), NEW r, Turns(i, r), r.at # "rest",
         UNCHANGED <<weather, listening, files, rows, posted, shown, albums, outcome, backfills>>,
         nextFile' \in 1..(Len(files) + 1), upsets' \in 0..weather.upsets, upsets <= upsets',
         IngestShape(r, files, rows, shown),
         OneIngest => OneTurn(r, weather.numbered, nextFile', rows, shown, posted, upsets', albums),
         OneIngest /\ ~weather.missing => Placed(r, files, rows)
  PROVE  GalleryInv'
<1>1. GalleryVarsOK'
  BY DEF GalleryInv, GalleryShape, GalleryVarsOK
<1>2. GalleryShape'
  BY <1>1, GalleryTypes, ShapeStep DEF GalleryInv, GalleryShape
<1>3. ASSUME OneIngest PROVE GalleryAlone'
  <2>1. albums' <= 1 + upsets' /\ Distinct(rows') /\ IsPartOf(shown', rows') /\ (posted' => albums' > 0)
    BY <1>3, GalleryTypes DEF GalleryInv, GalleryAlone
  <2>2. OneTurn(r, weather.numbered', nextFile', rows', shown', posted', upsets', albums')
    BY <1>3
  <2>3. outcome' = outcome
    OBVIOUS
  <2>. QED
    BY <1>3, <2>1, <2>2, <2>3, AloneStep DEF GalleryInv
<1>4. ASSUME OneIngest, ~weather.missing PROVE GalleryPlaced'
  <2>1. Placed(r, files', rows') /\ \A k \in DOMAIN rows' : files'[rows'[k]] = k
    BY <1>4 DEF GalleryInv, GalleryPlaced
  <2>. QED
    BY <1>4, <2>1, PlacedStep DEF GalleryInv
<1>. QED
  BY <1>2, <1>3, <1>4 DEF GalleryInv, OneIngest

(* An ingest that ends without an album. *)
LEMMA EndsKeepsRows ==
  ASSUME GalleryInv, NEW i \in Ingests, Working(i), NEW how \in Ways \ {"ok"}, EndsAs(i, how),
         UNCHANGED <<weather, listening, nextFile, rows, posted, albums, backfills>>,
         upsets' \in 0..weather.upsets, upsets <= upsets',
         ingest[i].at # "recording",
         files' \in Seq(1..GalleryPages), Len(files) <= Len(files'),
         OneIngest => \A k \in DOMAIN rows : files'[rows[k]] = files[rows[k]],
         \/ shown' = shown
         \/ (ingest[i].at \in {"showing", "resending"} /\ shown' = ingest[i].urls),
         OneIngest /\ ~weather.missing /\ how = "duplicate" => Len(rows) = GalleryPages
  PROVE  GalleryInv'
<1>0. Len(files') \in Nat /\ DOMAIN files \subseteq DOMAIN files'
  BY GalleryTypes
<1>1. /\ ingest[i] \in IngestType /\ IngestShape(ingest[i], files, rows, shown)
      /\ ingest[i].at \in {"showing", "resending"} =>
           ingest[i].urls # <<>> /\ ingest[i].urls \in Seq(DOMAIN files)
  <2>1. ingest[i] \in IngestType /\ IngestShape(ingest[i], files, rows, shown)
    BY AtWork
  <2>2. ASSUME ingest[i].at \in {"showing", "resending"}
        PROVE  ingest[i].urls # <<>> /\ ingest[i].urls \in Seq(DOMAIN files)
    <3>1. ingest[i].urls \in Seq(Nat) /\ Elements(ingest[i].urls) \subseteq DOMAIN files
          /\ ingest[i].urls # <<>>
      BY <2>1, <2>2 DEF IngestShape, IngestType, Showing, Outgoing
    <3>2. ingest[i].urls \in Seq(DOMAIN files)
      BY <3>1, SeqOf
    <3>. QED
      BY <3>1, <3>2
  <2>. QED
    BY <2>1, <2>2
<1>2. shown' \in Seq(DOMAIN files') /\ rows' \in Seq(DOMAIN files')
  <2>1. shown' \in Seq(DOMAIN files) /\ rows' \in Seq(DOMAIN files)
    BY <1>1, GalleryTypes
  <2>. QED
    BY <2>1, <1>0, SeqMonotonic
<1>3. GalleryVarsOK'
  <2>1. outcome'.of \in {"none"} \cup Ways
    BY DEF EndsAs
  <2>2. nextFile' \in 1..(Len(files') + 1)
    BY <1>0, GalleryTypes
  <2>. QED
    BY <1>2, <2>1, <2>2 DEF GalleryInv, GalleryShape, GalleryVarsOK
<1>4. GalleryShape'
  <2>1. Turns(i, AtRest)
    BY DEF EndsAs
  <2>2. (shown # <<>> => shown' # <<>>) /\ (albums' > 0 => shown' # <<>>)
    BY <1>1 DEF GalleryInv, GalleryShape
  <2>3. IngestShape(AtRest, files', rows', shown')
    BY <1>0, RestShape
  <2>. QED
    BY <1>3, <2>1, <2>2, <2>3, ShapeStep DEF GalleryInv
<1>5. ASSUME OneIngest PROVE GalleryAlone'
  <2>. DEFINE r == ingest[i]
  <2>1. OneTurn(r, weather.numbered, nextFile, rows, shown, posted, upsets, albums) /\ GalleryAlone
    BY <1>5, AtWork
  <2>2. IsPartOf(shown', rows')
    <3>1. CASE shown' = shown
      BY <3>1, <2>1 DEF GalleryAlone
    <3>2. CASE r.at \in {"showing", "resending"} /\ shown' = r.urls
      <4>1. r.urls = rows
        BY <1>1, <3>2, <2>1 DEF OneTurn, IngestShape, Showing, Outgoing
      <4>. QED
        BY <3>2, <4>1, GalleryTypes, PartOf
    <3>. QED
      BY <3>1, <3>2
  <2>3. r.stopped \in BOOLEAN
    BY <1>1 DEF IngestType
  <2>4. ~posted => albums <= upsets
    BY <2>1, <2>3, GalleryTypes DEF OneTurn
  <2>5. /\ Distinct(rows') /\ (posted' => albums' > 0) /\ albums' <= 1 + upsets'
        /\ ~posted' => albums' <= upsets'
    BY <2>1, <2>4, GalleryTypes DEF GalleryAlone
  <2>. QED
    BY <2>1, <2>2, <2>5, AloneEnd DEF GalleryInv
<1>6. ASSUME OneIngest, ~weather.missing PROVE GalleryPlaced'
  <2>1. \A k \in DOMAIN rows' : files'[rows'[k]] = k
    BY <1>6 DEF GalleryInv, GalleryPlaced
  <2>. QED
    BY <1>6, <2>1, PlacedEnd DEF GalleryInv
<1>. QED
  BY <1>4, <1>5, <1>6 DEF GalleryInv, OneIngest

LEMMA AfterStoredFacts ==
  ASSUME GalleryInv
  PROVE  /\ AfterStored \in 1..(Len(files) + 1)
         /\ \A n \in Elements(rows) : n < AfterStored
<1>. DEFINE E == Elements(rows)
<1>0. rows \in Seq(1..Len(files)) /\ Len(files) \in Nat
  BY GalleryTypes
<1>1. E \subseteq 1..Len(files) /\ Len(files) \in Nat /\ (rows # <<>> => E # {})
  <2>1. rows # <<>> => 1 \in DOMAIN rows
    BY <1>0
  <2>2. E \subseteq 1..Len(files)
    BY <1>0 DEF Elements
  <2>. QED
    BY <1>0, <2>1, <2>2 DEF Elements
<1>2. CASE rows = <<>>
  <2>1. E = {} /\ AfterStored = 1
    BY <1>2, <1>1 DEF Elements, AfterStored, Known
  <2>. QED
    BY <1>1, <2>1
<1>3. CASE rows # <<>>
  <2>. DEFINE bounds == {n \in Nat : \A m \in E : m <= n}
  <2>1. Len(files) \in bounds /\ bounds \subseteq Nat
    <3>1. \A m \in E : m <= Len(files)
      BY <1>1
    <3>. QED
      BY <1>1, <3>1
  <2>2. PICK n \in bounds : \A m \in bounds : n <= m
    BY <2>1, LeastCounterexample
  <2>3. n \in E
    <3>1. SUFFICES ASSUME n \notin E PROVE FALSE
      OBVIOUS
    <3>2. \A m \in E : m \in Nat /\ m <= n /\ m # n /\ 1 <= m
      BY <1>1, <2>2, <3>1
    <3>3. n # 0
      BY <1>1, <1>3, <3>2
    <3>4. n - 1 \in Nat /\ \A m \in E : m <= n - 1
      BY <2>2, <3>2, <3>3
    <3>. QED
      BY <2>2, <3>4
  <2>. DEFINE last == CHOOSE k \in E : \A m \in E : m <= k
  <2>4. last \in E /\ \A m \in E : m <= last
    <3>1. n \in E /\ \A m \in E : m <= n
      BY <2>2, <2>3
    <3>. HIDE DEF E
    <3>. QED
      BY <3>1
  <2>5. AfterStored = 1 + last
    BY <1>3 DEF AfterStored, Known
  <2>. HIDE DEF last, E
  <2>6. last \in 1..Len(files) /\ \A m \in E : m < 1 + last
    BY <1>1, <2>4
  <2>. QED
    BY <1>1, <2>5, <2>6 DEF E
<1>. QED
  BY <1>2, <1>3

LEMMA CountsKeepsRows ==
  ASSUME GalleryInv, NEW i \in Ingests, CountsStored(i)
  PROVE  GalleryInv'
<1>. DEFINE r == ingest[i]
            t == [r EXCEPT !.at = "fetching", !.before = Len(rows)]
<1>1. Working(i) /\ r.at = "looking" /\ Turns(i, t)
      /\ UNCHANGED <<weather, listening, files, rows, posted, shown, albums, outcome, backfills, upsets>>
      /\ nextFile' = IF weather.numbered THEN RememberGroup ELSE nextFile
  BY DEF CountsStored, Working, Doing
<1>2. r \in IngestType /\ IngestShape(r, files, rows, shown)
  BY <1>1, AtWork
<1>3. t \in IngestType
  BY <1>2, GalleryTypes DEF IngestType, Places
<1>4. /\ t.at = "fetching" /\ t.before = Len(rows) /\ t.batch = r.batch /\ t.urls = r.urls
      /\ t.number = r.number /\ t.published = r.published /\ t.stopped = r.stopped
      /\ t.known = r.known
  BY <1>2 DEF IngestType
<1>. HIDE DEF t
<1>5. /\ nextFile' \in 1..(Len(files) + 1)
      /\ weather.numbered => \A n \in Elements(rows) : n < nextFile'
  <2>1. Elements(rows) \subseteq Nat
    BY GalleryTypes DEF Elements
  <2>. QED
    BY <1>1, <2>1, GalleryTypes, AfterStoredFacts DEF RememberGroup
<1>6. IngestShape(t, files, rows, shown)
  BY <1>1, <1>2, <1>3, <1>4 DEF IngestShape, Showing, Outgoing
<1>7. ASSUME OneIngest
      PROVE  OneTurn(t, weather.numbered, nextFile', rows, shown, posted, upsets', albums)
  <2>1. OneTurn(r, weather.numbered, nextFile, rows, shown, posted, upsets, albums)
    BY <1>1, <1>7, AtWork
  <2>2. r.batch = <<>> /\ Elements(r.batch) = {}
    <3>1. r.batch = <<>>
      BY <1>1, <2>1 DEF OneTurn, Paging
    <3>. QED
      BY <3>1 DEF Elements
  <2>. QED
    BY <1>1, <1>4, <1>5, <2>1, <2>2 DEF OneTurn, Paging
<1>8. ASSUME OneIngest, ~weather.missing PROVE Placed(t, files, rows)
  <2>1. Placed(r, files, rows)
    BY <1>1, <1>8, AtWork
  <2>. QED
    BY <1>1, <1>4, <2>1 DEF Placed, Showing, Outgoing
<1>9. upsets' \in 0..weather.upsets /\ upsets <= upsets'
  BY <1>1, GalleryTypes
<1>. QED
  BY <1>1, <1>4, <1>5, <1>6, <1>7, <1>8, <1>9, MovesKeepsRows

LEMMA UpsetFacts ==
  ASSUME GalleryInv, NEW i \in Ingests, NoUpset \/ Upset \/ GoesWrong(i)
  PROVE  upsets' \in 0..weather.upsets /\ upsets <= upsets'
<1>1. upsets \in Nat /\ weather.upsets \in Nat /\ upsets <= weather.upsets
  BY GalleryTypes, GalleryAssumption
<1>. QED
  BY <1>1 DEF NoUpset, Upset, GoesWrong

(* An ingest that ends although it has changed nothing. *)
LEMMA GivesUp ==
  ASSUME GalleryInv, NEW i \in Ingests, Working(i), NEW how \in Ways \ {"ok"}, EndsAs(i, how),
         UNCHANGED <<weather, listening, files, nextFile, rows, posted, shown, albums, backfills>>,
         NoUpset \/ Upset \/ GoesWrong(i), ingest[i].at # "recording",
         OneIngest /\ ~weather.missing /\ how = "duplicate" => Len(rows) = GalleryPages
  PROVE  GalleryInv'
<1>1. upsets' \in 0..weather.upsets /\ upsets <= upsets'
  BY UpsetFacts
<1>2. files' \in Seq(1..GalleryPages) /\ Len(files) <= Len(files')
  BY GalleryTypes
<1>3. shown' = shown /\ \A k \in DOMAIN rows : files'[rows[k]] = files[rows[k]]
  OBVIOUS
<1>. QED
  BY <1>1, <1>2, <1>3, EndsKeepsRows

LEMMA RowsFit ==
  ASSUME GalleryInv, OneIngest, ~weather.missing
  PROVE  Len(rows) <= GalleryPages
<1>1. ASSUME Len(rows) > GalleryPages PROVE FALSE
  <2>1. Len(rows) \in DOMAIN rows /\ rows[Len(rows)] \in DOMAIN files
    <3>1. Len(rows) \in 1..Len(rows) /\ rows \in Seq(DOMAIN files)
      BY <1>1, GalleryTypes
    <3>. QED
      BY <3>1
  <2>2. files[rows[Len(rows)]] \in 1..GalleryPages
    BY <2>1, GalleryTypes
  <2>3. files[rows[Len(rows)]] = Len(rows)
    BY <2>1 DEF GalleryInv, GalleryPlaced
  <2>4. Len(rows) <= GalleryPages
    BY <2>2, <2>3
  <2>. QED
    BY <1>1, <2>4, GalleryTypes
<1>. QED
  BY <1>1, GalleryTypes

LEMMA StartsPaging ==
  ASSUME GalleryInv, NEW i \in Ingests, Doing(i).at = "fetching", NEW n \in 1..GalleryPages,
         n > Doing(i).before, NoUpset \/ Upset,
         Turns(i, [Doing(i) EXCEPT !.at = "paging", !.listed = n, !.next = ResumeAt(Doing(i).before),
                                   !.hindered = n < GalleryPages]),
         UNCHANGED <<weather, listening, files, nextFile, rows, posted, shown, albums, outcome,
                     backfills>>
  PROVE  GalleryInv'
<1>. DEFINE r == Doing(i)
            t == [r EXCEPT !.at = "paging", !.listed = n, !.next = ResumeAt(r.before),
                           !.hindered = n < GalleryPages]
<1>1. r = ingest[i] /\ r.at = "fetching" /\ Working(i) /\ Turns(i, t)
  BY DEF Working, Doing
<1>2. r \in IngestType /\ IngestShape(r, files, rows, shown)
  BY <1>1, AtWork
<1>3. /\ t \in IngestType
      /\ t.at = "paging" /\ t.listed = n /\ t.next = r.before + 1 /\ t.batch = r.batch
      /\ t.urls = r.urls /\ t.number = r.number /\ t.published = r.published
      /\ t.stopped = r.stopped /\ t.known = r.known /\ t.hindered = (n < GalleryPages)
  <2>1. n > r.before
    OBVIOUS
  <2>. HIDE DEF r
  <2>2. GalleryPages \in Nat /\ r.before \in Nat
    BY <1>2, GalleryTypes DEF IngestType
  <2>3. n \in 0..GalleryPages /\ r.before + 1 \in 1..(GalleryPages + 1)
    BY <2>1, <2>2
  <2>4. "paging" \in Places /\ (n < GalleryPages) \in BOOLEAN
    BY DEF Places
  <2>5. t \in IngestType
    BY <1>2, <2>3, <2>4 DEF IngestType, ResumeAt
  <2>. QED
    BY <1>2, <2>5 DEF IngestType, ResumeAt
<1>4. upsets' \in 0..weather.upsets /\ upsets <= upsets' /\ upsets \in Nat /\ albums \in Nat
  BY UpsetFacts, GalleryTypes
<1>. HIDE DEF t, r
<1>5. r.before \in Nat /\ r.stopped \in BOOLEAN /\ n \in Nat /\ r.before + 1 <= n + 1
  <2>1. r.before \in Nat /\ r.stopped \in BOOLEAN
    BY <1>2 DEF IngestType
  <2>. QED
    BY <2>1, GalleryTypes DEF r
<1>6. IngestShape(t, files, rows, shown)
  BY <1>1, <1>2, <1>3, <1>5 DEF IngestShape, Showing, Outgoing
<1>7. ASSUME OneIngest
      PROVE  OneTurn(t, weather.numbered, nextFile', rows, shown, posted, upsets', albums)
  <2>1. OneTurn(r, weather.numbered, nextFile, rows, shown, posted, upsets, albums)
    BY <1>1, <1>7, AtWork
  <2>2. ~r.published
    BY <1>1, <2>1 DEF OneTurn
  <2>. QED
    BY <1>1, <1>3, <1>4, <1>5, <2>1, <2>2 DEF OneTurn, Paging
<1>8. ASSUME OneIngest, ~weather.missing PROVE Placed(t, files, rows)
  <2>1. Placed(r, files, rows) /\ r.before = Len(rows) /\ r.batch = <<>>
    BY <1>1, <1>8, AtWork DEF OneTurn, Paging
  <2>2. DOMAIN t.batch = {} /\ Len(t.batch) = 0 /\ Len(rows) \in Nat
    BY <1>3, <2>1, GalleryTypes
  <2>3. ~(n < GalleryPages) => n = GalleryPages
    BY GalleryTypes
  <2>4. t.next = Len(rows) + Len(t.batch) + 1
    BY <1>3, <2>1, <2>2
  <2>. QED
    BY <1>3, <2>2, <2>3, <2>4 DEF Placed, Outgoing
<1>9. t.at # "rest" /\ nextFile' \in 1..(Len(files) + 1)
  BY <1>3, GalleryTypes
<1>. QED
  BY <1>1, <1>4, <1>6, <1>7, <1>8, <1>9, MovesKeepsRows

LEMMA FetchesKeepsRows ==
  ASSUME GalleryInv, NEW i \in Ingests, FetchesGallery(i)
  PROVE  GalleryInv'
<1>. DEFINE r == ingest[i]
<1>1. Working(i) /\ r.at = "fetching"
      /\ UNCHANGED <<weather, listening, files, nextFile, rows, posted, shown, albums, backfills>>
  BY DEF FetchesGallery, Working, Doing
<1>2. r.before \in Nat
  BY <1>1, AtWork DEF IngestType
<1>3. CASE GoesWrong(i) /\ EndsAs(i, "raised")
  BY <1>1, <1>3, GivesUp DEF Ways
<1>4. ASSUME NEW n \in 1..GalleryPages, NoUpset \/ Upset,
             IF r.before > 0 /\ r.before >= GalleryPages THEN EndsAs(i, "duplicate")
             ELSE IF n <= r.before THEN EndsAs(i, "empty")
             ELSE /\ Turns(i, [Doing(i) EXCEPT !.at = "paging", !.listed = n,
                                               !.next = ResumeAt(Doing(i).before),
                                               !.hindered = n < GalleryPages])
                  /\ UNCHANGED outcome
      PROVE  GalleryInv'
  <2>1. CASE r.before > 0 /\ r.before >= GalleryPages
    <3>1. ASSUME OneIngest, ~weather.missing PROVE Len(rows) = GalleryPages
      <4>1. r.before = Len(rows)
        BY <1>1, <3>1, AtWork DEF OneTurn
      <4>. QED
        BY <2>1, <3>1, <4>1, RowsFit, GalleryTypes
    <3>. QED
      BY <1>1, <1>4, <2>1, <3>1, GivesUp DEF Ways
  <2>2. CASE ~(r.before > 0 /\ r.before >= GalleryPages) /\ n <= r.before
    BY <1>1, <1>4, <2>2, GivesUp DEF Ways
  <2>3. CASE ~(r.before > 0 /\ r.before >= GalleryPages) /\ ~(n <= r.before)
    <3>1. n > Doing(i).before /\ Doing(i).at = "fetching"
      BY <1>1, <1>2, <2>3, GalleryTypes DEF Doing
    <3>. QED
      BY <1>1, <1>4, <2>3, <3>1, StartsPaging
  <2>. QED
    BY <2>1, <2>2, <2>3
<1>5. GalleryPages \in 1..GalleryPages /\ 1..(GalleryPages - 1) \subseteq 1..GalleryPages
  BY GalleryTypes
<1>. QED
  BY <1>3, <1>4, <1>5 DEF FetchesGallery, Doing

LEMMA DownloadsKeepsRows ==
  ASSUME GalleryInv, NEW i \in Ingests, Downloads(i)
  PROVE  GalleryInv'
<1>. DEFINE r == Doing(i)
            t == [r EXCEPT !.at = "uploading", !.page = r.next, !.next = @ + 1]
            u == [r EXCEPT !.next = @ + 1, !.hindered = TRUE]
<1>1. r = ingest[i] /\ r.at = "paging" /\ r.next <= r.listed /\ ~r.stopped /\ Working(i)
      /\ UNCHANGED <<weather, listening, files, nextFile, rows, posted, shown, albums, backfills>>
  BY DEF Downloads, Working, Doing
<1>2. \/ NoUpset /\ UNCHANGED outcome /\ Turns(i, t)
      \/ weather.missing /\ Upset /\ UNCHANGED outcome /\ Turns(i, u)
      \/ Upset /\ EndsAs(i, "raised")
  BY DEF Downloads
<1>3. r \in IngestType /\ IngestShape(r, files, rows, shown)
  BY <1>1, AtWork
<1>4. upsets' \in 0..weather.upsets /\ upsets <= upsets' /\ upsets \in Nat /\ albums \in Nat
      /\ nextFile' \in 1..(Len(files) + 1)
  BY <1>1, <1>2, UpsetFacts, GalleryTypes
<1>5. CASE Upset /\ EndsAs(i, "raised")
  BY <1>1, <1>5, GivesUp DEF Ways
<1>. HIDE DEF r
<1>6. r.next \in 1..GalleryPages /\ r.next + 1 \in 1..(GalleryPages + 1) /\ r.next + 1 <= r.listed + 1
      /\ r.next \in 0..GalleryPages
  <2>1. r.next \in 1..(GalleryPages + 1) /\ r.listed \in 0..GalleryPages
    BY <1>3 DEF IngestType
  <2>2. GalleryPages \in Nat /\ r.next \in Nat /\ r.listed \in Nat /\ r.next <= r.listed
        /\ r.listed <= GalleryPages /\ 1 <= r.next
    BY <1>1, <2>1, GalleryAssumption
  <2>. HIDE DEF t, u
  <2>. QED
    BY ONLY <2>2
<1>7. /\ t \in IngestType
      /\ t.at = "uploading" /\ t.listed = r.listed /\ t.next = r.next + 1 /\ t.page = r.next
      /\ t.batch = r.batch /\ t.urls = r.urls /\ t.number = r.number /\ t.published = r.published
      /\ t.stopped = r.stopped /\ t.known = r.known /\ t.hindered = r.hindered
  <2>1. "uploading" \in Places
    BY DEF Places
  <2>2. t \in IngestType
    BY <1>3, <1>6, <2>1 DEF IngestType
  <2>. QED
    BY <1>3, <2>2 DEF IngestType
<1>8. /\ u \in IngestType
      /\ u.at = r.at /\ u.listed = r.listed /\ u.next = r.next + 1
      /\ u.batch = r.batch /\ u.urls = r.urls /\ u.number = r.number /\ u.published = r.published
      /\ u.stopped = r.stopped /\ u.known = r.known
  <2>1. u \in IngestType
    BY <1>3, <1>6 DEF IngestType
  <2>. QED
    BY <1>3, <2>1 DEF IngestType
<1>. HIDE DEF t, u
<1>9. CASE NoUpset /\ UNCHANGED outcome /\ Turns(i, t)
  <2>1. IngestShape(t, files, rows, shown)
    BY <1>1, <1>3, <1>6, <1>7 DEF IngestShape, Showing, Outgoing
  <2>2. ASSUME OneIngest
        PROVE  OneTurn(t, weather.numbered, nextFile', rows, shown, posted, upsets', albums)
    <3>1. OneTurn(r, weather.numbered, nextFile, rows, shown, posted, upsets, albums)
      BY <1>1, <2>2, AtWork
    <3>. QED
      BY <1>1, <1>4, <1>7, <3>1 DEF OneTurn, Paging, Showing
  <2>3. ASSUME OneIngest, ~weather.missing PROVE Placed(t, files, rows)
    <3>1. Placed(r, files, rows)
      BY <1>1, <2>3, AtWork
    <3>2. r.next = Len(rows) + Len(r.batch) + 1
      BY <1>1, <3>1 DEF Placed
    <3>. QED
      BY <1>1, <1>7, <3>1, <3>2 DEF Placed, Showing, Outgoing
  <2>. QED
    BY <1>1, <1>4, <1>7, <1>9, <2>1, <2>2, <2>3, MovesKeepsRows
<1>10. CASE weather.missing /\ Upset /\ UNCHANGED outcome /\ Turns(i, u)
  <2>1. IngestShape(u, files, rows, shown)
    BY <1>1, <1>3, <1>6, <1>8 DEF IngestShape, Showing, Outgoing
  <2>2. ASSUME OneIngest
        PROVE  OneTurn(u, weather.numbered, nextFile', rows, shown, posted, upsets', albums)
    <3>1. OneTurn(r, weather.numbered, nextFile, rows, shown, posted, upsets, albums)
      BY <1>1, <2>2, AtWork
    <3>. QED
      BY <1>1, <1>4, <1>8, <3>1 DEF OneTurn, Paging, Showing
  <2>. QED
    BY <1>1, <1>4, <1>8, <1>10, <2>1, <2>2, MovesKeepsRows
<1>. QED
  BY <1>2, <1>5, <1>9, <1>10

LEMMA MovesOnFields ==
  ASSUME NEW r \in IngestType, NEW place \in Places
  PROVE  LET t == [r EXCEPT !.at = place]
         IN  /\ t \in IngestType
             /\ t.at = place /\ t.before = r.before /\ t.listed = r.listed /\ t.next = r.next
             /\ t.page = r.page /\ t.number = r.number /\ t.batch = r.batch /\ t.urls = r.urls
             /\ t.published = r.published /\ t.stopped = r.stopped /\ t.known = r.known
             /\ t.hindered = r.hindered
<1>1. [r EXCEPT !.at = place] \in IngestType
  BY DEF IngestType
<1>. QED
  BY <1>1 DEF IngestType

(* Paging is over, or interrupted. *)
LEMMA PagingEnds ==
  ASSUME GalleryInv, NEW i \in Ingests, StopsPaging(i) \/ FinishesPaging(i)
  PROVE  GalleryInv'
<1>. DEFINE r == Doing(i)
            s == [r EXCEPT !.at = "flushing", !.leaving = TRUE]
            f == [r EXCEPT !.at = "flushing"]
            o == [r EXCEPT !.at = "outbound"]
<1>1. r = ingest[i] /\ r.at = "paging" /\ Working(i)
      /\ UNCHANGED <<weather, listening, files, nextFile, rows, posted, shown, albums, backfills,
                     upsets>>
  BY DEF StopsPaging, FinishesPaging, Working, Doing
<1>2. r \in IngestType /\ IngestShape(r, files, rows, shown)
  BY <1>1, AtWork
<1>3. upsets' \in 0..weather.upsets /\ upsets <= upsets' /\ nextFile' \in 1..(Len(files) + 1)
      /\ upsets' = upsets /\ NoUpset
  BY <1>1, GalleryTypes DEF NoUpset
<1>4. \/ EndsAs(i, "stopped") \/ EndsAs(i, "failed")
      \/ (r.batch # <<>> /\ UNCHANGED outcome /\ Turns(i, s))
      \/ (r.batch # <<>> /\ UNCHANGED outcome /\ Turns(i, f))
      \/ (r.batch = <<>> /\ r.published /\ r.next > r.listed /\ UNCHANGED outcome /\ Turns(i, o))
  BY DEF StopsPaging, FinishesPaging, MovesOn
<1>5. CASE EndsAs(i, "stopped") \/ EndsAs(i, "failed")
  BY <1>1, <1>3, <1>5, GivesUp DEF Ways
<1>. HIDE DEF r
<1>6. "flushing" \in Places /\ "outbound" \in Places
  BY DEF Places
<1>7. ASSUME NEW t \in {s, f}
      PROVE  /\ t \in IngestType
             /\ t.at = "flushing" /\ t.before = r.before /\ t.listed = r.listed /\ t.next = r.next
             /\ t.page = r.page /\ t.number = r.number /\ t.batch = r.batch /\ t.urls = r.urls
             /\ t.published = r.published /\ t.stopped = r.stopped /\ t.known = r.known
             /\ t.hindered = r.hindered
  <2>1. s \in IngestType /\ f \in IngestType
    BY <1>2, <1>6 DEF IngestType
  <2>. QED
    BY <1>2, <1>7, <2>1 DEF IngestType
<1>8. /\ o \in IngestType
      /\ o.at = "outbound" /\ o.before = r.before /\ o.listed = r.listed /\ o.next = r.next
      /\ o.page = r.page /\ o.number = r.number /\ o.batch = r.batch /\ o.urls = r.urls
      /\ o.published = r.published /\ o.stopped = r.stopped /\ o.known = r.known
      /\ o.hindered = r.hindered
  BY <1>2, <1>6, MovesOnFields
<1>. HIDE DEF s, f, o
<1>9. ASSUME NEW t \in {s, f}, r.batch # <<>>, UNCHANGED outcome, Turns(i, t) PROVE GalleryInv'
  <2>0. /\ t \in IngestType
        /\ t.at = "flushing" /\ t.listed = r.listed /\ t.next = r.next
        /\ t.number = r.number /\ t.batch = r.batch /\ t.urls = r.urls
        /\ t.published = r.published /\ t.stopped = r.stopped /\ t.known = r.known
        /\ t.hindered = r.hindered
    BY <1>7, <1>9
  <2>1. IngestShape(t, files, rows, shown)
    BY <1>1, <1>2, <2>0 DEF IngestShape, Showing, Outgoing
  <2>2. ASSUME OneIngest
        PROVE  OneTurn(t, weather.numbered, nextFile', rows, shown, posted, upsets', albums)
    <3>1. OneTurn(r, weather.numbered, nextFile, rows, shown, posted, upsets, albums)
      BY <1>1, <2>2, AtWork
    <3>. QED
      BY <1>1, <1>3, <1>9, <2>0, <3>1 DEF OneTurn, Paging, Showing
  <2>3. ASSUME OneIngest, ~weather.missing PROVE Placed(t, files, rows)
    <3>1. Placed(r, files, rows)
      BY <1>1, <2>3, AtWork
    <3>. QED
      BY <1>1, <2>0, <3>1 DEF Placed, Showing, Outgoing
  <2>. QED
    BY <1>1, <1>3, <1>9, <2>0, <2>1, <2>2, <2>3, MovesKeepsRows
<1>10. CASE r.batch = <<>> /\ r.published /\ r.next > r.listed /\ UNCHANGED outcome /\ Turns(i, o)
  <2>1. IngestShape(o, files, rows, shown)
    BY <1>1, <1>2, <1>8, <1>10 DEF IngestShape, Showing, Outgoing
  <2>2. ASSUME OneIngest
        PROVE  OneTurn(o, weather.numbered, nextFile', rows, shown, posted, upsets', albums)
    <3>1. OneTurn(r, weather.numbered, nextFile, rows, shown, posted, upsets, albums)
      BY <1>1, <2>2, AtWork
    <3>. QED
      BY <1>1, <1>3, <1>8, <1>10, <3>1 DEF OneTurn, Paging, Showing
  <2>3. ASSUME OneIngest, ~weather.missing PROVE Placed(o, files, rows)
    <3>1. Placed(r, files, rows)
      BY <1>1, <2>3, AtWork
    <3>2. r.next \in Nat /\ r.listed \in Nat
      BY <1>2, GalleryTypes DEF IngestType
    <3>. QED
      BY <1>1, <1>8, <1>10, <3>1, <3>2 DEF Placed, Showing, Outgoing
  <2>. QED
    BY <1>1, <1>3, <1>8, <1>10, <2>1, <2>2, <2>3, MovesKeepsRows
<1>. QED
  BY <1>4, <1>5, <1>9, <1>10

(* Steps that only remember something on the way. *)
LEMMA TakesKeepsRows ==
  ASSUME GalleryInv, NEW i \in Ingests, TakesNumber(i)
  PROVE  GalleryInv'
<1>. DEFINE r == Doing(i)
            t == [r EXCEPT !.at = "putting", !.number = IF @ < nextFile THEN nextFile ELSE @]
<1>1. r = ingest[i] /\ r.at = "uploading" /\ Working(i) /\ Turns(i, t)
      /\ UNCHANGED <<weather, listening, files, nextFile, rows, posted, shown, albums, outcome,
                     backfills, upsets>>
  BY DEF TakesNumber, Working, Doing
<1>2. r \in IngestType /\ IngestShape(r, files, rows, shown)
  BY <1>1, AtWork
<1>3. upsets' \in 0..weather.upsets /\ upsets <= upsets' /\ nextFile' \in 1..(Len(files) + 1)
      /\ upsets' = upsets /\ nextFile \in 1..(Len(files) + 1) /\ Len(files) \in Nat
  BY <1>1, GalleryTypes
<1>. HIDE DEF r
<1>4. r.number \in Nat /\ r.number <= Len(files) + 1
  BY <1>2 DEF IngestType, IngestShape
<1>5. /\ t \in IngestType
      /\ t.at = "putting" /\ t.listed = r.listed /\ t.next = r.next /\ t.page = r.page
      /\ t.batch = r.batch /\ t.urls = r.urls /\ t.published = r.published
      /\ t.stopped = r.stopped /\ t.known = r.known /\ t.hindered = r.hindered
      /\ t.number = IF r.number < nextFile THEN nextFile ELSE r.number
  <2>1. "putting" \in Places /\ (IF r.number < nextFile THEN nextFile ELSE r.number) \in Nat
    BY <1>3, <1>4 DEF Places
  <2>2. t \in IngestType
    BY <1>2, <2>1 DEF IngestType
  <2>. QED
    BY <1>2, <2>2 DEF IngestType
<1>. HIDE DEF t
<1>6. nextFile <= t.number /\ t.number # 0 /\ t.number <= Len(files) + 1
  BY <1>3, <1>4, <1>5
<1>7. IngestShape(t, files, rows, shown)
  BY <1>1, <1>2, <1>5, <1>6 DEF IngestShape, Showing, Outgoing
<1>8. ASSUME OneIngest
      PROVE  OneTurn(t, weather.numbered, nextFile', rows, shown, posted, upsets', albums)
  <2>1. OneTurn(r, weather.numbered, nextFile, rows, shown, posted, upsets, albums)
    BY <1>1, <1>8, AtWork
  <2>. QED
    BY <1>1, <1>3, <1>5, <1>6, <2>1 DEF OneTurn, Paging, Showing
<1>9. ASSUME OneIngest, ~weather.missing PROVE Placed(t, files, rows)
  <2>1. Placed(r, files, rows)
    BY <1>1, <1>9, AtWork
  <2>. QED
    BY <1>1, <1>5, <2>1 DEF Placed, Showing, Outgoing
<1>. QED
  BY <1>1, <1>3, <1>5, <1>7, <1>8, <1>9, MovesKeepsRows

LEMMA ReadsKeepsRows ==
  ASSUME GalleryInv, NEW i \in Ingests, FlushReads(i)
  PROVE  GalleryInv'
<1>. DEFINE r == Doing(i)
            t == [r EXCEPT !.at = "storing", !.read = Len(rows)]
<1>1. r = ingest[i] /\ r.at = "flushing" /\ Working(i) /\ Turns(i, t)
      /\ UNCHANGED <<weather, listening, files, nextFile, rows, posted, shown, albums, outcome,
                     backfills, upsets>>
  BY DEF FlushReads, Working, Doing
<1>2. r \in IngestType /\ IngestShape(r, files, rows, shown)
  BY <1>1, AtWork
<1>3. upsets' \in 0..weather.upsets /\ upsets <= upsets' /\ nextFile' \in 1..(Len(files) + 1)
      /\ upsets' = upsets /\ Len(rows) \in Nat
  BY <1>1, GalleryTypes
<1>. HIDE DEF r
<1>5. /\ t \in IngestType
      /\ t.at = "storing" /\ t.listed = r.listed /\ t.next = r.next
      /\ t.batch = r.batch /\ t.urls = r.urls /\ t.published = r.published
      /\ t.stopped = r.stopped /\ t.known = r.known /\ t.hindered = r.hindered
      /\ t.number = r.number
  <2>1. "storing" \in Places
    BY DEF Places
  <2>2. t \in IngestType
    BY <1>2, <1>3, <2>1 DEF IngestType
  <2>. QED
    BY <1>2, <2>2 DEF IngestType
<1>. HIDE DEF t
<1>7. IngestShape(t, files, rows, shown)
  BY <1>1, <1>2, <1>5 DEF IngestShape, Showing, Outgoing
<1>8. ASSUME OneIngest
      PROVE  OneTurn(t, weather.numbered, nextFile', rows, shown, posted, upsets', albums)
  <2>1. OneTurn(r, weather.numbered, nextFile, rows, shown, posted, upsets, albums)
    BY <1>1, <1>8, AtWork
  <2>. QED
    BY <1>1, <1>3, <1>5, <2>1 DEF OneTurn, Paging, Showing
<1>9. ASSUME OneIngest, ~weather.missing PROVE Placed(t, files, rows)
  <2>1. Placed(r, files, rows)
    BY <1>1, <1>9, AtWork
  <2>. QED
    BY <1>1, <1>5, <2>1 DEF Placed, Showing, Outgoing
<1>. QED
  BY <1>1, <1>3, <1>5, <1>7, <1>8, <1>9, MovesKeepsRows

LEMMA ListsKeepsRows ==
  ASSUME GalleryInv, NEW i \in Ingests, FlushLists(i)
  PROVE  GalleryInv'
<1>. DEFINE r == Doing(i)
            t == [r EXCEPT !.at = "showing", !.urls = ListedRows(i)]
<1>1. r = ingest[i] /\ r.at = "listing" /\ Working(i) /\ Turns(i, t)
      /\ UNCHANGED <<weather, listening, files, nextFile, rows, posted, shown, albums, outcome,
                     backfills, upsets>>
  BY DEF FlushLists, Working, Doing
<1>2. r \in IngestType /\ IngestShape(r, files, rows, shown)
  BY <1>1, AtWork
<1>3. upsets' \in 0..weather.upsets /\ upsets <= upsets' /\ nextFile' \in 1..(Len(files) + 1)
      /\ upsets' = upsets /\ rows \in Seq(Nat) /\ Elements(rows) \subseteq DOMAIN files
  BY <1>1, GalleryTypes DEF Elements
<1>. HIDE DEF r
<1>5. /\ t \in IngestType
      /\ t.at = "showing" /\ t.listed = r.listed /\ t.next = r.next
      /\ t.batch = r.batch /\ t.urls = rows /\ t.published = r.published
      /\ t.stopped = r.stopped /\ t.known = r.known /\ t.hindered = r.hindered
      /\ t.number = r.number
  <2>1. "showing" \in Places
    BY DEF Places
  <2>2. t \in IngestType
    BY <1>2, <1>3, <2>1 DEF IngestType, ListedRows
  <2>. QED
    BY <1>2, <2>2 DEF IngestType, ListedRows
<1>. HIDE DEF t
<1>7. IngestShape(t, files, rows, shown)
  BY <1>1, <1>2, <1>3, <1>5 DEF IngestShape, Showing, Outgoing
<1>8. ASSUME OneIngest
      PROVE  OneTurn(t, weather.numbered, nextFile', rows, shown, posted, upsets', albums)
  <2>1. OneTurn(r, weather.numbered, nextFile, rows, shown, posted, upsets, albums)
    BY <1>1, <1>8, AtWork
  <2>. QED
    BY <1>1, <1>3, <1>5, <2>1 DEF OneTurn, Paging, Showing
<1>9. ASSUME OneIngest, ~weather.missing PROVE Placed(t, files, rows)
  <2>1. Placed(r, files, rows)
    BY <1>1, <1>9, AtWork
  <2>. QED
    BY <1>1, <1>5, <2>1 DEF Placed, Showing, Outgoing
<1>. QED
  BY <1>1, <1>3, <1>5, <1>7, <1>8, <1>9, MovesKeepsRows

LEMMA WrittenFacts ==
  ASSUME GalleryInv, NEW n \in 1..(Len(files) + 1), NEW page \in 1..GalleryPages
  PROVE  /\ Written(files, n, page) \in Seq(1..GalleryPages)
         /\ Len(Written(files, n, page)) \in Nat /\ Len(files) <= Len(Written(files, n, page))
         /\ n <= Len(Written(files, n, page))
         /\ Written(files, n, page)[n] = page
         /\ \A k \in DOMAIN files : k # n => Written(files, n, page)[k] = files[k]
<1>. DEFINE m == IF n > Len(files) THEN n ELSE Len(files)
            w == [k \in 1..m |-> IF k = n THEN page ELSE files[k]]
<1>0. files \in Seq(1..GalleryPages) /\ Len(files) \in Nat /\ DOMAIN files = 1..Len(files)
      /\ \A k \in 1..Len(files) : files[k] \in 1..GalleryPages
  BY GalleryTypes
<1>1. m \in Nat /\ n \in 1..m /\ Len(files) <= m /\ \A k \in 1..m : k # n => k \in 1..Len(files)
  BY <1>0
<1>2. Written(files, n, page) = w
  BY DEF Written
<1>. HIDE DEF m
<1>3. \A k \in 1..m : w[k] \in 1..GalleryPages
  BY <1>0, <1>1
<1>4. w \in [1..m -> 1..GalleryPages]
  BY <1>3
<1>5. w \in Seq(1..GalleryPages) /\ Len(w) = m
  BY <1>1, <1>4
<1>6. w[n] = page /\ \A k \in DOMAIN files : k # n => w[k] = files[k]
  BY <1>0, <1>1
<1>. QED
  BY <1>1, <1>2, <1>5, <1>6

LEMMA PutsKeepsRows ==
  ASSUME GalleryInv, NEW i \in Ingests, PutsFile(i)
  PROVE  GalleryInv'
<1>. DEFINE r == Doing(i)
            n == IF weather.numbered THEN r.number ELSE Len(files) + 1
            batch == Append(r.batch, n)
            t == [r EXCEPT !.batch = batch, !.page = 0,
                           !.number = IF weather.numbered THEN n + 1 ELSE 0,
                           !.at = IF Len(batch) >= FlushEvery THEN "flushing" ELSE "paging"]
            w == Written(files, n, r.page)
<1>1. r = ingest[i] /\ Working(i) /\ r.at = (IF weather.numbered THEN "putting" ELSE "uploading")
      /\ UNCHANGED <<weather, listening, rows, posted, shown, albums, backfills>>
  BY DEF PutsFile, Working, Doing
<1>2. \/ /\ NoUpset /\ files' = w /\ nextFile' = (IF weather.numbered THEN n + 1 ELSE nextFile)
         /\ Turns(i, t) /\ UNCHANGED outcome
      \/ GoesWrong(i) /\ EndsAs(i, "raised") /\ UNCHANGED nextFile /\ files' \in {files, w}
  BY DEF PutsFile
<1>3. r \in IngestType /\ IngestShape(r, files, rows, shown)
  BY <1>1, AtWork
<1>4. upsets' \in 0..weather.upsets /\ upsets <= upsets' /\ upsets \in Nat /\ Len(files) \in Nat
      /\ nextFile \in 1..(Len(files) + 1) /\ nextFile \in Nat /\ FlushEvery \in Nat \ {0}
  BY <1>2, UpsetFacts, GalleryTypes
<1>. HIDE DEF r
<1>5. n \in 1..(Len(files) + 1) /\ r.page \in 1..GalleryPages
  <2>1. r.number \in Nat /\ r.page \in 0..GalleryPages /\ r.page # 0 /\ r.number <= Len(files) + 1
        /\ (weather.numbered => r.number # 0)
    BY <1>1, <1>3 DEF IngestType, IngestShape
  <2>2. r.page \in 1..GalleryPages
    BY <2>1, GalleryTypes
  <2>3. CASE weather.numbered
    BY <1>4, <2>1, <2>2, <2>3
  <2>4. CASE ~weather.numbered
    BY <1>4, <2>2, <2>4
  <2>. QED
    BY <2>3, <2>4
<1>. HIDE DEF n
<1>6. /\ w \in Seq(1..GalleryPages) /\ Len(w) \in Nat /\ Len(files) <= Len(w) /\ n <= Len(w)
      /\ w[n] = r.page /\ \A k \in DOMAIN files : k # n => w[k] = files[k]
  BY <1>5, WrittenFacts
<1>. HIDE DEF w
<1>7. OneIngest => n \notin Elements(rows) \cup Elements(r.batch)
  <2>. SUFFICES ASSUME OneIngest PROVE n \notin Elements(rows) \cup Elements(r.batch)
    OBVIOUS
  <2>1. OneTurn(r, weather.numbered, nextFile, rows, shown, posted, upsets, albums)
    BY <1>1, AtWork
  <2>2. Elements(rows) \cup Elements(r.batch) \subseteq 1..Len(files)
    <3>1. Elements(rows) \subseteq DOMAIN files
      BY GalleryTypes DEF Elements
    <3>. QED
      BY <1>3, <3>1, GalleryTypes DEF IngestShape
  <2>3. CASE weather.numbered
    <3>1. n = r.number /\ nextFile <= n /\ \A m \in Elements(rows) \cup Elements(r.batch) : m < nextFile
      BY <1>1, <2>1, <2>3 DEF OneTurn, n
    <3>. QED
      BY <1>4, <1>5, <2>2, <3>1
  <2>4. CASE ~weather.numbered
    BY <1>4, <2>2, <2>4 DEF n
  <2>. QED
    BY <2>3, <2>4
<1>8. OneIngest => \A k \in DOMAIN rows : w[rows[k]] = files[rows[k]]
  <2>1. \A k \in DOMAIN rows : rows[k] \in DOMAIN files /\ rows[k] \in Elements(rows)
    BY GalleryTypes DEF Elements
  <2>. QED
    BY <1>6, <1>7, <2>1
<1>9. CASE GoesWrong(i) /\ EndsAs(i, "raised") /\ UNCHANGED nextFile /\ files' \in {files, w}
  <2>1. files' \in Seq(1..GalleryPages) /\ Len(files) <= Len(files')
    BY <1>4, <1>6, <1>9, GalleryTypes
  <2>2. OneIngest => \A k \in DOMAIN rows : files'[rows[k]] = files[rows[k]]
    BY <1>8, <1>9
  <2>3. ingest[i].at # "recording"
    BY <1>1
  <2>. QED
    BY <1>1, <1>4, <1>9, <2>1, <2>2, <2>3, EndsKeepsRows DEF Ways
<1>10. CASE /\ NoUpset /\ files' = w /\ nextFile' = (IF weather.numbered THEN n + 1 ELSE nextFile)
            /\ Turns(i, t) /\ UNCHANGED outcome
  <2>0. r.batch \in Seq(Nat) /\ n \in Nat
    BY <1>3, <1>5 DEF IngestType
  <2>1. /\ batch \in Seq(Nat) /\ Len(batch) = Len(r.batch) + 1
        /\ batch # <<>>
        /\ Elements(batch) = Elements(r.batch) \cup {n}
        /\ \A k \in DOMAIN r.batch : batch[k] = r.batch[k]
        /\ DOMAIN batch = DOMAIN r.batch \cup {Len(r.batch) + 1}
        /\ batch[Len(r.batch) + 1] = n /\ Len(r.batch) + 1 \notin DOMAIN r.batch
        /\ Distinct(r.batch) /\ n \notin Elements(r.batch) => Distinct(batch)
    BY <2>0, AppendFacts
  <2>. HIDE DEF batch
  <2>2. /\ t \in IngestType
        /\ t.at \in {"flushing", "paging"} /\ t.listed = r.listed /\ t.next = r.next
        /\ t.batch = batch /\ t.urls = r.urls /\ t.published = r.published
        /\ t.stopped = r.stopped /\ t.known = r.known /\ t.hindered = r.hindered
        /\ t.number = IF weather.numbered THEN n + 1 ELSE 0
    <3>1. "flushing" \in Places /\ "paging" \in Places /\ 0 \in 0..GalleryPages
          /\ (IF weather.numbered THEN n + 1 ELSE 0) \in Nat
      BY <2>0, GalleryTypes DEF Places
    <3>2. t \in IngestType
      BY <1>3, <2>1, <3>1 DEF IngestType
    <3>. QED
      BY <1>3, <3>2 DEF IngestType
  <2>. HIDE DEF t
  <2>3. upsets' = upsets /\ weather' = weather
    BY <1>1, <1>10 DEF NoUpset
  <2>4. files' \in Seq(1..GalleryPages) /\ nextFile' \in 1..(Len(files') + 1)
        /\ n + 1 \in Nat /\ Len(files') \in Nat /\ DOMAIN files \subseteq DOMAIN files'
        /\ n \in DOMAIN files' /\ Len(files) <= Len(files')
    BY <1>4, <1>5, <1>6, <1>10, GalleryTypes
  <2>5. GalleryVarsOK'
    <3>1. rows' \in Seq(DOMAIN files') /\ shown' \in Seq(DOMAIN files')
      BY <1>1, <2>4, GalleryTypes, SeqMonotonic
    <3>2. upsets' \in 0..weather'.upsets
      BY <1>1, <1>4
    <3>. QED
      BY <1>1, <1>10, <2>4, <3>1, <3>2 DEF GalleryInv, GalleryShape, GalleryVarsOK
  <2>6. IngestShape(t, files', rows', shown')
    <3>1. t.number <= Len(files') + 1
      BY <1>5, <1>6, <1>10, <2>2, <2>4
    <3>2. Elements(t.batch) \subseteq DOMAIN files' /\ Elements(t.urls) \subseteq DOMAIN files'
      BY <1>3, <2>1, <2>2, <2>4 DEF IngestShape
    <3>. QED
      BY <1>1, <1>3, <2>2, <3>1, <3>2 DEF IngestShape, Showing, Outgoing
  <2>7. GalleryShape'
    BY <1>1, <1>10, <2>4, <2>5, <2>6, ShapeStep DEF GalleryInv, GalleryShape
  <2>8. ASSUME OneIngest PROVE GalleryAlone'
    <3>1. OneTurn(r, weather.numbered, nextFile, rows, shown, posted, upsets, albums) /\ GalleryAlone
      BY <1>1, <2>8, AtWork
    <3>2. weather.numbered => \A m \in Elements(rows) \cup Elements(t.batch) : m < n + 1
      <4>. SUFFICES ASSUME weather.numbered, NEW m \in Elements(rows) \cup Elements(t.batch)
                    PROVE  m < n + 1
        OBVIOUS
      <4>1. CASE m = n
        BY <1>5, <4>1
      <4>2. CASE m # n
        <5>1. m \in Elements(rows) \cup Elements(r.batch)
          BY <2>1, <2>2, <4>2
        <5>2. m < nextFile /\ nextFile <= n /\ m \in Nat
          <6>1. m < nextFile /\ nextFile <= r.number
            BY <1>1, <3>1, <5>1 DEF OneTurn
          <6>2. m \in Nat
            <7>1. Elements(rows) \subseteq Nat
              BY GalleryTypes DEF Elements
            <7>2. Elements(r.batch) \subseteq Nat
              BY <2>0 DEF Elements
            <7>. QED
              BY <5>1, <7>1, <7>2
          <6>. QED
            BY <6>1, <6>2 DEF n
        <5>. QED
          BY <1>4, <2>0, <5>2
      <4>. QED
        BY <4>1, <4>2
    <3>3. Distinct(t.batch) /\ Elements(t.batch) \cap Elements(rows) = {} /\ t.batch # <<>>
      BY <1>7, <2>1, <2>2, <2>8, <3>1 DEF OneTurn
    <3>4. OneTurn(t, weather.numbered', nextFile', rows', shown', posted', upsets', albums')
      BY <1>1, <1>10, <2>2, <2>3, <3>1, <3>2, <3>3 DEF OneTurn, Paging, Showing
    <3>5. albums' <= 1 + upsets' /\ Distinct(rows') /\ IsPartOf(shown', rows') /\ (posted' => albums' > 0)
      BY <1>1, <2>3, <3>1 DEF GalleryAlone
    <3>. QED
      BY <1>1, <1>10, <2>2, <3>1, <3>4, <3>5, AloneStep DEF GalleryInv
  <2>9. ASSUME OneIngest, ~weather.missing PROVE GalleryPlaced'
    <3>1. Placed(r, files, rows) /\ GalleryPlaced
      BY <1>1, <2>9, AtWork
    <3>2. r.page = Len(rows) + Len(r.batch) + 1 /\ r.next = r.page + 1
      BY <1>1, <3>1 DEF Placed
    <3>3. \A k \in DOMAIN t.batch : w[t.batch[k]] = Len(rows) + k
      <4>. SUFFICES ASSUME NEW k \in DOMAIN batch PROVE w[batch[k]] = Len(rows) + k
        BY <2>2
      <4>1. CASE k \in DOMAIN r.batch
        <5>1. batch[k] = r.batch[k] /\ r.batch[k] \in Elements(r.batch)
          BY <2>1, <4>1 DEF Elements
        <5>2. batch[k] # n /\ batch[k] \in DOMAIN files
          BY <1>3, <1>7, <2>9, <5>1 DEF IngestShape
        <5>3. files[r.batch[k]] = Len(rows) + k
          BY <3>1, <4>1 DEF Placed
        <5>. QED
          BY <1>6, <5>1, <5>2, <5>3
      <4>2. CASE k = Len(r.batch) + 1
        <5>1. Len(rows) + k = r.page
          BY <2>0, <3>2, <4>2, GalleryTypes
        <5>. QED
          BY <1>6, <2>1, <4>2, <5>1
      <4>. QED
        BY <2>1, <4>1, <4>2
    <3>4. t.next = Len(rows) + Len(t.batch) + 1
      <4>1. Len(rows) \in Nat /\ Len(r.batch) \in Nat /\ Len(t.batch) = Len(r.batch) + 1
        <5>1. Len(rows) \in Nat
          BY GalleryTypes
        <5>2. Len(r.batch) \in Nat
          BY <2>0
        <5>. QED
          BY <2>1, <2>2, <5>1, <5>2
      <4>. QED
        BY <2>2, <3>2, <4>1
    <3>5. Placed(t, files', rows')
      BY <1>1, <1>10, <2>2, <3>1, <3>3, <3>4 DEF Placed, Showing, Outgoing
    <3>6. \A k \in DOMAIN rows' : files'[rows'[k]] = k
      BY <1>1, <1>8, <1>10, <2>9, <3>1 DEF GalleryPlaced
    <3>. QED
      BY <1>1, <1>10, <2>9, <3>1, <3>5, <3>6, PlacedStep DEF GalleryInv
  <2>. QED
    BY <2>3, <2>7, <2>8, <2>9 DEF GalleryInv, OneIngest
<1>. QED
  BY <1>2, <1>9, <1>10

(* The rows of a batch are new if ingests come one by one. *)
LEMMA FlushedFacts ==
  ASSUME GalleryInv, NEW i \in Ingests, Doing(i).at = "storing",
         NEW new, new = Keeping(Doing(i).batch, DOMAIN files \ Elements(rows))
  PROVE  /\ new \in Seq(Nat) /\ Elements(new) \subseteq DOMAIN files \ Elements(rows)
         /\ OneIngest => new = Doing(i).batch /\ new # <<>> /\ Distinct(new)
<1>. DEFINE r == Doing(i)
<1>1. r = ingest[i] /\ r.at = "storing" /\ Working(i)
  BY DEF Working, Doing
<1>2. r \in IngestType /\ IngestShape(r, files, rows, shown)
  BY <1>1, AtWork
<1>3. r.batch \in Seq(Nat) /\ Elements(r.batch) \subseteq DOMAIN files
  BY <1>2 DEF IngestType, IngestShape
<1>4. new = Keeping(r.batch, DOMAIN files \ Elements(rows))
  OBVIOUS
<1>. HIDE DEF r
<1>5. new \in Seq(Nat) /\ Elements(new) = Elements(r.batch) \cap (DOMAIN files \ Elements(rows))
  <2>. DEFINE S == DOMAIN files \ Elements(rows)
  <2>. HIDE DEF S
  <2>1. Keeping(r.batch, S) \in Seq(Nat) /\ Elements(Keeping(r.batch, S)) = Elements(r.batch) \cap S
    BY <1>3, KeepingFacts
  <2>. QED
    BY <1>4, <2>1 DEF S
<1>6. ASSUME OneIngest PROVE new = r.batch /\ new # <<>> /\ Distinct(new)
  <2>1. OneTurn(r, weather.numbered, nextFile, rows, shown, posted, upsets, albums)
    BY <1>1, <1>6, AtWork
  <2>2. Distinct(r.batch) /\ Elements(r.batch) \cap Elements(rows) = {} /\ r.batch # <<>>
    BY <1>1, <2>1 DEF OneTurn
  <2>3. Elements(r.batch) \subseteq DOMAIN files \ Elements(rows)
    BY <1>3, <2>2
  <2>4. new = r.batch
    BY <1>3, <1>4, <2>3, KeepingFacts
  <2>. QED
    BY <2>2, <2>4
<1>. QED
  BY <1>5, <1>6 DEF r

LEMMA StoresKeepsRows ==
  ASSUME GalleryInv, NEW i \in Ingests, FlushStores(i)
  PROVE  GalleryInv'
<1>. DEFINE r == Doing(i)
            new == Keeping(r.batch, DOMAIN files \ Elements(rows))
            t == [[r EXCEPT !.batch = <<>>, !.read = 0]
                     EXCEPT !.at = "listing", !.published = TRUE, !.known = AlbumSent]
            u == [[r EXCEPT !.batch = <<>>, !.read = 0] EXCEPT !.at = "paging", !.published = FALSE]
<1>1. r = ingest[i] /\ r.at = "storing" /\ Doing(i).at = "storing" /\ Working(i)
      /\ UNCHANGED <<weather, listening, files, nextFile, posted, shown, albums, backfills, upsets>>
  BY DEF FlushStores, Working, Doing
<1>2. \/ EndsAs(i, "raised") /\ UNCHANGED rows
      \/ new # <<>> /\ rows' = rows \o new /\ UNCHANGED outcome /\ Turns(i, t)
      \/ UNCHANGED rows /\ EndsAs(i, "stopped")
      \/ new = <<>> /\ UNCHANGED rows /\ Turns(i, u) /\ UNCHANGED outcome
  BY DEF FlushStores
<1>3. r \in IngestType /\ IngestShape(r, files, rows, shown)
  BY <1>1, AtWork
<1>4. new \in Seq(Nat) /\ Elements(new) \subseteq DOMAIN files \ Elements(rows)
      /\ (OneIngest => new = r.batch /\ new # <<>> /\ Distinct(new))
  <2>1. new = Keeping(Doing(i).batch, DOMAIN files \ Elements(rows))
    OBVIOUS
  <2>. HIDE DEF new
  <2>. QED
    BY <1>1, <2>1, FlushedFacts
<1>5. upsets' \in 0..weather.upsets /\ upsets <= upsets' /\ nextFile' \in 1..(Len(files) + 1)
      /\ upsets' = upsets /\ Len(files) \in Nat /\ Len(rows) \in Nat /\ rows \in Seq(Nat)
      /\ posted \in BOOLEAN /\ shown \in Seq(Nat) /\ DOMAIN rows = 1..Len(rows)
  BY <1>1, GalleryTypes
<1>. HIDE DEF new, r
<1>6. CASE (EndsAs(i, "raised") \/ EndsAs(i, "stopped")) /\ UNCHANGED rows
  <2>1. ingest[i].at # "recording" /\ NoUpset
    BY <1>1 DEF NoUpset
  <2>. QED
    BY <1>1, <1>6, <2>1, GivesUp DEF Ways
<1>7. CASE new # <<>> /\ rows' = rows \o new /\ UNCHANGED outcome /\ Turns(i, t)
  <2>1. /\ t \in IngestType
        /\ t.at = "listing" /\ t.listed = r.listed /\ t.next = r.next
        /\ t.batch = <<>> /\ t.urls = r.urls /\ t.published = TRUE /\ t.known = posted
        /\ t.stopped = r.stopped /\ t.hindered = r.hindered /\ t.number = r.number
    <3>1. "listing" \in Places /\ <<>> \in Seq(Nat)
      BY DEF Places
    <3>2. t \in IngestType
      BY <1>3, <1>5, <3>1 DEF IngestType, AlbumSent
    <3>. QED
      BY <1>3, <3>2 DEF IngestType, AlbumSent
  <2>. HIDE DEF t
  <2>2. /\ rows' \in Seq(Nat) /\ Len(rows') = Len(rows) + Len(new)
        /\ Elements(rows') = Elements(rows) \cup Elements(new)
        /\ \A k \in DOMAIN rows : rows'[k] = rows[k]
        /\ \A k \in DOMAIN rows' : k \in DOMAIN rows \/ (k - Len(rows) \in DOMAIN new /\ rows'[k] = new[k - Len(rows)])
        /\ Distinct(rows) /\ Distinct(new) /\ Elements(rows) \cap Elements(new) = {} => Distinct(rows')
    BY <1>4, <1>5, <1>7, ConcatFacts
  <2>3. rows' \in Seq(DOMAIN files') /\ rows' # <<>>
    <3>1. Elements(rows') \subseteq DOMAIN files
      <4>1. Elements(rows) \subseteq DOMAIN files
        BY GalleryTypes DEF Elements
      <4>. QED
        BY <1>4, <2>2, <4>1
    <3>2. Len(new) # 0
      BY <1>4, <1>7
    <3>3. Len(rows') # 0
      BY <1>4, <1>5, <2>2, <3>2
    <3>4. rows' \in Seq(DOMAIN files)
      BY <2>2, <3>1, SeqOf
    <3>. QED
      BY <1>1, <3>3, <3>4
  <2>4. GalleryVarsOK'
    BY <1>1, <1>5, <1>7, <2>3 DEF GalleryInv, GalleryShape, GalleryVarsOK
  <2>5. IngestShape(t, files', rows', shown')
    <3>1. Elements(<<>>) = {}
      BY DEF Elements
    <3>. QED
      BY <1>1, <1>3, <2>1, <2>3, <3>1 DEF IngestShape, Showing, Outgoing
  <2>6. GalleryShape'
    BY <1>1, <1>5, <1>7, <2>3, <2>4, <2>5, ShapeStep DEF GalleryInv, GalleryShape
  <2>7. ASSUME OneIngest PROVE GalleryAlone'
    <3>1. OneTurn(r, weather.numbered, nextFile, rows, shown, posted, upsets, albums) /\ GalleryAlone
      BY <1>1, <2>7, AtWork
    <3>2. Elements(rows') = Elements(rows) \cup Elements(r.batch) /\ Distinct(rows')
      BY <1>4, <2>2, <2>7, <3>1 DEF OneTurn, GalleryAlone
    <3>3. Elements(t.batch) = {} /\ Distinct(t.batch) /\ t.batch = <<>>
      BY <2>1 DEF Elements, Distinct
    <3>4. OneTurn(t, weather.numbered', nextFile', rows', shown', posted', upsets', albums')
      BY <1>1, <1>5, <2>1, <3>1, <3>2, <3>3 DEF OneTurn, Paging, Showing
    <3>5. IsPartOf(shown', rows')
      <4>1. Len(shown) <= Len(rows) /\ \A k \in 1..Len(shown) : shown[k] = rows[k]
        BY <1>5, <3>1, PartOf DEF GalleryAlone
      <4>2. Len(shown) \in Nat /\ Len(new) \in Nat
        BY <1>4, <1>5
      <4>3. Len(shown) <= Len(rows') /\ \A k \in 1..Len(shown) : shown[k] = rows'[k]
        <5>1. Len(rows') = Len(rows) + Len(new)
          BY <2>2
        <5>2. Len(shown) <= Len(rows') /\ 1..Len(shown) \subseteq DOMAIN rows
          BY <1>5, <4>1, <4>2, <5>1
        <5>. QED
          BY <2>2, <4>1, <5>2
      <4>. QED
        BY <1>1, <1>5, <2>2, <4>3, PartOf
    <3>6. albums' <= 1 + upsets' /\ (posted' => albums' > 0)
      BY <1>1, <1>5, <3>1 DEF GalleryAlone
    <3>. QED
      BY <1>1, <1>7, <2>1, <3>1, <3>2, <3>4, <3>5, <3>6, AloneStep DEF GalleryInv
  <2>8. ASSUME OneIngest, ~weather.missing PROVE GalleryPlaced'
    <3>1. Placed(r, files, rows) /\ GalleryPlaced /\ GalleryAlone
      BY <1>1, <2>8, AtWork
    <3>2. new = r.batch
      BY <1>4, <2>8
    <3>3. \A k \in DOMAIN rows' : files'[rows'[k]] = k
      <4>. SUFFICES ASSUME NEW k \in DOMAIN rows' PROVE files[rows'[k]] = k
        BY <1>1
      <4>1. CASE k \in DOMAIN rows
        <5>1. rows'[k] = rows[k]
          BY <2>2, <4>1
        <5>. QED
          BY <3>1, <4>1, <5>1 DEF GalleryPlaced
      <4>2. CASE k \notin DOMAIN rows
        <5>1. k - Len(rows) \in DOMAIN new /\ rows'[k] = new[k - Len(rows)]
          BY <2>2, <4>2
        <5>2. files[new[k - Len(rows)]] = Len(rows) + (k - Len(rows))
          BY <3>1, <3>2, <5>1 DEF Placed
        <5>3. k \in Nat
          BY <2>2
        <5>. QED
          BY <1>5, <5>1, <5>2, <5>3
      <4>. QED
        BY <4>1, <4>2
    <3>4. t.next = Len(rows') + Len(t.batch) + 1 /\ DOMAIN t.batch = {}
      <4>1. r.next = Len(rows) + Len(new) + 1
        BY <1>1, <3>1, <3>2 DEF Placed
      <4>2. Len(new) \in Nat
        BY <1>4
      <4>3. Len(t.batch) = 0 /\ DOMAIN t.batch = {}
        BY <2>1
      <4>. QED
        BY <1>5, <2>1, <2>2, <4>1, <4>2, <4>3
    <3>5. Placed(t, files', rows')
      BY <1>1, <2>1, <3>1, <3>4 DEF Placed, Showing, Outgoing
    <3>. QED
      BY <1>1, <1>7, <2>8, <3>1, <3>3, <3>5, PlacedStep DEF GalleryInv
  <2>. QED
    BY <1>1, <2>6, <2>7, <2>8 DEF GalleryInv, OneIngest
<1>8. CASE new = <<>> /\ UNCHANGED rows /\ Turns(i, u) /\ UNCHANGED outcome
  <2>1. /\ u \in IngestType
        /\ u.at = "paging" /\ u.listed = r.listed /\ u.next = r.next
        /\ u.batch = <<>> /\ u.urls = r.urls /\ u.published = FALSE /\ u.number = r.number
    <3>1. "paging" \in Places /\ <<>> \in Seq(Nat) /\ 0 \in Nat
      BY DEF Places
    <3>2. u \in IngestType
      BY <1>3, <3>1 DEF IngestType
    <3>. QED
      BY <1>3, <3>2 DEF IngestType
  <2>. HIDE DEF u
  <2>2. ~OneIngest
    BY <1>4, <1>8
  <2>3. Elements(<<>>) = {}
    BY DEF Elements
  <2>4. IngestShape(u, files, rows, shown)
    BY <1>1, <1>3, <2>1, <2>3 DEF IngestShape, Showing, Outgoing
  <2>. QED
    BY <1>1, <1>5, <1>8, <2>1, <2>2, <2>4, MovesKeepsRows
<1>. QED
  BY <1>2, <1>6, <1>7, <1>8

(* The site has the chapter as it was listed. *)
LEMMA ShownOn ==
  ASSUME GalleryInv, NEW i \in Ingests, NEW place,
         \/ Doing(i).at = "showing" /\ place = "paging"
         \/ Doing(i).at = "resending" /\ place = "posting",
         NoUpset, shown' = Doing(i).urls, MovesOn(i, place),
         UNCHANGED <<weather, listening, files, nextFile, rows, posted, albums, outcome, backfills>>
  PROVE  GalleryInv'
<1>. DEFINE r == Doing(i)
            t == [r EXCEPT !.at = place]
<1>1. r = ingest[i] /\ Working(i) /\ Turns(i, t) /\ shown' = r.urls /\ upsets' = upsets
      /\ \/ r.at = "showing" /\ place = "paging"
         \/ r.at = "resending" /\ place = "posting"
  BY DEF Working, Doing, MovesOn, NoUpset
<1>2. r \in IngestType /\ IngestShape(r, files, rows, shown)
  BY <1>1, AtWork
<1>. HIDE DEF r
<1>3. r.published /\ r.urls # <<>> /\ r.urls \in Seq(DOMAIN files)
  <2>1. r.published /\ r.urls # <<>> /\ r.urls \in Seq(Nat) /\ Elements(r.urls) \subseteq DOMAIN files
    BY <1>1, <1>2 DEF IngestType, IngestShape, Showing, Outgoing
  <2>. QED
    BY <2>1, SeqOf
<1>4. place \in Places
  BY <1>1 DEF Places
<1>5. /\ t \in IngestType
      /\ t.at = place /\ t.listed = r.listed /\ t.next = r.next
      /\ t.number = r.number /\ t.batch = r.batch /\ t.urls = r.urls
      /\ t.published = r.published /\ t.stopped = r.stopped /\ t.known = r.known
      /\ t.hindered = r.hindered
  BY <1>2, <1>4, MovesOnFields
<1>. HIDE DEF t
<1>6. GalleryVarsOK'
  BY <1>1, <1>3 DEF GalleryInv, GalleryShape, GalleryVarsOK
<1>7. IngestShape(t, files', rows', shown')
  BY <1>1, <1>2, <1>3, <1>5 DEF IngestShape, Showing, Outgoing
<1>8. GalleryShape'
  BY <1>1, <1>3, <1>6, <1>7, GalleryTypes, ShapeStep DEF GalleryInv, GalleryShape
<1>9. ASSUME OneIngest PROVE GalleryAlone'
  <2>1. OneTurn(r, weather.numbered, nextFile, rows, shown, posted, upsets, albums) /\ GalleryAlone
    BY <1>1, <1>9, AtWork
  <2>2. r.urls = rows
    BY <1>1, <1>3, <2>1 DEF OneTurn
  <2>3. OneTurn(t, weather.numbered', nextFile', rows', shown', posted', upsets', albums')
    BY <1>1, <1>5, <2>1, <2>2 DEF OneTurn, Paging, Showing
  <2>4. IsPartOf(shown', rows')
    BY <1>1, <2>2, GalleryTypes, PartOf
  <2>5. albums' <= 1 + upsets' /\ (posted' => albums' > 0) /\ Distinct(rows')
    BY <1>1, <2>1 DEF GalleryAlone
  <2>6. t.at # "rest" /\ outcome' = outcome
    BY <1>1, <1>5
  <2>. QED
    BY <1>1, <2>1, <2>3, <2>4, <2>5, <2>6, AloneStep DEF GalleryInv
<1>10. ASSUME OneIngest, ~weather.missing PROVE GalleryPlaced'
  <2>1. Placed(r, files, rows) /\ GalleryPlaced /\ GalleryAlone
    BY <1>1, <1>10, AtWork
  <2>2. Placed(t, files', rows')
    BY <1>1, <1>5, <2>1 DEF Placed, Showing, Outgoing
  <2>3. \A k \in DOMAIN rows' : files'[rows'[k]] = k
    BY <2>1 DEF GalleryPlaced
  <2>. QED
    BY <1>1, <2>1, <2>2, <2>3, PlacedStep DEF GalleryInv
<1>. QED
  BY <1>8, <1>9, <1>10 DEF GalleryInv, OneIngest

LEMMA NotShown ==
  ASSUME GalleryInv, NEW i \in Ingests, NEW how \in {"raised", "stopped"}, EndsAs(i, how),
         Doing(i).at \in {"showing", "resending"}, NoUpset \/ GoesWrong(i),
         shown' \in {shown, Doing(i).urls},
         UNCHANGED <<weather, listening, files, nextFile, rows, posted, albums, backfills>>
  PROVE  GalleryInv'
<1>1. Working(i) /\ ingest[i].at \in {"showing", "resending"}
      /\ (shown' = shown \/ (ingest[i].at \in {"showing", "resending"} /\ shown' = ingest[i].urls))
  BY DEF Working, Doing
<1>2. upsets' \in 0..weather.upsets /\ upsets <= upsets'
  BY UpsetFacts
<1>3. files' \in Seq(1..GalleryPages) /\ Len(files) <= Len(files')
      /\ \A k \in DOMAIN rows : files'[rows[k]] = files[rows[k]]
  BY GalleryTypes
<1>4. how \in Ways \ {"ok"} /\ how # "duplicate" /\ ingest[i].at # "recording"
  BY <1>1 DEF Ways
<1>. QED
  BY <1>1, <1>2, <1>3, <1>4, EndsKeepsRows

LEMMA ShowsKeepsRows ==
  ASSUME GalleryInv, NEW i \in Ingests, FlushShows(i) \/ ShowsAgain(i)
  PROVE  GalleryInv'
<1>1. CASE FlushShows(i)
  BY <1>1, ShownOn, NotShown DEF FlushShows, SiteFails
<1>2. CASE ShowsAgain(i)
  BY <1>2, ShownOn, NotShown DEF ShowsAgain, SiteFails
<1>. QED
  BY <1>1, <1>2

(* An ingest counts as processed. *)
LEMMA EndsWell ==
  ASSUME GalleryInv, NEW i \in Ingests, Doing(i).at \in {"outbound", "recording"}, EndsAs(i, "ok"),
         Doing(i).at = "outbound" => Doing(i).known,
         posted' = IF Doing(i).at = "outbound" THEN posted ELSE TRUE,
         UNCHANGED <<weather, listening, files, nextFile, rows, shown, albums, backfills, upsets>>
  PROVE  GalleryInv'
<1>. DEFINE r == Doing(i)
<1>1. r = ingest[i] /\ Working(i) /\ Turns(i, AtRest)
      /\ r.at \in {"outbound", "recording"} /\ (r.at = "outbound" => r.known)
      /\ posted' = (IF r.at = "outbound" THEN posted ELSE TRUE)
  BY DEF Working, Doing, EndsAs
<1>2. r \in IngestType /\ IngestShape(r, files, rows, shown)
  BY <1>1, AtWork
<1>. HIDE DEF r
<1>3. r.published
  BY <1>1, <1>2 DEF IngestShape, Outgoing
<1>4. posted' \in BOOLEAN /\ outcome'.of = "ok"
  BY <1>1, GalleryTypes DEF EndsAs
<1>5. GalleryVarsOK'
  BY <1>4 DEF GalleryInv, GalleryShape, GalleryVarsOK, Ways
<1>6. GalleryShape'
  <2>1. IngestShape(AtRest, files', rows', shown')
    BY RestShape, GalleryTypes
  <2>. QED
    BY <1>1, <1>5, <2>1, GalleryTypes, ShapeStep DEF GalleryInv, GalleryShape
<1>7. ASSUME OneIngest PROVE GalleryAlone'
  <2>1. OneTurn(r, weather.numbered, nextFile, rows, shown, posted, upsets, albums) /\ GalleryAlone
    BY <1>1, <1>7, AtWork
  <2>2. r.at = "outbound" => posted
    BY <1>1, <1>3, <2>1 DEF OneTurn
  <2>3. posted' /\ albums > 0
    BY <1>1, <2>1, <2>2 DEF OneTurn, GalleryAlone
  <2>4. shown = rows
    BY <1>1, <1>3, <2>1 DEF OneTurn, Showing
  <2>5. Distinct(rows') /\ IsPartOf(shown', rows') /\ albums' <= 1 + upsets'
    BY <2>1 DEF GalleryAlone
  <2>6. "ok" \in Ways /\ shown' = rows' /\ albums' > 0
    BY <2>3, <2>4 DEF Ways
  <2>. QED
    BY <1>1, <2>1, <2>3, <2>5, <2>6, AloneEnd DEF GalleryInv
<1>8. ASSUME OneIngest, ~weather.missing PROVE GalleryPlaced'
  <2>1. Placed(r, files, rows) /\ GalleryPlaced /\ GalleryAlone
        /\ OneTurn(r, weather.numbered, nextFile, rows, shown, posted, upsets, albums)
    BY <1>1, <1>8, AtWork
  <2>2. ASSUME ~r.hindered PROVE Len(rows) = GalleryPages
    <3>1. r.batch = <<>> /\ Len(r.batch) = 0
      BY <1>1, <2>1 DEF OneTurn, Paging
    <3>2. r.listed = GalleryPages /\ r.listed < r.next /\ r.next = Len(rows) + Len(r.batch) + 1
      BY <1>1, <2>1, <2>2 DEF Placed, Outgoing
    <3>3. Len(rows) \in Nat /\ GalleryPages \in Nat /\ Len(rows) <= GalleryPages
      BY <1>8, GalleryTypes, RowsFit
    <3>. QED
      BY <3>1, <3>2, <3>3
  <2>3. \A k \in DOMAIN rows' : files'[rows'[k]] = k
    BY <2>1 DEF GalleryPlaced
  <2>4. "ok" \in Ways
    BY DEF Ways
  <2>. QED
    BY <1>1, <2>1, <2>2, <2>3, <2>4, PlacedEnd DEF GalleryInv
<1>. QED
  BY <1>6, <1>7, <1>8 DEF GalleryInv, OneIngest

LEMMA OutboundKeepsRows ==
  ASSUME GalleryInv, NEW i \in Ingests, Outbound(i)
  PROVE  GalleryInv'
<1>. DEFINE r == Doing(i)
            t == [r EXCEPT !.at = "resending"]
<1>1. r = ingest[i] /\ r.at = "outbound" /\ Working(i)
      /\ UNCHANGED <<weather, listening, files, nextFile, rows, posted, shown, albums, backfills,
                     upsets>>
  BY DEF Outbound, Working, Doing
<1>2. CASE Doing(i).known
  <2>1. EndsAs(i, "ok") /\ Doing(i).at \in {"outbound", "recording"} /\ Doing(i).at = "outbound"
    BY <1>2 DEF Outbound
  <2>. QED
    BY <1>1, <1>2, <2>1, EndsWell
<1>3. CASE ~Doing(i).known
  <2>1. Turns(i, t) /\ UNCHANGED outcome /\ ~r.known
    BY <1>3 DEF Outbound, MovesOn
  <2>2. r \in IngestType /\ IngestShape(r, files, rows, shown)
    BY <1>1, AtWork
  <2>3. upsets' \in 0..weather.upsets /\ upsets <= upsets' /\ nextFile' \in 1..(Len(files) + 1)
        /\ upsets' = upsets
    BY <1>1, GalleryTypes
  <2>. HIDE DEF r
  <2>4. "resending" \in Places
    BY DEF Places
  <2>5. /\ t \in IngestType
        /\ t.at = "resending" /\ t.listed = r.listed /\ t.next = r.next
        /\ t.number = r.number /\ t.batch = r.batch /\ t.urls = r.urls
        /\ t.published = r.published /\ t.stopped = r.stopped /\ t.known = r.known
        /\ t.hindered = r.hindered
    BY <2>2, <2>4, MovesOnFields
  <2>. HIDE DEF t
  <2>6. IngestShape(t, files, rows, shown)
    BY <1>1, <2>2, <2>5 DEF IngestShape, Showing, Outgoing
  <2>7. ASSUME OneIngest
        PROVE  OneTurn(t, weather.numbered, nextFile', rows, shown, posted, upsets', albums)
    <3>1. OneTurn(r, weather.numbered, nextFile, rows, shown, posted, upsets, albums)
      BY <1>1, <2>7, AtWork
    <3>. QED
      BY <1>1, <2>1, <2>3, <2>5, <3>1 DEF OneTurn, Paging, Showing
  <2>8. ASSUME OneIngest, ~weather.missing PROVE Placed(t, files, rows)
    <3>1. Placed(r, files, rows)
      BY <1>1, <2>8, AtWork
    <3>. QED
      BY <1>1, <2>5, <3>1 DEF Placed, Showing, Outgoing
  <2>. QED
    BY <1>1, <2>1, <2>3, <2>5, <2>6, <2>7, <2>8, MovesKeepsRows
<1>. QED
  BY <1>2, <1>3

LEMMA RecordsKeepsRows ==
  ASSUME GalleryInv, NEW i \in Ingests, RecordsAlbum(i)
  PROVE  GalleryInv'
BY EndsWell DEF RecordsAlbum

LEMMA PostsKeepsRows ==
  ASSUME GalleryInv, NEW i \in Ingests, PostsAlbum(i)
  PROVE  GalleryInv'
<1>. DEFINE r == Doing(i)
            t == [r EXCEPT !.at = "recording"]
<1>1. r = ingest[i] /\ r.at = "posting" /\ Working(i)
      /\ UNCHANGED <<weather, listening, files, nextFile, rows, posted, shown, backfills>>
  BY DEF PostsAlbum, Working, Doing
<1>2. \/ NoUpset /\ albums' = albums + 1 /\ Turns(i, t) /\ UNCHANGED outcome
      \/ Upset /\ albums' \in {albums, albums + 1} /\ EndsAs(i, "raised")
  BY DEF PostsAlbum, MovesOn
<1>3. r \in IngestType /\ IngestShape(r, files, rows, shown)
  BY <1>1, AtWork
<1>4. upsets' \in 0..weather.upsets /\ upsets <= upsets' /\ upsets \in Nat /\ albums \in Nat
      /\ albums' \in Nat /\ posted \in BOOLEAN
  BY <1>2, UpsetFacts, GalleryTypes
<1>. HIDE DEF r
<1>5. shown # <<>> /\ r.published /\ r.stopped \in BOOLEAN
  BY <1>1, <1>3 DEF IngestShape, IngestType, Outgoing
<1>6. GalleryVarsOK'
  <2>1. outcome'.of \in {"none"} \cup Ways
    BY <1>2 DEF EndsAs, Ways, GalleryInv, GalleryShape, GalleryVarsOK
  <2>. QED
    BY <1>1, <1>4, <2>1 DEF GalleryInv, GalleryShape, GalleryVarsOK
<1>7. OneIngest =>
        /\ OneTurn(r, weather.numbered, nextFile, rows, shown, posted, upsets, albums)
        /\ GalleryAlone /\ ~posted /\ albums <= upsets
        /\ (r.stopped => albums + 1 <= upsets)
        /\ Distinct(rows') /\ IsPartOf(shown', rows')
  <2>. SUFFICES ASSUME OneIngest
                PROVE  /\ OneTurn(r, weather.numbered, nextFile, rows, shown, posted, upsets, albums)
                       /\ GalleryAlone /\ ~posted /\ albums <= upsets
                       /\ (r.stopped => albums + 1 <= upsets)
                       /\ Distinct(rows') /\ IsPartOf(shown', rows')
    OBVIOUS
  <2>1. OneTurn(r, weather.numbered, nextFile, rows, shown, posted, upsets, albums) /\ GalleryAlone
    BY <1>1, AtWork
  <2>2. ~posted
    BY <1>1, <1>5, <2>1 DEF OneTurn
  <2>3. (r.stopped => albums + 1 <= upsets) /\ (~r.stopped => albums <= upsets)
    BY <1>1, <2>1, <2>2 DEF OneTurn
  <2>4. albums <= upsets
    BY <1>4, <1>5, <2>3
  <2>. QED
    BY <1>1, <2>1, <2>2, <2>3, <2>4 DEF GalleryAlone
<1>8. CASE NoUpset /\ albums' = albums + 1 /\ Turns(i, t) /\ UNCHANGED outcome
  <2>0. "recording" \in Places /\ upsets' = upsets
    BY <1>8 DEF Places, NoUpset
  <2>1. /\ t \in IngestType
        /\ t.at = "recording" /\ t.listed = r.listed /\ t.next = r.next
        /\ t.number = r.number /\ t.batch = r.batch /\ t.urls = r.urls
        /\ t.published = r.published /\ t.stopped = r.stopped /\ t.known = r.known
        /\ t.hindered = r.hindered
    BY <1>3, <2>0, MovesOnFields
  <2>. HIDE DEF t
  <2>2. IngestShape(t, files', rows', shown')
    BY <1>1, <1>3, <1>5, <2>1 DEF IngestShape, Showing, Outgoing
  <2>3. GalleryShape'
    BY <1>1, <1>5, <1>6, <1>8, <2>2, GalleryTypes, ShapeStep DEF GalleryInv, GalleryShape
  <2>4. ASSUME OneIngest PROVE GalleryAlone'
    <3>1. albums' > 0 /\ albums' <= upsets' + 1 /\ albums' <= 1 + upsets' /\ (r.stopped => albums' <= upsets')
      BY <1>4, <1>7, <1>8, <2>0, <2>4
    <3>2. OneTurn(t, weather.numbered', nextFile', rows', shown', posted', upsets', albums')
      BY <1>1, <1>7, <2>1, <2>4, <3>1 DEF OneTurn, Paging, Showing
    <3>3. t.at # "rest" /\ outcome' = outcome /\ Turns(i, t)
      BY <1>8, <2>1
    <3>. QED
      BY <1>1, <1>7, <2>4, <3>1, <3>2, <3>3, AloneStep DEF GalleryInv
  <2>5. ASSUME OneIngest, ~weather.missing PROVE GalleryPlaced'
    <3>1. Placed(r, files, rows) /\ GalleryPlaced /\ GalleryAlone
      BY <1>1, <2>5, AtWork
    <3>2. Placed(t, files', rows')
      BY <1>1, <2>1, <3>1 DEF Placed, Showing, Outgoing
    <3>3. \A k \in DOMAIN rows' : files'[rows'[k]] = k
      BY <1>1, <3>1 DEF GalleryPlaced
    <3>. QED
      BY <1>1, <1>8, <3>1, <3>2, <3>3, PlacedStep DEF GalleryInv
  <2>. QED
    BY <1>1, <2>3, <2>4, <2>5 DEF GalleryInv, OneIngest
<1>9. CASE Upset /\ albums' \in {albums, albums + 1} /\ EndsAs(i, "raised")
  <2>0. "raised" \in Ways /\ upsets' = upsets + 1 /\ Turns(i, AtRest)
    BY <1>9 DEF Ways, Upset, EndsAs
  <2>1. IngestShape(AtRest, files', rows', shown')
    BY <1>1, RestShape, GalleryTypes
  <2>2. GalleryShape'
    BY <1>1, <1>5, <1>6, <2>0, <2>1, GalleryTypes, ShapeStep DEF GalleryInv, GalleryShape
  <2>3. ASSUME OneIngest PROVE GalleryAlone'
    <3>1. albums' <= upsets' /\ albums' <= 1 + upsets'
      BY <1>4, <1>7, <1>9, <2>0, <2>3
    <3>. QED
      BY <1>1, <1>7, <1>9, <2>0, <2>3, <3>1, AloneEnd DEF GalleryInv
  <2>4. ASSUME OneIngest, ~weather.missing PROVE GalleryPlaced'
    <3>1. \A k \in DOMAIN rows' : files'[rows'[k]] = k
      BY <1>1, <2>4 DEF GalleryInv, GalleryPlaced
    <3>. QED
      BY <1>1, <1>7, <1>9, <2>0, <2>4, <3>1, PlacedEnd DEF GalleryInv
  <2>. QED
    BY <1>1, <2>2, <2>3, <2>4 DEF GalleryInv, OneIngest
<1>. QED
  BY <1>2, <1>8, <1>9

-----------------------------------------------------------------------------
(* Nobody works if one ingest is all there may be and another may begin. *)
LEMMA NobodyWorks ==
  ASSUME GalleryInv, OneIngest, Cardinality({j \in Ingests : Working(j)}) < weather.ingests
  PROVE  \A j \in Ingests : ~Working(j)
<1>. DEFINE W == {j \in Ingests : Working(j)}
<1>1. IsFiniteSet(Ingests)
  <2>1. Ingests = {"pass", "backfill", "again"}
    BY DEF Ingests, Backfills
  <2>2. IsFiniteSet({}) /\ IsFiniteSet({} \cup {"pass"})
    BY FS_EmptySet, FS_AddElement
  <2>3. IsFiniteSet(({} \cup {"pass"}) \cup {"backfill"})
    BY <2>2, FS_AddElement
  <2>4. IsFiniteSet((({} \cup {"pass"}) \cup {"backfill"}) \cup {"again"})
    BY <2>3, FS_AddElement
  <2>5. Ingests = (({} \cup {"pass"}) \cup {"backfill"}) \cup {"again"}
    BY <2>1
  <2>. QED
    BY <2>4, <2>5
<1>2. IsFiniteSet(W)
  BY <1>1, FS_Subset
<1>3. Cardinality(W) < 1
  BY DEF OneIngest
<1>. HIDE DEF W
<1>4. Cardinality(W) = 0
  BY <1>2, <1>3, FS_CardinalityType
<1>5. W = {}
  BY <1>2, <1>4, FS_EmptySet
<1>. QED
  BY <1>5 DEF W

LEMMA BeginsKeepsRows ==
  ASSUME GalleryInv, NEW i \in Ingests, NEW own \in BOOLEAN, Begins(i, own),
         backfills' \in 0..weather.backfills
  PROVE  GalleryInv'
<1>. DEFINE t == [AtRest EXCEPT !.at = "looking", !.own = own]
<1>1. /\ ingest' = [ingest EXCEPT ![i] = t] /\ Turns(i, t) /\ outcome' = NoOutcome /\ ~Working(i)
      /\ Cardinality({j \in Ingests : Working(j)}) < weather.ingests
      /\ UNCHANGED <<weather, listening, files, nextFile, rows, posted, shown, albums, upsets>>
  BY DEF Begins, Turns
<1>2. t \in IngestType
  <2>1. "looking" \in Places
    BY DEF Places
  <2>. QED
    BY <2>1, RestType DEF IngestType
<1>3. /\ t.at = "looking" /\ t.stopped = FALSE /\ t.batch = <<>> /\ t.urls = <<>> /\ t.number = 0
      /\ t.published = FALSE /\ t.before = 0
  BY DEF AtRest
<1>. HIDE DEF t
<1>4. Elements(<<>>) = {} /\ Distinct(<<>>) /\ DOMAIN t.batch = {}
  BY <1>3 DEF Elements, Distinct
<1>5. IngestShape(t, files', rows', shown')
  BY <1>1, <1>2, <1>3, <1>4, GalleryTypes DEF IngestShape, Showing, Outgoing
<1>6. GalleryVarsOK'
  <2>1. outcome'.of = "none"
    BY <1>1 DEF NoOutcome
  <2>. QED
    BY <1>1, <2>1 DEF GalleryInv, GalleryShape, GalleryVarsOK
<1>7. GalleryShape'
  BY <1>1, <1>5, <1>6, GalleryTypes, ShapeStep DEF GalleryInv, GalleryShape
<1>8. ASSUME OneIngest
      PROVE  ingest'[i] = t /\ \A j \in Ingests : Working(j)' => j = i
  <2>1. ingest \in [Ingests -> IngestType]
    BY DEF GalleryInv, GalleryShape
  <2>2. \A j \in Ingests : ~Working(j)
    BY <1>1, <1>8, NobodyWorks
  <2>. QED
    BY <1>1, <2>1, <2>2 DEF Working, Doing
<1>9. ASSUME OneIngest PROVE GalleryAlone'
  <2>1. GalleryAlone /\ (~posted => albums <= upsets)
    BY <1>1, <1>9, NobodyWorks DEF GalleryInv, GalleryAlone
  <2>2. OneTurn(t, weather.numbered', nextFile', rows', shown', posted', upsets', albums')
    BY <1>1, <1>3, <1>4, <2>1 DEF OneTurn, Paging, Showing
  <2>3. outcome'.of = "none" /\ Working(i)'
    BY <1>1, <1>3, <1>8, <1>9 DEF NoOutcome, Working, Doing
  <2>. QED
    BY <1>1, <1>8, <1>9, <2>1, <2>2, <2>3 DEF GalleryAlone
<1>10. ASSUME OneIngest, ~weather.missing PROVE GalleryPlaced'
  <2>1. Placed(t, files', rows')
    BY <1>3, <1>4 DEF Placed, Showing, Outgoing
  <2>2. outcome'.of = "none"
    BY <1>1 DEF NoOutcome
  <2>. QED
    BY <1>1, <1>8, <1>10, <2>1, <2>2 DEF GalleryInv, GalleryPlaced
<1>. QED
  BY <1>1, <1>7, <1>9, <1>10 DEF GalleryInv, OneIngest

LEMMA StartsKeepsRows ==
  ASSUME GalleryInv, ListenerStarts
  PROVE  GalleryInv'
<1>1. listening' \in BOOLEAN
      /\ UNCHANGED <<weather, files, nextFile, rows, posted, shown, albums, ingest, outcome, backfills,
                     upsets>>
  BY DEF ListenerStarts
<1>2. GalleryShape'
  BY <1>1 DEF GalleryInv, GalleryShape, GalleryVarsOK
<1>3. OneIngest => GalleryAlone'
  BY <1>1 DEF GalleryInv, GalleryAlone, Working, Doing
<1>4. OneIngest /\ ~weather.missing => GalleryPlaced'
  BY <1>1 DEF GalleryInv, GalleryPlaced, Working, Doing
<1>. QED
  BY <1>1, <1>2, <1>3, <1>4 DEF GalleryInv, OneIngest

(* An ingest learns that it was stopped, which is an upset. *)
LEMMA StopsKeepsRows ==
  ASSUME GalleryInv, ListenerStops
  PROVE  GalleryInv'
<1>1. /\ upsets' = upsets + 1 /\ upsets < weather.upsets /\ listening' = FALSE
      /\ UNCHANGED <<weather, files, nextFile, rows, posted, shown, albums, outcome, backfills>>
      /\ ingest' = [i \in Ingests |->
                      IF Working(i) /\ ~Doing(i).own THEN [Doing(i) EXCEPT !.stopped = TRUE]
                                                     ELSE Doing(i)]
  BY DEF ListenerStops, Upset
<1>2. upsets' \in 0..weather.upsets /\ upsets \in Nat /\ albums \in Nat
  BY <1>1, GalleryTypes, GalleryAssumption
<1>3. ASSUME NEW i \in Ingests
      PROVE  LET t == ingest'[i]
                 r == ingest[i]
             IN  /\ t \in IngestType
                 /\ t.at = r.at /\ t.before = r.before /\ t.listed = r.listed /\ t.next = r.next
                 /\ t.page = r.page /\ t.number = r.number /\ t.batch = r.batch /\ t.urls = r.urls
                 /\ t.published = r.published /\ t.known = r.known /\ t.hindered = r.hindered
  <2>1. ingest[i] \in IngestType
    BY DEF GalleryInv, GalleryShape
  <2>2. ingest'[i] = (IF Working(i) /\ ~Doing(i).own THEN [ingest[i] EXCEPT !.stopped = TRUE]
                                                      ELSE ingest[i])
    BY <1>1 DEF Doing
  <2>3. [ingest[i] EXCEPT !.stopped = TRUE] \in IngestType
    BY <2>1 DEF IngestType
  <2>. QED
    BY <2>1, <2>2, <2>3 DEF IngestType
<1>4. \A i \in Ingests : Working(i)' <=> Working(i)
  BY <1>3 DEF Working, Doing
<1>5. GalleryVarsOK'
  BY <1>1, <1>2 DEF GalleryInv, GalleryShape, GalleryVarsOK
<1>6. ingest' \in [Ingests -> IngestType]
  BY <1>1, <1>3
<1>7. ASSUME NEW i \in Ingests PROVE IngestShape(ingest'[i], files', rows', shown')
  <2>1. IngestShape(ingest[i], files, rows, shown)
    BY DEF GalleryInv, GalleryShape
  <2>. QED
    BY <1>1, <1>3, <2>1 DEF IngestShape
<1>8. GalleryShape'
  BY <1>1, <1>5, <1>6, <1>7 DEF GalleryInv, GalleryShape
<1>9. ASSUME OneIngest PROVE GalleryAlone'
  <2>1. ASSUME NEW i \in Ingests, Working(i)
        PROVE  OneTurn(ingest'[i], weather.numbered', nextFile', rows', shown', posted', upsets', albums')
    <3>. DEFINE t == ingest'[i]
                r == ingest[i]
    <3>1. OneTurn(r, weather.numbered, nextFile, rows, shown, posted, upsets, albums)
      BY <1>9, <2>1, AtWork
    <3>2. /\ t.at = r.at /\ t.before = r.before /\ t.number = r.number /\ t.batch = r.batch
          /\ t.urls = r.urls /\ t.published = r.published /\ t.known = r.known
          /\ r.stopped \in BOOLEAN
      BY <1>3, <2>1, AtWork DEF IngestType
    <3>. HIDE DEF t, r
    <3>3. /\ ~posted /\ r.at = "recording" => albums <= upsets + 1
          /\ ~posted /\ r.at # "recording" => albums <= upsets /\ albums + 1 <= upsets + 1
      BY <1>2, <3>1, <3>2 DEF OneTurn
    <3>4. /\ ~posted /\ r.at = "recording" => albums <= upsets' /\ albums <= upsets' + 1
          /\ ~posted /\ r.at # "recording" => albums <= upsets' /\ albums + 1 <= upsets'
      BY <1>1, <1>2, <3>3
    <3>5. OneTurn(t, weather.numbered, nextFile, rows, shown, posted, upsets', albums)
      BY <3>1, <3>2, <3>4 DEF OneTurn
    <3>. QED
      BY <1>1, <3>5 DEF t
  <2>2. albums <= 1 + upsets' /\ (~posted /\ (\A i \in Ingests : ~Working(i)) => albums <= upsets')
    BY <1>1, <1>2, <1>9 DEF GalleryInv, GalleryAlone
  <2>. QED
    BY <1>1, <1>4, <1>9, <2>1, <2>2 DEF GalleryInv, GalleryAlone
<1>10. ASSUME OneIngest, ~weather.missing PROVE GalleryPlaced'
  <2>1. ASSUME NEW i \in Ingests, Working(i) PROVE Placed(ingest'[i], files', rows')
    <3>1. Placed(ingest[i], files, rows)
      BY <1>10, <2>1, AtWork
    <3>. QED
      BY <1>1, <1>3, <3>1 DEF Placed
  <2>. QED
    BY <1>1, <1>4, <1>10, <2>1 DEF GalleryInv, GalleryPlaced
<1>. QED
  BY <1>1, <1>8, <1>9, <1>10 DEF GalleryInv, OneIngest

LEMMA CancelKeepsRows ==
  ASSUME GalleryInv, PassCancelled
  PROVE  GalleryInv'
<1>1. /\ ingest' = [ingest EXCEPT !["pass"] = AtRest] /\ Turns("pass", AtRest) /\ "pass" \in Ingests
      /\ Working("pass") /\ ingest["pass"].stopped
      /\ UNCHANGED <<weather, listening, files, nextFile, rows, posted, shown, albums, outcome,
                     backfills, upsets>>
  BY DEF PassCancelled, Turns, Doing, Ingests
<1>2. IngestShape(AtRest, files', rows', shown')
  BY RestShape, GalleryTypes, <1>1
<1>3. GalleryVarsOK'
  BY <1>1 DEF GalleryInv, GalleryShape, GalleryVarsOK
<1>4. GalleryShape'
  BY <1>1, <1>2, <1>3, GalleryTypes, ShapeStep DEF GalleryInv, GalleryShape
<1>5. OneIngest => \A j \in Ingests : ~Working(j)'
  BY <1>1 DEF GalleryInv, GalleryShape, GalleryAlone, Working, Doing, AtRest
<1>6. ASSUME OneIngest PROVE GalleryAlone'
  <2>1. OneTurn(ingest["pass"], weather.numbered, nextFile, rows, shown, posted, upsets, albums)
        /\ GalleryAlone
    BY <1>1, <1>6, AtWork
  <2>2. ~posted => albums <= upsets
    BY <1>1, <2>1, GalleryTypes DEF OneTurn
  <2>. QED
    BY <1>1, <1>5, <1>6, <2>1, <2>2 DEF GalleryAlone
<1>7. ASSUME OneIngest, ~weather.missing PROVE GalleryPlaced'
  BY <1>1, <1>5, <1>7 DEF GalleryInv, GalleryPlaced
<1>. QED
  BY <1>1, <1>4, <1>6, <1>7 DEF GalleryInv, OneIngest

LEMMA RestartKeepsRows ==
  ASSUME GalleryInv, ProcessRestarts
  PROVE  GalleryInv'
<1>1. /\ ingest' = [i \in Ingests |-> AtRest] /\ listening' \in BOOLEAN
      /\ upsets' = upsets + 1 /\ upsets < weather.upsets
      /\ UNCHANGED <<weather, files, nextFile, rows, posted, shown, albums, outcome, backfills>>
  BY DEF ProcessRestarts, Upset
<1>2. upsets' \in 0..weather.upsets /\ upsets \in Nat /\ albums \in Nat
  BY <1>1, GalleryTypes, GalleryAssumption
<1>3. GalleryVarsOK'
  BY <1>1, <1>2 DEF GalleryInv, GalleryShape, GalleryVarsOK
<1>4. \A i \in Ingests : ingest'[i] = AtRest /\ ~Working(i)'
  BY <1>1 DEF Working, Doing, AtRest
<1>5. GalleryShape'
  <2>1. ingest' \in [Ingests -> IngestType]
    BY <1>1, RestType
  <2>2. IngestShape(AtRest, files', rows', shown')
    BY <1>1, RestShape, GalleryTypes
  <2>. QED
    BY <1>1, <1>3, <1>4, <2>1, <2>2 DEF GalleryInv, GalleryShape
<1>6. ASSUME OneIngest PROVE GalleryAlone'
  <2>1. ~posted => albums <= upsets + 1
    BY <1>2, <1>6 DEF GalleryInv, GalleryAlone
  <2>2. albums <= 1 + upsets' /\ (~posted => albums <= upsets')
    BY <1>1, <1>2, <1>6, <2>1 DEF GalleryInv, GalleryAlone
  <2>. QED
    BY <1>1, <1>4, <1>6, <2>2 DEF GalleryInv, GalleryAlone
<1>7. ASSUME OneIngest, ~weather.missing PROVE GalleryPlaced'
  BY <1>1, <1>4, <1>7 DEF GalleryInv, GalleryPlaced
<1>. QED
  BY <1>1, <1>5, <1>6, <1>7 DEF GalleryInv, OneIngest

-----------------------------------------------------------------------------
LEMMA GalleryStarts == GalleryInit => GalleryInv
<1>. SUFFICES ASSUME GalleryInit PROVE GalleryInv
  OBVIOUS
<1>1. /\ weather \in Weathers /\ listening \in BOOLEAN /\ files = <<>> /\ nextFile = 1 /\ rows = <<>>
      /\ posted = FALSE /\ shown = <<>> /\ albums = 0 /\ ingest = [i \in Ingests |-> AtRest]
      /\ outcome.of = "none" /\ backfills = 0 /\ upsets = 0
  BY DEF GalleryInit, NoOutcome
<1>2. weather.backfills \in Nat /\ weather.upsets \in Nat
  BY <1>1, GalleryAssumption
<1>3. GalleryVarsOK
  <2>1. 0 \in 0..weather.backfills /\ 0 \in 0..weather.upsets /\ Len(<<>>) = 0 /\ 1 \in 1..(0 + 1)
    BY <1>2
  <2>2. files \in Seq(1..GalleryPages) /\ rows \in Seq(DOMAIN files) /\ shown \in Seq(DOMAIN files)
    BY <1>1
  <2>. QED
    BY <1>1, <2>1, <2>2 DEF GalleryVarsOK
<1>4. \A i \in Ingests : ingest[i] = AtRest /\ ~Working(i)
  BY <1>1 DEF Working, Doing, AtRest
<1>5. GalleryShape
  <2>1. ingest \in [Ingests -> IngestType]
    BY <1>1, RestType
  <2>2. IngestShape(AtRest, files, rows, shown)
    BY <1>1, RestShape
  <2>. QED
    BY <1>1, <1>3, <1>4, <2>1, <2>2 DEF GalleryShape
<1>6. GalleryAlone
  <2>1. Distinct(rows) /\ IsPartOf(shown, rows)
    <3>1. Distinct(<<>>)
      BY DEF Distinct
    <3>2. IsPartOf(<<>>, <<>>)
      <4>1. <<>> \in Seq(Nat)
        OBVIOUS
      <4>. QED
        BY <4>1, PartOf
    <3>. QED
      BY <1>1, <3>1, <3>2
  <2>. QED
    BY <1>1, <1>4, <2>1 DEF GalleryAlone
<1>7. GalleryPlaced
  BY <1>1, <1>4 DEF GalleryPlaced
<1>. QED
  BY <1>5, <1>6, <1>7 DEF GalleryInv

LEMMA GalleryKeeps == GalleryInv /\ [GalleryNext]_galleryVars => GalleryInv'
<1>. SUFFICES ASSUME GalleryInv, [GalleryNext]_galleryVars PROVE GalleryInv'
  OBVIOUS
<1>1. CASE PassMeets
  <2>1. "pass" \in Ingests /\ FALSE \in BOOLEAN /\ Begins("pass", FALSE)
        /\ backfills' \in 0..weather.backfills
    BY <1>1 DEF PassMeets, Ingests, GalleryInv, GalleryShape, GalleryVarsOK
  <2>. QED
    BY <2>1, BeginsKeepsRows
<1>2. CASE ListenerStarts
  BY <1>2, StartsKeepsRows
<1>3. CASE ListenerStops
  BY <1>3, StopsKeepsRows
<1>4. CASE PassCancelled
  BY <1>4, CancelKeepsRows
<1>5. CASE ProcessRestarts
  BY <1>5, RestartKeepsRows
<1>6. ASSUME NEW i \in Ingests, BackfillAsked(i) PROVE GalleryInv'
  <2>1. Begins(i, ~listening) /\ (~listening) \in BOOLEAN
    BY <1>6 DEF BackfillAsked
  <2>2. backfills' \in 0..weather.backfills
    <3>1. weather.backfills \in Nat /\ backfills \in 0..weather.backfills
      BY GalleryTypes, GalleryAssumption DEF GalleryInv, GalleryShape, GalleryVarsOK
    <3>. QED
      BY <1>6, <3>1 DEF BackfillAsked
  <2>. QED
    BY <2>1, <2>2, BeginsKeepsRows
<1>7. ASSUME NEW i \in Ingests, IngestStep(i) PROVE GalleryInv'
  BY <1>7, CountsKeepsRows, FetchesKeepsRows, DownloadsKeepsRows, PagingEnds, TakesKeepsRows, PutsKeepsRows, ReadsKeepsRows,
     StoresKeepsRows, ListsKeepsRows, ShowsKeepsRows, OutboundKeepsRows, PostsKeepsRows, RecordsKeepsRows DEF IngestStep
<1>8. CASE UNCHANGED galleryVars
  <2>1. GalleryShape'
    BY <1>8 DEF galleryVars, GalleryInv, GalleryShape, GalleryVarsOK
  <2>2. OneIngest => GalleryAlone'
    BY <1>8 DEF galleryVars, GalleryInv, GalleryAlone, Working, Doing
  <2>3. OneIngest /\ ~weather.missing => GalleryPlaced'
    BY <1>8 DEF galleryVars, GalleryInv, GalleryPlaced, Working, Doing
  <2>. QED
    BY <1>8, <2>1, <2>2, <2>3 DEF galleryVars, GalleryInv, OneIngest
<1>. QED
  BY <1>1, <1>2, <1>3, <1>4, <1>5, <1>6, <1>7, <1>8 DEF GalleryNext

(* The pages of a gallery are stored once and in their place, the site shows
   them, the album is posted once but for upsets, and a gallery that counts as
   processed is out (ehentai/worker.py, wnacg/worker.py, storage.py): for every
   order of ingests, stops, restarts and failures and both kinds of media
   stores; where GalleryIsKept says so, for ingests that come one by one. *)
THEOREM GalleryKept == GallerySpec => []GalleryIsKept
<1>1. GalleryInv => GalleryIsKept
  <2>. SUFFICES ASSUME GalleryInv PROVE GalleryIsKept
    OBVIOUS
  <2>1. GalleryTypeOK
    <3>1. ASSUME NEW i \in Ingests
          PROVE  /\ ingest[i].at \in Places /\ ingest[i].next \in 1..(GalleryPages + 1)
                 /\ Elements(ingest[i].batch) \subseteq DOMAIN files
      BY DEF GalleryInv, GalleryShape, IngestShape, IngestType
    <3>. QED
      BY <3>1 DEF GalleryInv, GalleryShape, GalleryVarsOK, GalleryTypeOK, Ways
  <2>2. PagesInPlace
    BY DEF GalleryInv, GalleryPlaced, PagesInPlace
  <2>3. SiteShowsChapter
    BY DEF GalleryInv, GalleryShape, GalleryAlone, SiteShowsChapter
  <2>4. AlbumPostedOnce
    <3>1. ASSUME OneIngest, NEW i \in Ingests, Doing(i).at \in {"resending", "posting"} PROVE ~posted
      <4>1. Working(i) /\ ingest[i].at \in {"resending", "posting"}
        BY <3>1 DEF Working, Doing
      <4>2. OneTurn(ingest[i], weather.numbered, nextFile, rows, shown, posted, upsets, albums)
            /\ ingest[i].published
        BY <3>1, <4>1, AtWork DEF IngestShape, Outgoing
      <4>. QED
        BY <4>1, <4>2 DEF OneTurn
    <3>. QED
      BY <3>1 DEF GalleryInv, GalleryAlone, AlbumPostedOnce
  <2>5. ProcessedIsOut
    BY DEF GalleryInv, GalleryAlone, ProcessedIsOut
  <2>. QED
    BY <2>1, <2>2, <2>3, <2>4, <2>5 DEF GalleryIsKept
<1>. QED
  BY <1>1, GalleryStarts, GalleryKeeps, PTL DEF GallerySpec

(* If ingests come one by one and no page is ever missing, a gallery that counts
   as processed or as a duplicate is complete, unless its last ingest was
   hindered: what a stopped or failed ingest left out, the next one fills in
   (backfill_incomplete, ehentai/worker.py:233). *)
THEOREM BackfillComplete == GallerySpec => []BackfillFillsIn
<1>1. GalleryInv => BackfillFillsIn
  <2>. SUFFICES ASSUME GalleryInv, OneIngest, ~weather.missing,
                       outcome.of \in {"ok", "duplicate"}, ~outcome.hindered
                PROVE  {files[rows[k]] : k \in DOMAIN rows} = 1..GalleryPages
    BY DEF BackfillFillsIn, NothingLeftOut
  <2>1. Len(rows) = GalleryPages /\ \A k \in DOMAIN rows : files[rows[k]] = k
    BY DEF GalleryInv, GalleryPlaced
  <2>2. DOMAIN rows = 1..GalleryPages
    BY <2>1, GalleryTypes
  <2>. QED
    BY <2>1, <2>2
<1>. QED
  BY <1>1, GalleryStarts, GalleryKeeps, PTL DEF GallerySpec

-----------------------------------------------------------------------------
(* A thread of a manga source.                                             *)

Prefix(s, t) == Len(s) <= Len(t) /\ \A k \in 1..Len(s) : s[k] = t[k]

LEMMA KeepingGrows ==
  ASSUME NEW T, NEW s \in Seq(T), NEW t \in Seq(T), NEW S, Prefix(s, t)
  PROVE  Len(Keeping(s, S)) <= Len(Keeping(t, S))
<1>1. /\ Len(s) \in Nat /\ Len(t) \in Nat /\ Len(s) <= Len(t)
      /\ \A k \in 1..Len(s) : s[k] = t[k]
      /\ \A k \in 1..Len(t) : t[k] \in T
  BY DEF Prefix
<1>2. PICK f : KeptUpto(s, S, f, Len(s)) /\ Keeping(s, S) = f[Len(s)]
  BY <1>1, KeepingIs
<1>3. PICK g : KeptUpto(t, S, g, Len(t)) /\ Keeping(t, S) = g[Len(t)]
  BY <1>1, KeepingIs
<1>4. \A n \in 0..Len(s) : f[n] = IF n = 0 THEN <<>> ELSE IF s[n] \in S THEN Append(f[n - 1], s[n])
                                                         ELSE f[n - 1]
  BY <1>2 DEF KeptUpto
<1>5. \A n \in 0..Len(t) : g[n] = IF n = 0 THEN <<>> ELSE IF t[n] \in S THEN Append(g[n - 1], t[n])
                                                         ELSE g[n - 1]
  BY <1>3 DEF KeptUpto
<1>. DEFINE differ == {n \in Nat : n <= Len(s) /\ f[n] # g[n]}
<1>6. differ = {}
  <2>. SUFFICES ASSUME differ # {} PROVE FALSE
    OBVIOUS
  <2>1. PICK n \in differ : \A m \in differ : n <= m
    BY LeastCounterexample
  <2>2. n \in 0..Len(s) /\ n \in 0..Len(t) /\ f[n] # g[n]
    BY <1>1, <2>1
  <2>3. n # 0
    BY <1>4, <1>5, <2>2
  <2>4. n - 1 \in Nat /\ n - 1 <= Len(s) /\ n - 1 \notin differ /\ n \in 1..Len(s)
    BY <1>1, <2>1, <2>2, <2>3
  <2>5. f[n - 1] = g[n - 1] /\ s[n] = t[n]
    BY <1>1, <2>4
  <2>6. f[n] = IF s[n] \in S THEN Append(f[n - 1], s[n]) ELSE f[n - 1]
    BY <1>4, <2>2, <2>3
  <2>7. g[n] = IF t[n] \in S THEN Append(g[n - 1], t[n]) ELSE g[n - 1]
    BY <1>5, <2>2, <2>3
  <2>. QED
    BY <2>2, <2>5, <2>6, <2>7
<1>. DEFINE shorter == {n \in Nat : n <= Len(t) - Len(s)
                                    /\ ~(g[Len(s) + n] \in Seq(T) /\ Len(g[Len(s)]) <= Len(g[Len(s) + n]))}
<1>7. shorter = {}
  <2>. SUFFICES ASSUME shorter # {} PROVE FALSE
    OBVIOUS
  <2>1. PICK n \in shorter : \A m \in shorter : n <= m
    BY LeastCounterexample
  <2>2. n \in Nat /\ Len(s) + n \in 0..Len(t)
    BY <1>1, <2>1
  <2>3. n # 0
    <3>1. SUFFICES ASSUME n = 0 PROVE FALSE
      OBVIOUS
    <3>2. Len(s) \in 0..Len(s) /\ Len(s) \notin differ /\ Len(s) + 0 = Len(s)
      BY <1>1, <1>6
    <3>3. g[Len(s)] = f[Len(s)]
      BY <1>1, <3>2
    <3>4. Keeping(s, S) \in Seq(T)
      BY KeepingFacts
    <3>5. g[Len(s) + n] \in Seq(T) /\ Len(g[Len(s)]) <= Len(g[Len(s) + n])
      <4>1. g[Len(s) + n] = Keeping(s, S) /\ g[Len(s)] = Keeping(s, S)
        BY <1>2, <3>1, <3>2, <3>3
      <4>. QED
        BY <3>4, <4>1
    <3>. QED
      BY <2>1, <3>5
  <2>. DEFINE i == Len(s) + n
  <2>4. n - 1 \in Nat /\ n - 1 <= Len(t) - Len(s) /\ n - 1 \notin shorter /\ Len(s) + (n - 1) = i - 1
        /\ i \in 1..Len(t) /\ i \in 0..Len(t) /\ i # 0
    <3>1. n - 1 \in Nat /\ n <= Len(t) - Len(s) /\ n - 1 < n
      BY <1>1, <2>1, <2>2, <2>3
    <3>. HIDE DEF shorter
    <3>2. n - 1 \notin shorter
      BY <2>1, <2>2, <3>1
    <3>. QED
      BY <1>1, <2>2, <2>3, <3>1, <3>2
  <2>5. g[i - 1] \in Seq(T) /\ Len(g[Len(s)]) <= Len(g[i - 1])
    BY <2>4
  <2>. HIDE DEF i, shorter, differ
  <2>6. g[i] = IF t[i] \in S THEN Append(g[i - 1], t[i]) ELSE g[i - 1]
    BY <1>5, <2>4
  <2>7. g[i] \in Seq(T) /\ (Len(g[i]) = Len(g[i - 1]) + 1 \/ Len(g[i]) = Len(g[i - 1]))
    BY <1>1, <2>4, <2>5, <2>6
  <2>8. Len(g[Len(s)]) \in Nat
    <3>1. Keeping(s, S) \in Seq(T)
      BY KeepingFacts
    <3>2. Len(s) \in Nat /\ Len(s) <= Len(s) /\ Len(s) \notin differ
      BY <1>1, <1>6
    <3>3. f[Len(s)] = g[Len(s)]
      BY <3>2 DEF differ
    <3>. QED
      BY <1>2, <3>1, <3>3
  <2>9. Len(g[i - 1]) \in Nat
    BY <2>5
  <2>10. Len(g[Len(s)]) <= Len(g[i])
    BY <2>5, <2>7, <2>8, <2>9
  <2>. QED
    BY <2>1, <2>7, <2>10 DEF shorter, i
<1>8. Len(s) \notin differ /\ Len(t) - Len(s) \notin shorter
  BY <1>6, <1>7
<1>. HIDE DEF differ, shorter
<1>9. f[Len(s)] = g[Len(s)]
  BY <1>1, <1>8 DEF differ
<1>10. Len(t) - Len(s) \in Nat /\ Len(s) + (Len(t) - Len(s)) = Len(t) /\ Len(t) - Len(s) <= Len(t) - Len(s)
  BY <1>1
<1>11. Len(g[Len(s)]) <= Len(g[Len(t)])
  BY <1>8, <1>10 DEF shorter
<1>. QED
  BY <1>2, <1>3, <1>9, <1>11

LEMMA PrefixFacts ==
  ASSUME NEW T, NEW s \in Seq(T), NEW t \in Seq(T), NEW u \in Seq(T)
  PROVE  /\ Prefix(s, s) /\ Prefix(<<>>, s)
         /\ Prefix(s, s \o u)
         /\ Prefix(s, t) /\ Prefix(t, u) => Prefix(s, u)
         /\ Prefix(s, t) /\ Len(s) = Len(t) => s = t
<1>1. Len(s) \in Nat /\ Len(t) \in Nat /\ Len(u) \in Nat /\ Len(<<>>) = 0 /\ Len(s \o u) = Len(s) + Len(u)
      /\ \A k \in 1..Len(s) : (s \o u)[k] = s[k]
  OBVIOUS
<1>2. Prefix(s, s) /\ Prefix(<<>>, s) /\ Prefix(s, s \o u)
  BY <1>1 DEF Prefix
<1>3. Prefix(s, t) /\ Prefix(t, u) => Prefix(s, u)
  <2>. SUFFICES ASSUME Prefix(s, t), Prefix(t, u) PROVE Prefix(s, u)
    OBVIOUS
  <2>1. Len(s) <= Len(u) /\ 1..Len(s) \subseteq 1..Len(t)
    BY <1>1 DEF Prefix
  <2>. QED
    BY <2>1 DEF Prefix
<1>4. ASSUME Prefix(s, t), Len(s) = Len(t) PROVE s = t
  <2>1. s \in [1..Len(s) -> T] /\ t \in [1..Len(s) -> T] /\ \A k \in 1..Len(s) : s[k] = t[k]
    BY <1>4 DEF Prefix
  <2>. QED
    BY <2>1
<1>. QED
  BY <1>2, <1>3, <1>4

LEMMA HalvesFacts ==
  ASSUME NEW T, NEW s \in Seq(T), NEW n \in 0..Len(s)
  PROVE  /\ Upto(n, s) \in Seq(T) /\ After(n, s) \in Seq(T)
         /\ Elements(s) = Elements(Upto(n, s)) \cup Elements(After(n, s))
         /\ Distinct(s) => Distinct(Upto(n, s)) /\ Distinct(After(n, s))
<1>0. n \in Nat /\ Len(s) \in Nat /\ n <= Len(s) /\ DOMAIN s = 1..Len(s) /\ \A k \in 1..Len(s) : s[k] \in T
  OBVIOUS
<1>. DEFINE b == Upto(n, s)
            a == After(n, s)
<1>1. b \in Seq(T) /\ Len(b) = n /\ DOMAIN b = 1..n /\ \A k \in 1..n : b[k] = s[k]
  BY <1>0 DEF Upto
<1>2. a \in Seq(T) /\ Len(a) = Len(s) - n /\ DOMAIN a = 1..(Len(s) - n)
      /\ \A k \in 1..(Len(s) - n) : a[k] = s[k + n]
  <2>1. n + 1 \in Nat /\ n + 1 <= Len(s) + 1 /\ Len(s) - n \in Nat
    BY <1>0
  <2>2. SubSeq(s, n + 1, Len(s)) = [k \in 1..(Len(s) - (n + 1) + 1) |-> s[k + (n + 1) - 1]]
    BY <1>0, <2>1
  <2>3. Len(s) - (n + 1) + 1 = Len(s) - n
    BY <1>0
  <2>4. \A k \in 1..(Len(s) - n) : k + (n + 1) - 1 = k + n /\ k + n \in 1..Len(s)
    BY <1>0
  <2>5. a = [k \in 1..(Len(s) - n) |-> s[k + n]]
    BY <2>2, <2>3, <2>4 DEF After
  <2>. QED
    BY <1>0, <2>1, <2>4, <2>5
<1>. HIDE DEF a, b
<1>3. Elements(s) = Elements(b) \cup Elements(a)
  <2>1. Elements(s) \subseteq Elements(b) \cup Elements(a)
    <3>. SUFFICES ASSUME NEW k \in 1..Len(s) PROVE s[k] \in Elements(b) \cup Elements(a)
      BY <1>0 DEF Elements
    <3>1. CASE k <= n
      BY <1>0, <1>1, <3>1 DEF Elements
    <3>2. CASE k > n
      <4>1. k - n \in 1..(Len(s) - n) /\ (k - n) + n = k
        BY <1>0, <3>2
      <4>. QED
        BY <1>2, <4>1 DEF Elements
    <3>. QED
      BY <1>0, <3>1, <3>2
  <2>2. Elements(b) \subseteq Elements(s)
    BY <1>0, <1>1 DEF Elements
  <2>3. Elements(a) \subseteq Elements(s)
    <3>1. \A k \in 1..(Len(s) - n) : k + n \in 1..Len(s)
      BY <1>0
    <3>. QED
      BY <1>0, <1>2, <3>1 DEF Elements
  <2>. QED
    BY <2>1, <2>2, <2>3
<1>4. ASSUME Distinct(s) PROVE Distinct(b) /\ Distinct(a)
  <2>1. Distinct(b)
    BY <1>0, <1>1, <1>4 DEF Distinct
  <2>2. Distinct(a)
    <3>. SUFFICES ASSUME NEW j \in DOMAIN a, NEW k \in DOMAIN a, j # k PROVE a[j] # a[k]
      BY DEF Distinct
    <3>1. j + n \in DOMAIN s /\ k + n \in DOMAIN s /\ j + n # k + n
      BY <1>0, <1>2
    <3>. QED
      BY <1>2, <1>4, <3>1 DEF Distinct
  <2>. QED
    BY <2>1, <2>2
<1>. QED
  BY <1>1, <1>2, <1>3, <1>4 DEF a, b

SortedUpto(s, f, n) == f = [p \in 0..n |-> IF p = 0 THEN <<>> ELSE f[p - 1] \o Keeping(s, {p})]

LEMMA SortedExists ==
  ASSUME NEW s, NEW n \in Nat
  PROVE  \E f : SortedUpto(s, f, n)
<1>. DEFINE T == {k \in Nat : ~ \E f : SortedUpto(s, f, k)}
<1>1. SUFFICES ASSUME T # {} PROVE FALSE
  OBVIOUS
<1>2. PICK k \in T : \A m \in T : k <= m
  BY <1>1, LeastCounterexample
<1>3. CASE k = 0
  <2>1. SortedUpto(s, [j \in 0..0 |-> <<>>], 0)
    BY DEF SortedUpto
  <2>. QED
    BY <1>3, <2>1
<1>4. CASE k # 0
  <2>1. k - 1 \in Nat /\ k - 1 \notin T
    BY <1>2, <1>4
  <2>2. PICK f : SortedUpto(s, f, k - 1)
    BY <2>1
  <2>. DEFINE g == [j \in 0..k |-> IF j = k THEN f[k - 1] \o Keeping(s, {k}) ELSE f[j]]
  <2>3. \A j \in 0..k : g[j] = IF j = 0 THEN <<>> ELSE g[j - 1] \o Keeping(s, {j})
    <3>. SUFFICES ASSUME NEW j \in 0..k
                  PROVE g[j] = IF j = 0 THEN <<>> ELSE g[j - 1] \o Keeping(s, {j})
      OBVIOUS
    <3>1. CASE j = k
      <4>1. g[k - 1] = f[k - 1]
        BY <1>2, <1>4
      <4>. QED
        BY <3>1, <4>1, <1>4
    <3>2. CASE j # k
      <4>1. j \in 0..(k - 1) /\ g[j] = f[j] /\ (j # 0 => g[j - 1] = f[j - 1])
        BY <3>2, <1>2
      <4>. HIDE DEF g
      <4>2. f[j] = IF j = 0 THEN <<>> ELSE f[j - 1] \o Keeping(s, {j})
        BY <2>2, <4>1 DEF SortedUpto
      <4>. QED
        BY <4>1, <4>2
    <3>. QED
      BY <3>1, <3>2
  <2>4. SortedUpto(s, g, k)
    <3>1. g = [j \in 0..k |-> g[j]]
      OBVIOUS
    <3>. HIDE DEF g
    <3>. QED
      BY <3>1, <2>3 DEF SortedUpto
  <2>. QED
    BY <2>4, <1>2
<1>. QED
  BY <1>3, <1>4

LEMMA InOrderFacts ==
  ASSUME NEW s \in PageSeqs
  PROVE  /\ InOrder(s) \in PageSeqs /\ Elements(InOrder(s)) = Elements(s)
         /\ Distinct(s) => Distinct(InOrder(s))
<1>1. MaxPages \in Nat /\ MangaPages = 1..MaxPages /\ s \in Seq(MangaPages)
  BY MangaAssumption DEF MangaPages, PageSeqs
<1>. DEFINE f == CHOOSE h : SortedUpto(s, h, MaxPages)
<1>2. SortedUpto(s, f, MaxPages)
  BY <1>1, SortedExists
<1>3. InOrder(s) = f[MaxPages]
  BY DEF InOrder, SortedUpto
<1>. HIDE DEF f
<1>4. \A p \in 0..MaxPages : f[p] = IF p = 0 THEN <<>> ELSE f[p - 1] \o Keeping(s, {p})
  BY <1>2 DEF SortedUpto
<1>. DEFINE Good(n) == /\ f[n] \in Seq(MangaPages) /\ Elements(f[n]) = Elements(s) \cap 1..n
                       /\ Distinct(s) => Distinct(f[n])
            bad == {n \in Nat : n <= MaxPages /\ ~Good(n)}
<1>5. bad = {}
  <2>. SUFFICES ASSUME bad # {} PROVE FALSE
    OBVIOUS
  <2>1. PICK n \in bad : \A m \in bad : n <= m
    BY LeastCounterexample
  <2>2. n \in Nat /\ n \in 0..MaxPages /\ ~Good(n)
    BY <1>1, <2>1
  <2>3. CASE n = 0
    <3>0. f[0] = <<>>
      BY <1>4, <2>2, <2>3
    <3>1. <<>> \in Seq(MangaPages) /\ Elements(<<>>) = {} /\ Distinct(<<>>)
      BY DEF Elements, Distinct
    <3>2. 1..0 = {}
      OBVIOUS
    <3>. QED
      BY <2>2, <2>3, <3>0, <3>1, <3>2
  <2>4. CASE n # 0
    <3>1. n - 1 \in Nat /\ n - 1 < n /\ n - 1 <= MaxPages /\ 1..n = 1..(n - 1) \cup {n}
          /\ n \notin 1..(n - 1)
      BY <1>1, <2>2, <2>4
    <3>2. n - 1 \notin bad
      <4>. HIDE DEF bad
      <4>. QED
        BY <2>1, <2>2, <3>1
    <3>3. Good(n - 1)
      BY <3>1, <3>2
    <3>. DEFINE u == f[n - 1]
                v == Keeping(s, {n})
    <3>4. f[n] = u \o v
      BY <1>4, <2>2, <2>4
    <3>5. /\ v \in Seq(MangaPages) /\ Elements(v) = Elements(s) \cap {n}
          /\ Distinct(s) => Distinct(v)
      BY <1>1, KeepingFacts
    <3>6. u \in Seq(MangaPages) /\ Elements(u) = Elements(s) \cap 1..(n - 1) /\ (Distinct(s) => Distinct(u))
      BY <3>3
    <3>. HIDE DEF u, v, bad, Good
    <3>7. /\ u \o v \in Seq(MangaPages) /\ Elements(u \o v) = Elements(u) \cup Elements(v)
          /\ Distinct(u) /\ Distinct(v) /\ Elements(u) \cap Elements(v) = {} => Distinct(u \o v)
      BY <3>5, <3>6, ConcatFacts
    <3>8. Elements(u \o v) = Elements(s) \cap 1..n /\ Elements(u) \cap Elements(v) = {}
      BY <3>1, <3>5, <3>6, <3>7
    <3>9. Good(n)
      BY <3>4, <3>5, <3>6, <3>7, <3>8 DEF Good
    <3>. QED
      BY <2>2, <3>9
  <2>. QED
    BY <2>3, <2>4
<1>6. Good(MaxPages)
  BY <1>1, <1>5
<1>7. Elements(s) \subseteq 1..MaxPages
  BY <1>1 DEF Elements
<1>. QED
  BY <1>3, <1>6, <1>7 DEF PageSeqs

LEMMA KeepingNone ==
  ASSUME NEW T, NEW s \in Seq(T), NEW S
  PROVE  Keeping(s, S) = <<>> <=> Elements(s) \cap S = {}
<1>1. Keeping(s, S) \in Seq(T) /\ Elements(Keeping(s, S)) = Elements(s) \cap S
  BY KeepingFacts
<1>. DEFINE u == Keeping(s, S)
<1>. HIDE DEF u
<1>2. u \in Seq(T) => (u = <<>> <=> Elements(u) = {})
  <2>1. ASSUME u \in Seq(T), u # <<>> PROVE Elements(u) # {}
    <3>1. 1 \in DOMAIN u
      BY <2>1
    <3>. QED
      BY <3>1 DEF Elements
  <2>2. Elements(<<>>) = {}
    BY DEF Elements
  <2>. QED
    BY <2>1, <2>2
<1>. QED
  BY <1>1, <1>2 DEF u

LEMMA ImagesFacts ==
  ASSUME NEW s \in PageSeqs
  PROVE  /\ Images(s) \in PageSeqs /\ Len(Images(s)) \in Nat
         /\ Images(s) = <<>> <=> Elements(s) \subseteq Videos
         /\ Images(s) # <<>> => Len(Images(s)) > 0
<1>1. s \in Seq(MangaPages)
  BY DEF PageSeqs
<1>2. Images(s) \in Seq(MangaPages)
  BY <1>1, KeepingFacts DEF Images
<1>3. Images(s) = <<>> <=> Elements(s) \cap (MangaPages \ Videos) = {}
  BY <1>1, KeepingNone DEF Images
<1>4. Elements(s) \subseteq MangaPages
  BY <1>1 DEF Elements
<1>. HIDE DEF Images
<1>5. Len(Images(s)) \in Nat /\ (Images(s) # <<>> => Len(Images(s)) > 0)
  BY <1>2
<1>. QED
  BY <1>2, <1>3, <1>4, <1>5 DEF PageSeqs

LEMMA UnseenFacts ==
  ASSUME NEW r, r.batch \in PageSeqs, r.read.exists \in BOOLEAN, r.read.pages \in PageSeqs
  PROVE  /\ Unseen(r) \in PageSeqs
         /\ ~r.read.exists => Unseen(r) = r.batch
         /\ r.read.exists => /\ Elements(Unseen(r)) = Elements(r.batch) \ Elements(r.read.pages)
                             /\ Distinct(Unseen(r))
<1>1. CASE ~r.read.exists
  BY <1>1 DEF Unseen
<1>2. CASE r.read.exists
  <2>. DEFINE b == r.batch
              isNew(i) == b[i] \notin Elements(r.read.pages) /\ \A j \in 1..(i - 1) : b[j] # b[i]
              I == {i \in DOMAIN b : isNew(i)}
              ids == [i \in DOMAIN b |-> i]
              new == Keeping(ids, I)
              u == [k \in DOMAIN new |-> b[new[k]]]
  <2>1. Unseen(r) = u
    BY <1>2 DEF Unseen
  <2>2. Len(b) \in Nat /\ DOMAIN b = 1..Len(b) /\ \A i \in DOMAIN b : b[i] \in MangaPages
    BY DEF PageSeqs
  <2>3. ids \in Seq(Nat) /\ Distinct(ids) /\ Elements(ids) = DOMAIN b
    <3>1. ids \in [1..Len(b) -> Nat]
      BY <2>2
    <3>2. ids \in Seq(Nat)
      BY <2>2, <3>1
    <3>. QED
      BY <3>2 DEF Distinct, Elements
  <2>. HIDE DEF I, ids, b
  <2>4. new \in Seq(Nat) /\ Elements(new) = Elements(ids) \cap I /\ Distinct(new)
    BY <2>3, KeepingFacts
  <2>. HIDE DEF new
  <2>5. Elements(new) = I /\ I \subseteq DOMAIN b
    BY <2>3, <2>4 DEF I
  <2>6. /\ Len(new) \in Nat /\ DOMAIN new = 1..Len(new)
        /\ \A k \in DOMAIN new : new[k] \in I
    BY <2>4, <2>5 DEF Elements
  <2>7. u \in PageSeqs
    <3>1. \A k \in DOMAIN new : b[new[k]] \in MangaPages
      BY <2>2, <2>5, <2>6
    <3>2. u \in [1..Len(new) -> MangaPages]
      BY <2>6, <3>1
    <3>. QED
      BY <2>6, <3>2 DEF PageSeqs
  <2>8. Elements(u) = {b[i] : i \in I}
    <3>1. Elements(u) = {b[new[k]] : k \in DOMAIN new}
      BY DEF Elements
    <3>2. \A i \in I : \E k \in DOMAIN new : new[k] = i
      BY <2>5 DEF Elements
    <3>. QED
      BY <2>6, <3>1, <3>2
  <2>9. {b[i] : i \in I} = Elements(b) \ Elements(r.read.pages)
    <3>1. \A i \in I : b[i] \in Elements(b) \ Elements(r.read.pages)
      BY DEF I, Elements
    <3>2. ASSUME NEW p \in Elements(b) \ Elements(r.read.pages) PROVE p \in {b[i] : i \in I}
      <4>. DEFINE Where == {i \in DOMAIN b : b[i] = p}
      <4>1. Where # {} /\ Where \subseteq Nat
        BY <2>2 DEF Elements
      <4>2. PICK i \in Where : \A j \in Where : i <= j
        BY <4>1, LeastCounterexample
      <4>3. i \in DOMAIN b /\ i \in Nat /\ b[i] = p
        BY <2>2, <4>2
      <4>4. \A j \in 1..(i - 1) : j \in DOMAIN b /\ j \notin Where
        <5>. SUFFICES ASSUME NEW j \in 1..(i - 1) PROVE j \in DOMAIN b /\ j \notin Where
          OBVIOUS
        <5>1. j \in DOMAIN b /\ j < i /\ j \in Nat
          BY <2>2, <4>3
        <5>. HIDE DEF Where
        <5>. QED
          BY <4>2, <4>3, <5>1
      <4>5. i \in I
        BY <4>3, <4>4 DEF I
      <4>. QED
        BY <4>3, <4>5
    <3>. QED
      BY <3>1, <3>2
  <2>10. Distinct(u)
    <3>. SUFFICES ASSUME NEW j \in DOMAIN u, NEW k \in DOMAIN u, j # k PROVE u[j] # u[k]
      BY DEF Distinct
    <3>1. new[j] \in I /\ new[k] \in I /\ new[j] # new[k]
      BY <2>4, <2>6 DEF Distinct
    <3>2. \A x, y \in I : x < y => b[x] # b[y]
      <4>. SUFFICES ASSUME NEW x \in I, NEW y \in I, x < y PROVE b[x] # b[y]
        OBVIOUS
      <4>1. x \in 1..(y - 1)
        BY <2>2, <2>5
      <4>. QED
        BY <4>1 DEF I
    <3>3. new[j] < new[k] \/ new[k] < new[j]
      BY <2>2, <2>5, <3>1
    <3>. QED
      BY <3>1, <3>2, <3>3
  <2>. QED
    BY <1>2, <2>1, <2>7, <2>8, <2>9, <2>10 DEF b
<1>. QED
  BY <1>1, <1>2
-----------------------------------------------------------------------------
ChannelItems == Videos \cup {Album}
ChapterType ==
  [exists : BOOLEAN, pages : PageSeqs, siteCount : Nat, sent : SUBSET ChannelItems,
   attempts : 0..MaxAttempts]
DeliveryType ==
  [at : Steps, pages : PageSeqs, final : BOOLEAN, last : BOOLEAN, batch : PageSeqs,
   read : ChapterType, published : BOOLEAN, ok : BOOLEAN, images : PageSeqs,
   videos : SUBSET Videos, count : Nat, known : SUBSET ChannelItems, todo : SUBSET ChannelItems,
   plan : SUBSET ChannelItems]

OnSite == {"posting", "marking"}
PagesGone == {"idle", "stored", "locking", "sending", "failing"}

(* Whatever happens: a delivery in state r has read a beginning C of what is
   stored, counts no more images than there are, and goes to the channel only
   if the site S shows something; without edits (~e) its pages are distinct. *)
DeliveryShape(r, C, S, e) ==
  /\ r \in DeliveryType
  /\ r.at \in PagesGone => r.pages = <<>>
  /\ r.at # "storing" => r.batch = <<>>
  /\ ~e => Distinct(r.pages) /\ Distinct(r.batch)
  /\ r.read.exists => C.exists
  /\ Prefix(r.read.pages, C.pages)
  /\ ~r.read.exists => r.read.pages = <<>>
  /\ r.read.siteCount > 0 \/ r.count > 0 \/ r.ok \/ r.at \in {"locking", "sending"} => S # <<>>
  /\ r.at = "listing" => C.exists
  /\ r.at \in OnSite \/ (r.published /\ r.at # "listing") => r.images # <<>>
  /\ Len(r.images) <= Len(Images(C.pages))
  /\ r.count <= Len(Images(C.pages))
  /\ r.read.siteCount <= Len(Images(C.pages))

ChapterShape(C, S, e) ==
  /\ C \in ChapterType
  /\ C.exists => Images(C.pages) # <<>>
  /\ ~C.exists => C.pages = <<>>
  /\ C.siteCount <= Len(Images(C.pages))
  /\ C.siteCount > 0 => S # <<>>
  /\ ~e => Distinct(C.pages)

BucketShape(b, n, e) ==
  /\ b \in [open : BOOLEAN, pages : PageSeqs]
  /\ ~b.open => b.pages = <<>>
  /\ Elements(b.pages) \subseteq 1..n
  /\ ~e => Distinct(b.pages)

MangaVarsOK ==
  /\ circumstances \in Conditions /\ history \in BOOLEAN
  /\ sent \in 0..circumstances.pages /\ mishaps \in 0..circumstances.mishaps
  /\ site \in PageSeqs /\ channel \in [ChannelItems -> Nat]
  /\ channel[Album] > 0 => site # <<>>
  /\ BucketShape(bucket, sent, circumstances.edits)
  /\ ChapterShape(chapter, site, circumstances.edits)
MangaShape ==
  /\ MangaVarsOK
  /\ delivery \in [Deliverers -> DeliveryType]
  /\ \A d \in Deliverers : DeliveryShape(delivery[d], chapter, site, circumstances.edits)

(* One delivery posts at a time, what it has not recorded yet; every further
   post of an item has its mishap. *)
MangaPosts ==
  /\ \A d, e \in Deliverers : D(d).at = "sending" /\ D(e).at = "sending" => d = e
  /\ \A d \in Deliverers : D(d).at = "sending" =>
       D(d).todo \subseteq D(d).plan /\ D(d).plan \cap chapter.sent = {}
  /\ \A i \in ChannelItems :
       /\ channel[i] <= 1 + mishaps
       /\ \/ channel[i] <= mishaps \/ i \in chapter.sent
          \/ \E d \in Deliverers : D(d).at = "sending" /\ i \in D(d).plan \ D(d).todo

(* One delivery at a time: what it has read is what is stored, the site shows
   no more than that, and no image is lost without a mishap. *)
InHand(r) == Elements(r.pages) \cup Elements(r.batch)
OneDelivery(r, C, S) ==
  /\ r.at = "storing" => /\ r.read.pages = C.pages /\ r.read.exists = C.exists
                         /\ r.read.siteCount <= Len(S)
  /\ r.at \in OnSite \/ (r.published /\ r.at # "listing") => r.images = Images(C.pages)
  /\ r.count <= Len(S)
  /\ r.at = "marking" /\ r.ok => Len(r.images) <= Len(S)
MangaAlone ==
  /\ \A d, e \in Deliverers : Busy(d) /\ Busy(e) => d = e
  /\ \A d \in Deliverers : Busy(d) => OneDelivery(delivery[d], chapter, site)
  /\ Len(site) <= Len(Images(chapter.pages))
  /\ chapter.siteCount <= Len(site)
  /\ mishaps = 0 /\ ~history =>
       \A p \in (1..sent) \ Videos :
         \/ p \in Elements(chapter.pages) \cup Elements(bucket.pages)
         \/ \E d \in Deliverers : p \in InHand(delivery[d])

MangaInv ==
  /\ MangaShape /\ MangaPosts
  /\ circumstances.atOnce = 1 => MangaAlone


-----------------------------------------------------------------------------
LEMMA MangaConstants ==
  /\ MaxPages \in Nat /\ BatchSize \in Nat \ {0} /\ MaxAttempts \in Nat \ {0}
  /\ MangaPages = 1..MaxPages /\ Videos \subseteq MangaPages
  /\ Album = 0 /\ ChannelItems \subseteq Nat
<1>1. MaxPages \in Nat /\ Videos \subseteq 1..MaxPages /\ BatchSize \in Nat \ {0} /\ MaxAttempts \in Nat \ {0}
  BY MangaAssumption
<1>2. ChannelItems \subseteq Nat
  BY <1>1 DEF ChannelItems, Album
<1>. QED
  BY <1>1, <1>2 DEF MangaPages, Album

LEMMA IdleType == NoChapter \in ChapterType /\ Idle \in DeliveryType
<1>1. 0 \in 0..MaxAttempts /\ <<>> \in PageSeqs
  BY MangaConstants DEF PageSeqs
<1>2. NoChapter \in ChapterType
  BY <1>1 DEF NoChapter, ChapterType
<1>3. "idle" \in Steps
  BY DEF Steps
<1>. QED
  BY <1>1, <1>2, <1>3 DEF Idle, DeliveryType

LEMMA IdleShape ==
  ASSUME NEW C, C \in ChapterType, NEW S, NEW e
  PROVE  DeliveryShape(Idle, C, S, e)
<1>1. /\ Idle.at = "idle" /\ Idle.pages = <<>> /\ Idle.batch = <<>> /\ Idle.read = NoChapter
      /\ Idle.published = FALSE /\ Idle.ok = FALSE /\ Idle.images = <<>> /\ Idle.count = 0
  BY DEF Idle
<1>2. NoChapter.exists = FALSE /\ NoChapter.pages = <<>> /\ NoChapter.siteCount = 0
  BY DEF NoChapter
<1>3. C.pages \in PageSeqs /\ <<>> \in PageSeqs /\ Len(<<>>) = 0
  BY DEF ChapterType, PageSeqs
<1>4. Prefix(<<>>, C.pages)
  BY <1>3, PrefixFacts DEF PageSeqs
<1>5. Len(Images(C.pages)) \in Nat
  BY <1>3, ImagesFacts
<1>6. Distinct(<<>>)
  BY DEF Distinct
<1>. QED
  BY <1>1, <1>2, <1>3, <1>4, <1>5, <1>6, IdleType DEF DeliveryShape, OnSite

Grows(C, S, C2, S2) ==
  /\ C.exists => C2.exists
  /\ Prefix(C.pages, C2.pages)
  /\ S # <<>> => S2 # <<>>

LEMMA DeliveryStays ==
  ASSUME NEW r, NEW C \in ChapterType, NEW S, NEW C2 \in ChapterType, NEW S2, NEW e,
         DeliveryShape(r, C, S, e), Grows(C, S, C2, S2)
  PROVE  DeliveryShape(r, C2, S2, e)
<1>1. /\ r \in DeliveryType /\ r.read \in ChapterType /\ r.images \in PageSeqs
      /\ C.pages \in Seq(MangaPages) /\ C2.pages \in Seq(MangaPages) /\ r.count \in Nat
  BY DEF DeliveryShape, DeliveryType, ChapterType, PageSeqs
<1>2. r.read.pages \in Seq(MangaPages) /\ r.read.siteCount \in Nat /\ Len(r.images) \in Nat
  BY <1>1 DEF ChapterType, PageSeqs
<1>3. Prefix(r.read.pages, C2.pages)
  BY <1>1, <1>2, PrefixFacts DEF Grows, DeliveryShape
<1>4. Len(Images(C.pages)) <= Len(Images(C2.pages))
  BY <1>1, KeepingGrows DEF Grows, Images
<1>5. Len(Images(C.pages)) \in Nat /\ Len(Images(C2.pages)) \in Nat
  BY <1>1, ImagesFacts DEF PageSeqs
<1>6. /\ Len(r.images) <= Len(Images(C2.pages)) /\ r.count <= Len(Images(C2.pages))
      /\ r.read.siteCount <= Len(Images(C2.pages))
  BY <1>1, <1>2, <1>4, <1>5 DEF DeliveryShape
<1>. QED
  BY <1>3, <1>6 DEF DeliveryShape, Grows

LEMMA ShapeBecomes ==
  ASSUME MangaShape, NEW d \in Deliverers, NEW r, Becomes(d, r), MangaVarsOK', UNCHANGED circumstances,
         Grows(chapter, site, chapter', site'),
         DeliveryShape(r, chapter', site', circumstances.edits)
  PROVE  MangaShape'
<1>1. delivery' = [delivery EXCEPT ![d] = r] /\ r \in DeliveryType /\ delivery \in [Deliverers -> DeliveryType]
  BY DEF Becomes, DeliveryShape, MangaShape
<1>2. chapter \in ChapterType /\ chapter' \in ChapterType
  BY DEF MangaShape, MangaVarsOK, ChapterShape
<1>3. ASSUME NEW e \in Deliverers PROVE DeliveryShape(delivery'[e], chapter', site', circumstances.edits)
  <2>1. CASE e = d
    BY <1>1, <2>1
  <2>2. CASE e # d
    <3>1. delivery'[e] = delivery[e]
      BY <1>1, <2>2
    <3>2. DeliveryShape(delivery[e], chapter, site, circumstances.edits)
      BY DEF MangaShape
    <3>. QED
      BY <1>2, <3>1, <3>2, DeliveryStays
  <2>. QED
    BY <2>1, <2>2
<1>4. delivery' \in [Deliverers -> DeliveryType]
  BY <1>1
<1>. QED
  BY <1>3, <1>4 DEF MangaShape

LEMMA PostsBecome ==
  ASSUME MangaShape, MangaPosts, NEW d \in Deliverers, NEW r, Becomes(d, r),
         D(d).at # "sending", r.at # "sending", UNCHANGED channel, chapter'.sent = chapter.sent,
         mishaps' \in Nat, mishaps \in Nat, mishaps <= mishaps'
  PROVE  MangaPosts'
<1>1. delivery' = [delivery EXCEPT ![d] = r] /\ delivery \in [Deliverers -> DeliveryType]
      /\ channel \in [ChannelItems -> Nat]
  BY DEF Becomes, MangaShape, MangaVarsOK
<1>2. \A e \in Deliverers : /\ delivery'[e].at = "sending" <=> delivery[e].at = "sending"
                            /\ delivery'[e].at = "sending" => delivery'[e] = delivery[e]
  BY <1>1 DEF D
<1>3. ASSUME NEW i \in ChannelItems
      PROVE  /\ channel'[i] <= 1 + mishaps'
             /\ channel[i] <= mishaps => channel'[i] <= mishaps'
  BY <1>1, <1>3 DEF MangaPosts
<1>. QED
  BY <1>2, <1>3 DEF MangaPosts, D

LEMMA MangaTypes ==
  ASSUME MangaInv
  PROVE  /\ mishaps \in Nat /\ circumstances.mishaps \in Nat /\ mishaps \in 0..circumstances.mishaps
         /\ chapter \in ChapterType /\ chapter.pages \in PageSeqs /\ chapter.pages \in Seq(MangaPages)
         /\ chapter.siteCount \in Nat /\ chapter.sent \in SUBSET ChannelItems
         /\ chapter.attempts \in 0..MaxAttempts /\ chapter.exists \in BOOLEAN
         /\ ChapterShape(chapter, site, circumstances.edits)
         /\ Images(chapter.pages) \in PageSeqs /\ Len(Images(chapter.pages)) \in Nat
         /\ site \in PageSeqs /\ Len(site) \in Nat
         /\ delivery \in [Deliverers -> DeliveryType]
         /\ channel \in [ChannelItems -> Nat]
<1>1. chapter \in ChapterType /\ ChapterShape(chapter, site, circumstances.edits)
      /\ site \in PageSeqs /\ delivery \in [Deliverers -> DeliveryType]
      /\ circumstances \in Conditions /\ mishaps \in 0..circumstances.mishaps
      /\ channel \in [ChannelItems -> Nat]
  BY DEF MangaInv, MangaShape, MangaVarsOK, ChapterShape
<1>2. chapter.pages \in PageSeqs /\ chapter.siteCount \in Nat /\ chapter.sent \in SUBSET ChannelItems
      /\ chapter.attempts \in 0..MaxAttempts /\ chapter.exists \in BOOLEAN
  BY <1>1 DEF ChapterType
<1>3. Images(chapter.pages) \in PageSeqs /\ Len(Images(chapter.pages)) \in Nat
  BY <1>2, ImagesFacts
<1>4. Len(site) \in Nat /\ chapter.pages \in Seq(MangaPages)
  BY <1>1, <1>2 DEF PageSeqs
<1>5. circumstances.mishaps \in Nat
  BY <1>1, MangaAssumption
<1>. QED
  BY <1>1, <1>2, <1>3, <1>4, <1>5

LEMMA MishapFacts ==
  ASSUME MangaInv, NoMishap \/ Mishap
  PROVE  mishaps' \in 0..circumstances.mishaps /\ mishaps' \in Nat /\ mishaps <= mishaps'
         /\ (Mishap => mishaps' = mishaps + 1)
<1>1. mishaps \in Nat /\ circumstances.mishaps \in Nat /\ mishaps <= circumstances.mishaps
  BY MangaTypes
<1>. QED
  BY <1>1 DEF Mishap, NoMishap

(* A page is with the delivery that works, if only one does. *)
LEMMA WhereKept ==
  ASSUME MangaInv, circumstances.atOnce = 1, NEW d \in Deliverers, Busy(d),
         mishaps = 0, ~history, NEW p \in (1..sent) \ Videos
  PROVE  p \in Elements(chapter.pages) \cup Elements(bucket.pages) \cup InHand(delivery[d])
<1>1. CASE p \in Elements(chapter.pages) \cup Elements(bucket.pages)
  BY <1>1
<1>2. ASSUME NEW e \in Deliverers, p \in InHand(delivery[e]) PROVE p \in InHand(delivery[d])
  <2>1. CASE Busy(e)
    BY <1>2, <2>1 DEF MangaInv, MangaAlone
  <2>2. CASE ~Busy(e)
    <3>1. delivery[e].pages = <<>> /\ delivery[e].batch = <<>>
      BY <2>2 DEF MangaInv, MangaShape, DeliveryShape, Busy, D, PagesGone
    <3>. QED
      BY <1>2, <3>1 DEF InHand, Elements
  <2>. QED
    BY <2>1, <2>2
<1>. QED
  BY <1>1, <1>2 DEF MangaInv, MangaAlone

LEMMA StepKeepsPages ==
  ASSUME MangaInv, NEW d \in Deliverers, Busy(d), NEW r, Becomes(d, r),
         UNCHANGED <<circumstances, sent, bucket, history>>, NoMishap \/ Mishap,
         ChapterShape(chapter', site', circumstances.edits), Grows(chapter, site, chapter', site'),
         site' \in PageSeqs, channel' \in [ChannelItems -> Nat], channel'[Album] > 0 => site' # <<>>,
         DeliveryShape(r, chapter', site', circumstances.edits), MangaPosts',
         circumstances.atOnce = 1 =>
           /\ r.at # "idle" => OneDelivery(r, chapter', site')
           /\ Len(site') <= Len(Images(chapter'.pages)) /\ chapter'.siteCount <= Len(site')
           /\ mishaps' = 0 => \A p \in InHand(delivery[d]) \ Videos :
                                p \in InHand(r) \cup Elements(chapter'.pages)
  PROVE  MangaInv'
<1>1. mishaps' \in 0..circumstances.mishaps /\ mishaps \in Nat /\ mishaps' \in Nat /\ mishaps <= mishaps'
  BY MishapFacts, MangaTypes
<1>2. MangaVarsOK'
  BY <1>1 DEF MangaInv, MangaShape, MangaVarsOK
<1>3. MangaShape'
  BY <1>2, ShapeBecomes DEF MangaInv
<1>4. ASSUME circumstances.atOnce = 1 PROVE MangaAlone'
  <2>1. delivery' = [delivery EXCEPT ![d] = r] /\ delivery \in [Deliverers -> DeliveryType]
    BY MangaTypes DEF Becomes
  <2>2. \A e \in Deliverers : Busy(e)' => e = d
    BY <1>4, <2>1 DEF MangaInv, MangaAlone, Busy, D
  <2>3. \A e \in Deliverers : Busy(e)' => OneDelivery(delivery'[e], chapter', site')
    BY <1>4, <2>1, <2>2 DEF Busy, D
  <2>4. ASSUME mishaps' = 0, ~history', NEW p \in (1..sent') \ Videos
        PROVE  \/ p \in Elements(chapter'.pages) \cup Elements(bucket'.pages)
               \/ \E e \in Deliverers : p \in InHand(delivery'[e])
    <3>1. mishaps = 0
      BY <1>1, <2>4
    <3>2. p \in Elements(chapter.pages) \cup Elements(bucket.pages) \cup InHand(delivery[d])
      BY <1>4, <2>4, <3>1, WhereKept
    <3>3. CASE p \in Elements(chapter.pages)
      <4>1. Elements(chapter.pages) \subseteq Elements(chapter'.pages)
        <5>1. chapter.pages \in Seq(MangaPages) /\ chapter'.pages \in Seq(MangaPages)
          BY MangaTypes DEF ChapterShape, ChapterType, PageSeqs
        <5>2. Len(chapter.pages) \in Nat /\ Len(chapter'.pages) \in Nat
              /\ DOMAIN chapter.pages = 1..Len(chapter.pages)
              /\ DOMAIN chapter'.pages = 1..Len(chapter'.pages)
          BY <5>1
        <5>3. \A k \in DOMAIN chapter.pages : k \in DOMAIN chapter'.pages /\ chapter'.pages[k] = chapter.pages[k]
          BY <5>2 DEF Grows, Prefix
        <5>. QED
          BY <5>3 DEF Elements
      <4>. QED
        BY <3>3, <4>1
    <3>4. CASE p \in Elements(bucket.pages)
      BY <3>4
    <3>5. CASE p \in InHand(delivery[d])
      <4>1. p \in InHand(r) \cup Elements(chapter'.pages)
        BY <1>4, <2>4, <3>5
      <4>2. delivery'[d] = r
        BY <2>1
      <4>. QED
        BY <4>1, <4>2
    <3>. QED
      BY <3>2, <3>3, <3>4, <3>5
  <2>5. Len(site') <= Len(Images(chapter'.pages)) /\ chapter'.siteCount <= Len(site')
    BY <1>4
  <2>. QED
    BY <2>2, <2>3, <2>4, <2>5 DEF MangaAlone
<1>. QED
  BY <1>3, <1>4 DEF MangaInv

(* A delivery that changes nothing but itself. *)
LEMMA GoesOn ==
  ASSUME MangaInv, NEW d \in Deliverers, Busy(d), NEW r, Becomes(d, r),
         UNCHANGED <<circumstances, sent, bucket, chapter, site, channel, history>>, NoMishap \/ Mishap,
         D(d).at # "sending", r.at # "sending",
         DeliveryShape(r, chapter, site, circumstances.edits),
         circumstances.atOnce = 1 =>
           /\ r.at # "idle" => OneDelivery(r, chapter, site)
           /\ mishaps' = 0 => \A p \in InHand(delivery[d]) \ Videos :
                                p \in InHand(r) \cup Elements(chapter.pages)
  PROVE  MangaInv'
<1>1. mishaps' \in Nat /\ mishaps <= mishaps' /\ mishaps \in Nat
  BY MishapFacts, MangaTypes
<1>2. MangaPosts'
  BY <1>1, PostsBecome DEF MangaInv
<1>3. Grows(chapter, site, chapter', site')
  <2>1. Prefix(chapter.pages, chapter.pages)
    BY MangaTypes, PrefixFacts
  <2>. QED
    BY <2>1 DEF Grows
<1>4. ChapterShape(chapter', site', circumstances.edits) /\ site' \in PageSeqs
      /\ channel' \in [ChannelItems -> Nat] /\ (channel'[Album] > 0 => site' # <<>>)
  BY DEF MangaInv, MangaShape, MangaVarsOK
<1>5. circumstances.atOnce = 1 =>
        Len(site') <= Len(Images(chapter'.pages)) /\ chapter'.siteCount <= Len(site')
  BY DEF MangaInv, MangaAlone
<1>. QED
  BY <1>2, <1>3, <1>4, <1>5, StepKeepsPages

(* What holds of a delivery at work. *)
LEMMA AtDelivery ==
  ASSUME MangaInv, NEW d \in Deliverers
  PROVE  /\ delivery[d] \in DeliveryType
         /\ DeliveryShape(delivery[d], chapter, site, circumstances.edits)
         /\ Busy(d) /\ circumstances.atOnce = 1 => OneDelivery(delivery[d], chapter, site)
BY MangaTypes DEF MangaInv, MangaShape, MangaAlone

(* A delivery ends, with all its pages gone. *)
LEMMA EndsDelivery ==
  ASSUME MangaInv, NEW d \in Deliverers, Busy(d), Ends(d),
         UNCHANGED <<circumstances, sent, bucket, chapter, site, channel, history>>, NoMishap \/ Mishap,
         D(d).at # "sending",
         circumstances.atOnce = 1 => InHand(delivery[d]) = {}
  PROVE  MangaInv'
<1>1. Becomes(d, Idle) /\ Idle.at = "idle"
  BY DEF Ends, Idle
<1>2. DeliveryShape(Idle, chapter, site, circumstances.edits)
  BY IdleShape, MangaTypes
<1>. QED
  BY <1>1, <1>2, GoesOn

LEMMA UploadsKeepsPages ==
  ASSUME MangaInv, NEW d \in Deliverers, Uploads(d)
  PROVE  MangaInv'
<1>. DEFINE r == D(d)
            n == NextBatch(r.pages)
            stores(k, rest) == [r EXCEPT !.at = "storing", !.batch = Upto(k, r.pages),
                                         !.pages = rest, !.read = [chapter EXCEPT !.attempts = 0]]
            gone == [r EXCEPT !.at = "stored", !.pages = <<>>]
<1>1. /\ r = delivery[d] /\ r.at = "taken" /\ Busy(d) /\ D(d).at # "sending" /\ r.pages # <<>>
      /\ UNCHANGED <<circumstances, sent, bucket, chapter, site, channel, history>>
  BY DEF Uploads, Busy, D
<1>2. \/ NoMishap /\ Becomes(d, stores(n, After(n, r.pages)))
      \/ Mishap /\ \E k \in 1..(n - 1) : Becomes(d, stores(k, <<>>))
      \/ Mishap /\ Becomes(d, gone)
  BY DEF Uploads
<1>3. /\ r \in DeliveryType /\ DeliveryShape(r, chapter, site, circumstances.edits)
      /\ circumstances.atOnce = 1 => OneDelivery(r, chapter, site)
  BY <1>1, AtDelivery
<1>. HIDE DEF r
<1>4. /\ r.pages \in Seq(MangaPages) /\ r.pages \in PageSeqs /\ r.batch = <<>>
      /\ <<>> \in Seq(MangaPages) /\ <<>> \in PageSeqs
  BY <1>1, <1>3 DEF DeliveryType, DeliveryShape, PageSeqs
<1>5. n \in 0..Len(r.pages) /\ 1..(n - 1) \subseteq 0..Len(r.pages)
  <2>1. Len(r.pages) \in Nat /\ BatchSize \in Nat
    BY <1>4, MangaConstants
  <2>. QED
    BY <2>1 DEF NextBatch
<1>. HIDE DEF n
<1>6. ASSUME NEW k \in 0..Len(r.pages), NEW rest \in {After(k, r.pages), <<>>},
             Becomes(d, stores(k, rest)), NoMishap \/ Mishap, rest = <<>> => Mishap \/ rest = After(k, r.pages)
      PROVE  MangaInv'
  <2>. DEFINE t == stores(k, rest)
              read == [chapter EXCEPT !.attempts = 0]
  <2>1. /\ Upto(k, r.pages) \in PageSeqs /\ After(k, r.pages) \in PageSeqs
        /\ Elements(r.pages) = Elements(Upto(k, r.pages)) \cup Elements(After(k, r.pages))
        /\ Distinct(r.pages) => Distinct(Upto(k, r.pages)) /\ Distinct(After(k, r.pages))
    BY <1>4, HalvesFacts DEF PageSeqs
  <2>2. rest \in PageSeqs /\ (Distinct(r.pages) => Distinct(rest))
    <3>1. Distinct(<<>>)
      BY DEF Distinct
    <3>. QED
      BY <1>4, <2>1, <3>1
  <2>3. /\ read \in ChapterType /\ read.exists = chapter.exists /\ read.pages = chapter.pages
        /\ read.siteCount = chapter.siteCount
    <3>1. 0 \in 0..MaxAttempts
      BY MangaConstants
    <3>. QED
      BY <3>1, MangaTypes DEF ChapterType
  <2>. HIDE DEF read
  <2>4. /\ t \in DeliveryType
        /\ t.at = "storing" /\ t.batch = Upto(k, r.pages) /\ t.pages = rest /\ t.read = read
        /\ t.published = r.published /\ t.ok = r.ok /\ t.images = r.images /\ t.count = r.count
    <3>1. "storing" \in Steps
      BY DEF Steps
    <3>2. t \in DeliveryType
      BY <1>3, <2>1, <2>2, <2>3, <3>1 DEF DeliveryType, read
    <3>. QED
      BY <1>3, <3>2 DEF DeliveryType, read
  <2>5. Becomes(d, t)
    BY <1>6
  <2>. HIDE DEF t
  <2>6. /\ Prefix(chapter.pages, chapter.pages)
        /\ ~chapter.exists => chapter.pages = <<>>
        /\ chapter.siteCount > 0 => site # <<>>
        /\ chapter.siteCount <= Len(Images(chapter.pages))
    <3>1. Prefix(chapter.pages, chapter.pages)
      BY MangaTypes, PrefixFacts
    <3>2. ChapterShape(chapter, site, circumstances.edits)
      BY MangaTypes
    <3>. QED
      BY <3>1, <3>2 DEF ChapterShape
  <2>7. DeliveryShape(t, chapter, site, circumstances.edits)
    BY <1>1, <1>3, <2>1, <2>2, <2>3, <2>4, <2>6 DEF DeliveryShape, PagesGone, OnSite
  <2>8. ASSUME circumstances.atOnce = 1 PROVE OneDelivery(t, chapter, site)
    <3>1. chapter.siteCount <= Len(site)
      BY <2>8 DEF MangaInv, MangaAlone
    <3>. QED
      BY <1>1, <1>3, <2>3, <2>4, <2>8, <3>1 DEF OneDelivery, OnSite
  <2>9. ASSUME mishaps' = 0, NEW p \in InHand(delivery[d]) PROVE p \in InHand(t)
    <3>1. ~Mishap
      BY <2>9, MishapFacts, MangaTypes
    <3>2. rest = After(k, r.pages)
      BY <1>6, <3>1
    <3>3. p \in Elements(r.pages)
      BY <1>1, <1>4, <2>9 DEF InHand, Elements
    <3>. QED
      BY <2>1, <2>4, <3>2, <3>3 DEF InHand
  <2>. QED
    BY <1>1, <1>6, <2>4, <2>5, <2>7, <2>8, <2>9, GoesOn
<1>7. CASE NoMishap /\ Becomes(d, stores(n, After(n, r.pages)))
  BY <1>5, <1>6, <1>7
<1>8. CASE Mishap /\ \E k \in 1..(n - 1) : Becomes(d, stores(k, <<>>))
  BY <1>5, <1>6, <1>8
<1>9. CASE Mishap /\ Becomes(d, gone)
  <2>1. /\ gone \in DeliveryType
        /\ gone.at = "stored" /\ gone.batch = <<>> /\ gone.pages = <<>> /\ gone.read = r.read
        /\ gone.published = r.published /\ gone.ok = r.ok /\ gone.images = r.images
        /\ gone.count = r.count
    <3>1. "stored" \in Steps
      BY DEF Steps
    <3>2. gone \in DeliveryType
      BY <1>3, <1>4, <3>1 DEF DeliveryType
    <3>. QED
      BY <1>3, <1>4, <3>2 DEF DeliveryType
  <2>. HIDE DEF gone
  <2>2. Distinct(<<>>)
    BY DEF Distinct
  <2>3. DeliveryShape(gone, chapter, site, circumstances.edits)
    BY <1>1, <1>3, <2>1, <2>2 DEF DeliveryShape, PagesGone, OnSite
  <2>4. circumstances.atOnce = 1 => OneDelivery(gone, chapter, site)
    BY <1>1, <1>3, <2>1 DEF OneDelivery, OnSite
  <2>5. mishaps' # 0
    BY <1>9, MishapFacts, MangaTypes
  <2>. QED
    BY <1>1, <1>9, <2>1, <2>3, <2>4, <2>5, GoesOn
<1>. QED
  BY <1>2, <1>7, <1>8, <1>9

LEMMA LoadsKeepsPages ==
  ASSUME MangaInv, NEW d \in Deliverers, LoadsStored(d)
  PROVE  MangaInv'
<1>. DEFINE r == D(d)
            t == [r EXCEPT !.at = "stored", !.published = TRUE, !.count = chapter.siteCount,
                           !.known = chapter.sent, !.images = Images(chapter.pages),
                           !.videos = VideosIn(chapter.pages)]
<1>1. /\ r = delivery[d] /\ r.at = "taken" /\ Busy(d) /\ D(d).at # "sending" /\ r.pages = <<>>
      /\ UNCHANGED <<circumstances, sent, bucket, chapter, site, channel, history>> /\ NoMishap
      /\ (IF chapter.exists THEN Becomes(d, t) ELSE Ends(d))
  BY DEF LoadsStored, Busy, D, NoMishap
<1>2. /\ r \in DeliveryType /\ DeliveryShape(r, chapter, site, circumstances.edits)
  BY <1>1, AtDelivery
<1>. HIDE DEF r
<1>3. InHand(delivery[d]) = {} /\ r.batch = <<>>
  BY <1>1, <1>2 DEF InHand, Elements, DeliveryShape
<1>4. CASE ~chapter.exists
  BY <1>1, <1>3, <1>4, EndsDelivery
<1>5. CASE chapter.exists
  <2>1. /\ t \in DeliveryType
        /\ t.at = "stored" /\ t.batch = r.batch /\ t.pages = r.pages /\ t.read = r.read
        /\ t.published = TRUE /\ t.ok = r.ok /\ t.images = Images(chapter.pages)
        /\ t.count = chapter.siteCount
    <3>1. "stored" \in Steps /\ VideosIn(chapter.pages) \in SUBSET Videos
      BY DEF Steps, VideosIn
    <3>2. t \in DeliveryType
      BY <1>2, <3>1, MangaTypes DEF DeliveryType
    <3>. QED
      BY <1>2, <3>2 DEF DeliveryType
  <2>. HIDE DEF t
  <2>2. /\ Images(chapter.pages) # <<>>
        /\ chapter.siteCount > 0 => site # <<>>
        /\ chapter.siteCount <= Len(Images(chapter.pages))
        /\ Len(Images(chapter.pages)) <= Len(Images(chapter.pages))
    BY <1>5, MangaTypes DEF ChapterShape
  <2>3. DeliveryShape(t, chapter, site, circumstances.edits)
    BY <1>1, <1>2, <1>3, <2>1, <2>2 DEF DeliveryShape, PagesGone, OnSite
  <2>4. ASSUME circumstances.atOnce = 1 PROVE OneDelivery(t, chapter, site)
    <3>1. chapter.siteCount <= Len(site)
      BY <2>4 DEF MangaInv, MangaAlone
    <3>. QED
      BY <2>1, <3>1 DEF OneDelivery, OnSite
  <2>5. t.at # "idle" /\ t.at # "sending"
    BY <2>1
  <2>. QED
    BY <1>1, <1>3, <1>5, <2>3, <2>4, <2>5, GoesOn
<1>. QED
  BY <1>4, <1>5

LEMMA NextAtFacts ==
  ASSUME NEW r, NEW t, t.pages = r.pages, t.at = NextAt(r)
  PROVE  t.at \in {"taken", "stored"} /\ (t.at \in PagesGone => t.pages = <<>>) /\ t.at \in Steps
BY DEF NextAt, PagesGone, Steps

LEMMA StoresKeepsPages ==
  ASSUME MangaInv, NEW d \in Deliverers, Stores(d)
  PROVE  MangaInv'
<1>. DEFINE r == D(d)
            next == [r EXCEPT !.batch = <<>>, !.read = NoChapter]
            skips == [next EXCEPT !.published = FALSE, !.at = NextAt(r)]
            lists == [next EXCEPT !.published = TRUE, !.at = "listing",
                                  !.count = r.read.siteCount, !.known = r.read.sent]
            u == Unseen(r)
<1>1. /\ r = delivery[d] /\ r.at = "storing" /\ Busy(d) /\ D(d).at # "sending"
      /\ UNCHANGED <<circumstances, sent, bucket, site, channel, history>> /\ NoMishap /\ UNCHANGED mishaps
  BY DEF Stores, Busy, D, NoMishap
<1>2. \/ (u = <<>> \/ VideoOnly(r)) /\ Becomes(d, skips) /\ UNCHANGED chapter
      \/ Refused(r) /\ Ends(d) /\ UNCHANGED chapter
      \/ /\ ~VideoOnly(r) /\ ~Refused(r) /\ Becomes(d, lists)
         /\ chapter' = [chapter EXCEPT !.exists = TRUE, !.attempts = 0, !.pages = @ \o u]
  BY DEF Stores
<1>3. /\ r \in DeliveryType /\ DeliveryShape(r, chapter, site, circumstances.edits)
      /\ circumstances.atOnce = 1 => OneDelivery(r, chapter, site)
  BY <1>1, AtDelivery
<1>. HIDE DEF r
<1>4. /\ r.read \in ChapterType /\ r.read.pages \in PageSeqs /\ r.read.exists \in BOOLEAN
      /\ r.read.siteCount \in Nat /\ r.read.sent \in SUBSET ChannelItems
      /\ r.batch \in PageSeqs /\ r.pages \in PageSeqs
      /\ r.read.pages \in Seq(MangaPages) /\ r.batch \in Seq(MangaPages)
      /\ NoChapter \in ChapterType /\ <<>> \in PageSeqs
  BY <1>3, IdleType DEF DeliveryType, ChapterType, PageSeqs
<1>5. /\ u \in PageSeqs /\ u \in Seq(MangaPages)
      /\ ~r.read.exists => u = r.batch
      /\ r.read.exists => Elements(u) = Elements(r.batch) \ Elements(r.read.pages) /\ Distinct(u)
  BY <1>4, UnseenFacts DEF PageSeqs
<1>. HIDE DEF u
<1>6. circumstances.atOnce = 1 => r.read.pages = chapter.pages /\ r.read.exists = chapter.exists
                                  /\ r.read.siteCount <= Len(site) /\ r.count <= Len(site)
  BY <1>1, <1>3 DEF OneDelivery
<1>7. Elements(<<>>) = {} /\ Distinct(<<>>) /\ Len(<<>>) = 0
  BY DEF Elements, Distinct
<1>8. /\ Prefix(NoChapter.pages, chapter.pages) /\ NoChapter.pages = <<>> /\ NoChapter.exists = FALSE
      /\ NoChapter.siteCount = 0 /\ 0 <= Len(Images(chapter.pages)) /\ Len(Images(chapter.pages)) \in Nat
  BY MangaTypes, PrefixFacts DEF NoChapter
<1>9. CASE (u = <<>> \/ VideoOnly(r)) /\ Becomes(d, skips) /\ UNCHANGED chapter
  <2>1. /\ skips \in DeliveryType
        /\ skips.at = NextAt(r) /\ skips.batch = <<>> /\ skips.pages = r.pages /\ skips.read = NoChapter
        /\ skips.published = FALSE /\ skips.ok = r.ok /\ skips.images = r.images /\ skips.count = r.count
    <3>1. NextAt(r) \in Steps
      BY DEF NextAt, Steps
    <3>2. skips \in DeliveryType
      BY <1>3, <1>4, <3>1 DEF DeliveryType
    <3>. QED
      BY <1>3, <1>4, <3>2 DEF DeliveryType
  <2>. HIDE DEF skips
  <2>2. skips.at \in {"taken", "stored"} /\ (skips.at \in PagesGone => skips.pages = <<>>)
    BY <2>1, NextAtFacts
  <2>3. DeliveryShape(skips, chapter, site, circumstances.edits)
    BY <1>1, <1>3, <1>7, <1>8, <2>1, <2>2 DEF DeliveryShape, OnSite
  <2>4. circumstances.atOnce = 1 => OneDelivery(skips, chapter, site)
    BY <1>6, <2>1, <2>2 DEF OneDelivery, OnSite
  <2>5. ASSUME circumstances.atOnce = 1, NEW p \in InHand(delivery[d]) \ Videos
        PROVE  p \in InHand(skips) \cup Elements(chapter.pages)
    <3>1. CASE p \in Elements(r.pages)
      BY <2>1, <3>1 DEF InHand
    <3>2. CASE p \in Elements(r.batch)
      <4>1. CASE u = <<>> /\ r.read.exists
        BY <1>5, <1>6, <1>7, <2>5, <3>2, <4>1
      <4>2. CASE u = <<>> /\ ~r.read.exists
        BY <1>5, <1>7, <3>2, <4>2
      <4>3. CASE VideoOnly(r)
        BY <1>4, <2>5, <3>2, <4>3, ImagesFacts DEF VideoOnly
      <4>. QED
        BY <1>9, <4>1, <4>2, <4>3
    <3>. QED
      BY <1>1, <2>5, <3>1, <3>2 DEF InHand
  <2>. QED
    BY <1>1, <1>9, <2>2, <2>3, <2>4, <2>5, GoesOn
<1>10. CASE Refused(r) /\ Ends(d) /\ UNCHANGED chapter
  <2>1. circumstances.atOnce # 1
    BY <1>6, <1>10 DEF Refused
  <2>. QED
    BY <1>1, <1>10, <2>1, EndsDelivery
<1>11. CASE /\ ~VideoOnly(r) /\ ~Refused(r) /\ Becomes(d, lists)
            /\ chapter' = [chapter EXCEPT !.exists = TRUE, !.attempts = 0, !.pages = @ \o u]
  <2>1. r.read.exists = chapter.exists /\ r.read.pages = chapter.pages
    <3>1. chapter.exists = r.read.exists /\ Len(chapter.pages) = Len(r.read.pages)
      BY <1>11 DEF Refused
    <3>2. Prefix(r.read.pages, chapter.pages) /\ chapter.pages \in Seq(MangaPages)
      BY <1>3, MangaTypes DEF DeliveryShape
    <3>. QED
      BY <1>4, <3>1, <3>2, PrefixFacts
  <2>2. /\ chapter.pages \o u \in PageSeqs /\ chapter.pages \o u \in Seq(MangaPages)
        /\ Elements(chapter.pages \o u) = Elements(chapter.pages) \cup Elements(u)
        /\ Prefix(chapter.pages, chapter.pages \o u)
    BY <1>5, MangaTypes, ConcatFacts, PrefixFacts DEF PageSeqs
  <2>3. /\ chapter' \in ChapterType /\ chapter'.exists = TRUE /\ chapter'.attempts = 0
        /\ chapter'.pages = chapter.pages \o u
        /\ chapter'.siteCount = chapter.siteCount /\ chapter'.sent = chapter.sent
    <3>1. 0 \in 0..MaxAttempts /\ chapter \in ChapterType
      BY MangaConstants, MangaTypes
    <3>2. chapter' \in ChapterType
      BY <1>11, <2>2, <3>1 DEF ChapterType
    <3>. QED
      BY <1>11, <3>1, <3>2 DEF ChapterType
  <2>4. Len(Images(chapter.pages)) <= Len(Images(chapter'.pages)) /\ Len(Images(chapter'.pages)) \in Nat
    <3>1. chapter.pages \in Seq(MangaPages)
      BY MangaTypes
    <3>2. Len(Images(chapter.pages)) <= Len(Images(chapter'.pages))
      BY <2>2, <2>3, <3>1, KeepingGrows DEF Images
    <3>3. Len(Images(chapter'.pages)) \in Nat
      BY <2>2, <2>3, ImagesFacts
    <3>. QED
      BY <3>2, <3>3
  <2>5. Images(chapter'.pages) # <<>>
    <3>1. CASE chapter.exists
      <4>1. ~(Elements(chapter.pages) \subseteq Videos)
        BY <3>1, MangaTypes, ImagesFacts DEF ChapterShape
      <4>. QED
        BY <2>2, <2>3, <4>1, ImagesFacts
    <3>2. CASE ~chapter.exists
      <4>1. Images(r.batch) # <<>> /\ u = r.batch
        BY <1>5, <1>11, <2>1, <3>2 DEF VideoOnly
      <4>2. ~(Elements(u) \subseteq Videos)
        BY <1>4, <4>1, ImagesFacts
      <4>. QED
        BY <2>2, <2>3, <4>2, ImagesFacts
    <3>. QED
      BY <3>1, <3>2
  <2>6. ~circumstances.edits => Distinct(chapter'.pages)
    <3>. SUFFICES ASSUME ~circumstances.edits PROVE Distinct(chapter.pages \o u)
      BY <2>3
    <3>1. Distinct(chapter.pages) /\ chapter.pages \in Seq(MangaPages)
      BY MangaTypes DEF ChapterShape
    <3>2. Distinct(u) /\ Elements(chapter.pages) \cap Elements(u) = {}
      <4>1. CASE chapter.exists
        BY <1>5, <2>1, <4>1
      <4>2. CASE ~chapter.exists
        <5>1. Distinct(r.batch)
          BY <1>3 DEF DeliveryShape
        <5>2. chapter.pages = <<>>
          BY <4>2, MangaTypes DEF ChapterShape
        <5>. QED
          BY <1>5, <1>7, <2>1, <4>2, <5>1, <5>2
      <4>. QED
        BY <4>1, <4>2
    <3>. QED
      BY <1>5, <3>1, <3>2, ConcatFacts
  <2>7. ChapterShape(chapter', site', circumstances.edits)
    <3>1. chapter.siteCount <= Len(Images(chapter.pages)) /\ (chapter.siteCount > 0 => site # <<>>)
          /\ chapter.siteCount \in Nat /\ Len(Images(chapter.pages)) \in Nat
      BY MangaTypes DEF ChapterShape
    <3>2. chapter'.siteCount <= Len(Images(chapter'.pages))
      BY <2>3, <2>4, <3>1
    <3>. QED
      BY <1>1, <2>3, <2>5, <2>6, <3>1, <3>2 DEF ChapterShape
  <2>8. Grows(chapter, site, chapter', site')
    BY <1>1, <2>2, <2>3 DEF Grows
  <2>9. /\ lists \in DeliveryType
        /\ lists.at = "listing" /\ lists.batch = <<>> /\ lists.pages = r.pages /\ lists.read = NoChapter
        /\ lists.published = TRUE /\ lists.ok = r.ok /\ lists.images = r.images
        /\ lists.count = r.read.siteCount
    <3>1. "listing" \in Steps
      BY DEF Steps
    <3>2. lists \in DeliveryType
      BY <1>3, <1>4, <3>1 DEF DeliveryType
    <3>. QED
      BY <1>3, <1>4, <3>2 DEF DeliveryType
  <2>. HIDE DEF lists
  <2>10. /\ Len(lists.images) <= Len(Images(chapter'.pages))
         /\ lists.count <= Len(Images(chapter'.pages))
    <3>1. r.images \in Seq(MangaPages)
      BY <1>3 DEF DeliveryType, PageSeqs
    <3>2. Len(r.images) <= Len(Images(chapter.pages)) /\ r.read.siteCount <= Len(Images(chapter.pages))
      BY <1>3 DEF DeliveryShape
    <3>3. Len(r.images) \in Nat
      BY <3>1
    <3>4. Len(lists.images) = Len(r.images)
      BY <2>9
    <3>. QED
      BY <1>4, <1>8, <2>4, <2>9, <3>2, <3>3, <3>4
  <2>11. DeliveryShape(lists, chapter', site', circumstances.edits)
    <3>1. Prefix(NoChapter.pages, chapter'.pages)
      <4>1. chapter'.pages \in Seq(MangaPages)
        BY <2>2, <2>3
      <4>2. Len(chapter'.pages) \in Nat
        BY <4>1
      <4>. QED
        BY <1>7, <1>8, <4>2 DEF Prefix
    <3>2. 0 <= Len(Images(chapter'.pages))
      BY <2>4
    <3>. QED
      BY <1>1, <1>3, <1>7, <1>8, <2>3, <2>9, <2>10, <3>1, <3>2 DEF DeliveryShape, PagesGone, OnSite
  <2>12. MangaPosts'
    <3>1. mishaps' \in Nat /\ mishaps \in Nat /\ mishaps <= mishaps'
      BY <1>1, MangaTypes
    <3>. QED
      BY <1>1, <1>11, <2>3, <2>9, <3>1, PostsBecome DEF MangaInv
  <2>13. ASSUME circumstances.atOnce = 1
         PROVE  /\ OneDelivery(lists, chapter', site')
                /\ Len(site') <= Len(Images(chapter'.pages)) /\ chapter'.siteCount <= Len(site')
                /\ \A p \in InHand(delivery[d]) \ Videos : p \in InHand(lists) \cup Elements(chapter'.pages)
    <3>1. OneDelivery(lists, chapter', site')
      BY <1>1, <1>6, <2>9, <2>13 DEF OneDelivery, OnSite
    <3>2. Len(site) <= Len(Images(chapter.pages)) /\ chapter.siteCount <= Len(site) /\ Len(site) \in Nat
      BY <2>13, MangaTypes DEF MangaInv, MangaAlone
    <3>3. Len(site') <= Len(Images(chapter'.pages)) /\ chapter'.siteCount <= Len(site')
      BY <1>1, <1>8, <2>3, <2>4, <3>2
    <3>4. Elements(r.batch) \subseteq Elements(chapter'.pages)
      BY <1>5, <2>1, <2>2, <2>3
    <3>. QED
      BY <1>1, <2>9, <3>1, <3>3, <3>4 DEF InHand
  <2>14. site' \in PageSeqs /\ channel' \in [ChannelItems -> Nat] /\ (channel'[Album] > 0 => site' # <<>>)
    BY <1>1 DEF MangaInv, MangaShape, MangaVarsOK
  <2>15. Becomes(d, lists) /\ UNCHANGED <<circumstances, sent, bucket, history>>
    BY <1>1, <1>11
  <2>. HIDE DEF Becomes
  <2>. QED
    BY <1>1, <2>7, <2>8, <2>11, <2>12, <2>13, <2>14, <2>15, StepKeepsPages
<1>. QED
  BY <1>2, <1>9, <1>10, <1>11

(* A request for the site begins. *)
LEMMA AsksKeepsPages ==
  ASSUME MangaInv, NEW d \in Deliverers, Busy(d), D(d).at \in {"listing", "stored"},
         NEW t, Becomes(d, t), t \in DeliveryType,
         UNCHANGED <<circumstances, sent, bucket, chapter, site, channel, history>>, NoMishap,
         chapter.exists, t.images # <<>>,
         Len(t.images) <= Len(Images(chapter.pages)),
         circumstances.atOnce = 1 => t.images = Images(chapter.pages),
         t.at = (IF t.count >= Len(t.images) THEN "marking" ELSE "posting"),
         t.ok => t.count >= Len(t.images),
         t.pages = D(d).pages, t.batch = D(d).batch, t.read = D(d).read, t.count = D(d).count,
         t.published = D(d).published
  PROVE  MangaInv'
<1>. DEFINE r == D(d)
<1>1. r = delivery[d] /\ r.at \in {"listing", "stored"}
  BY DEF D
<1>2. /\ r \in DeliveryType /\ DeliveryShape(r, chapter, site, circumstances.edits)
      /\ circumstances.atOnce = 1 => OneDelivery(r, chapter, site)
  BY <1>1, AtDelivery
<1>3. t.pages = r.pages /\ t.batch = r.batch /\ t.read = r.read /\ t.count = r.count /\ t.published = r.published
  OBVIOUS
<1>. HIDE DEF r
<1>4. t.count \in Nat /\ Len(t.images) \in Nat /\ Len(t.images) > 0 /\ t.at \in OnSite
  <2>1. t.count \in Nat /\ t.images \in Seq(MangaPages)
    BY DEF DeliveryType, PageSeqs
  <2>. QED
    BY <2>1 DEF OnSite
<1>5. t.ok => t.count > 0 /\ Len(t.images) <= t.count
  <2>. SUFFICES ASSUME t.ok PROVE t.count > 0 /\ Len(t.images) <= t.count
    OBVIOUS
  <2>. DEFINE a == t.count
              b == Len(t.images)
  <2>1. a \in Nat /\ b \in Nat /\ b > 0 /\ a >= b
    BY <1>4
  <2>. HIDE DEF a, b
  <2>2. a > 0 /\ b <= a
    BY <2>1
  <2>. QED
    BY <2>2 DEF a, b
<1>6. t.at # "idle" /\ t.at # "sending" /\ t.at # "storing" /\ t.at # "locking" /\ t.at # "listing"
      /\ t.at \notin PagesGone
  BY <1>4 DEF OnSite, PagesGone
<1>7. DeliveryShape(t, chapter, site, circumstances.edits)
  BY <1>1, <1>2, <1>3, <1>5, <1>6 DEF DeliveryShape
<1>8. ASSUME circumstances.atOnce = 1 PROVE OneDelivery(t, chapter, site)
  <2>1. t.count <= Len(site)
    BY <1>2, <1>3, <1>8 DEF OneDelivery
  <2>2. Len(site) \in Nat
    BY MangaTypes
  <2>3. t.ok => Len(t.images) <= Len(site)
    BY <1>4, <1>5, <2>1, <2>2
  <2>. QED
    BY <1>6, <1>8, <2>1, <2>3 DEF OneDelivery
<1>9. InHand(delivery[d]) = InHand(t)
  BY <1>1, <1>3 DEF InHand
<1>10. D(d).at # "sending"
  OBVIOUS
<1>. QED
  BY <1>6, <1>7, <1>8, <1>9, <1>10, GoesOn

LEMMA ListsKeepsPages ==
  ASSUME MangaInv, NEW d \in Deliverers, Lists(d)
  PROVE  MangaInv'
<1>. DEFINE r == D(d)
            s == [r EXCEPT !.images = Images(chapter.pages), !.videos = VideosIn(chapter.pages)]
            t == Asks(s)
<1>1. /\ r = delivery[d] /\ r.at = "listing" /\ Busy(d) /\ Becomes(d, t)
      /\ UNCHANGED <<circumstances, sent, bucket, chapter, site, channel, history>> /\ NoMishap
  BY DEF Lists, Busy, D, NoMishap
<1>2. r \in DeliveryType /\ DeliveryShape(r, chapter, site, circumstances.edits)
  BY <1>1, AtDelivery
<1>. HIDE DEF r
<1>3. Images(chapter.pages) \in PageSeqs /\ VideosIn(chapter.pages) \in SUBSET Videos
  BY MangaTypes DEF VideosIn
<1>4. /\ s \in DeliveryType /\ s.images = Images(chapter.pages) /\ s.pages = r.pages /\ s.batch = r.batch
      /\ s.read = r.read /\ s.count = r.count /\ s.published = r.published
  <2>1. s \in DeliveryType
    BY <1>2, <1>3 DEF DeliveryType
  <2>. QED
    BY <1>2, <2>1 DEF DeliveryType
<1>. HIDE DEF s
<1>5. /\ t \in DeliveryType
      /\ t.at = (IF t.count >= Len(t.images) THEN "marking" ELSE "posting")
      /\ t.ok => t.count >= Len(t.images)
      /\ t.images = s.images /\ t.pages = s.pages /\ t.batch = s.batch
      /\ t.read = s.read /\ t.count = s.count /\ t.published = s.published
  <2>1. {"marking", "posting"} \subseteq Steps /\ (s.count >= Len(s.images)) \in BOOLEAN
    BY DEF Steps
  <2>2. t \in DeliveryType
    BY <1>4, <2>1 DEF DeliveryType, Asks
  <2>. QED
    BY <1>4, <2>2 DEF DeliveryType, Asks
<1>. HIDE DEF t
<1>6. chapter.exists
  BY <1>1, <1>2 DEF DeliveryShape
<1>7. t.images # <<>> /\ Len(t.images) <= Len(Images(chapter.pages)) /\ t.images = Images(chapter.pages)
  <2>1. Images(chapter.pages) # <<>> /\ Len(Images(chapter.pages)) \in Nat
    BY <1>6, MangaTypes DEF ChapterShape
  <2>. QED
    BY <1>4, <1>5, <2>1
<1>8. t.pages = D(d).pages /\ t.batch = D(d).batch /\ t.read = D(d).read /\ t.count = D(d).count
      /\ t.published = D(d).published /\ D(d).at \in {"listing", "stored"}
  BY <1>1, <1>4, <1>5 DEF r
<1>. QED
  BY <1>1, <1>5, <1>6, <1>7, <1>8, AsksKeepsPages

LEMMA PostsKeepsPages ==
  ASSUME MangaInv, NEW d \in Deliverers, Posts(d)
  PROVE  MangaInv'
<1>. DEFINE r == D(d)
            yes == [r EXCEPT !.at = "marking", !.ok = TRUE]
            no == [r EXCEPT !.at = "marking", !.ok = FALSE]
<1>1. /\ r = delivery[d] /\ r.at = "posting" /\ Busy(d) /\ D(d).at # "sending"
      /\ UNCHANGED <<circumstances, sent, bucket, chapter, channel, history>>
  BY DEF Posts, Busy, D
<1>2. \/ NoMishap /\ site' = r.images /\ Becomes(d, yes)
      \/ Mishap /\ site' \in {site, r.images} /\ Becomes(d, no)
  BY DEF Posts
<1>3. /\ r \in DeliveryType /\ DeliveryShape(r, chapter, site, circumstances.edits)
      /\ circumstances.atOnce = 1 => OneDelivery(r, chapter, site)
  BY <1>1, AtDelivery
<1>. HIDE DEF r
<1>4. r.images # <<>> /\ r.images \in PageSeqs
  BY <1>1, <1>3 DEF DeliveryShape, DeliveryType, OnSite
<1>5. PICK t : /\ Becomes(d, t) /\ site' \in {site, r.images} /\ (NoMishap \/ Mishap)
               /\ (t = yes /\ site' = r.images) \/ t = no
  BY <1>2
<1>6. /\ t \in DeliveryType
      /\ t.at = "marking" /\ t.batch = r.batch /\ t.pages = r.pages /\ t.read = r.read
      /\ t.published = r.published /\ t.images = r.images /\ t.count = r.count
      /\ t.ok => site' = r.images
  <2>1. "marking" \in Steps
    BY DEF Steps
  <2>2. t \in DeliveryType
    BY <1>3, <1>5, <2>1 DEF DeliveryType
  <2>3. ~no.ok
    BY <1>3 DEF DeliveryType
  <2>. QED
    BY <1>3, <1>5, <2>2, <2>3 DEF DeliveryType
<1>. HIDE DEF yes, no
<1>7. site' \in PageSeqs /\ (site # <<>> => site' # <<>>)
  BY <1>4, <1>5, MangaTypes
<1>8. DeliveryShape(t, chapter', site', circumstances.edits)
  <2>1. chapter' = chapter
    BY <1>1
  <2>. QED
    BY <1>1, <1>3, <1>4, <1>6, <1>7, <2>1 DEF DeliveryShape, PagesGone, OnSite
<1>9. ChapterShape(chapter', site', circumstances.edits)
  BY <1>1, <1>7, MangaTypes DEF ChapterShape
<1>10. Grows(chapter, site, chapter', site')
  <2>1. Prefix(chapter.pages, chapter.pages)
    BY MangaTypes, PrefixFacts
  <2>. QED
    BY <1>1, <1>7, <2>1 DEF Grows
<1>11. MangaPosts'
  <2>1. mishaps' \in Nat /\ mishaps \in Nat /\ mishaps <= mishaps'
    BY <1>5, MishapFacts, MangaTypes
  <2>. QED
    BY <1>1, <1>5, <1>6, <2>1, PostsBecome DEF MangaInv
<1>12. channel' \in [ChannelItems -> Nat] /\ (channel'[Album] > 0 => site' # <<>>)
  BY <1>1, <1>7 DEF MangaInv, MangaShape, MangaVarsOK
<1>13. ASSUME circumstances.atOnce = 1
       PROVE  /\ OneDelivery(t, chapter', site')
              /\ Len(site') <= Len(Images(chapter'.pages)) /\ chapter'.siteCount <= Len(site')
              /\ InHand(delivery[d]) = InHand(t)
  <2>1. r.images = Images(chapter.pages) /\ r.count <= Len(site)
    BY <1>1, <1>3, <1>13 DEF OneDelivery, OnSite
  <2>2. Len(site) <= Len(Images(chapter.pages)) /\ chapter.siteCount <= Len(site)
        /\ Len(site) \in Nat /\ Len(Images(chapter.pages)) \in Nat
    BY <1>13, MangaTypes DEF MangaInv, MangaAlone
  <2>3. chapter.siteCount <= Len(Images(chapter.pages)) /\ r.count <= Len(Images(chapter.pages))
    BY <1>3, MangaTypes DEF ChapterShape, DeliveryShape
  <2>4. /\ r.count <= Len(site') /\ Len(site') <= Len(Images(chapter.pages))
        /\ chapter.siteCount <= Len(site')
    BY <1>5, <2>1, <2>2, <2>3
  <2>5. t.ok => Len(t.images) <= Len(site')
    BY <1>6, <2>1, <2>2
  <2>. QED
    BY <1>1, <1>6, <2>1, <2>4, <2>5 DEF OneDelivery, InHand
<1>14. t.at # "idle" /\ UNCHANGED <<circumstances, sent, bucket, history>>
  BY <1>1, <1>6
<1>. HIDE DEF Becomes
<1>. QED
  BY <1>1, <1>5, <1>7, <1>8, <1>9, <1>10, <1>11, <1>12, <1>13, <1>14, StepKeepsPages

LEMMA MarksKeepsPages ==
  ASSUME MangaInv, NEW d \in Deliverers, Marks(d)
  PROVE  MangaInv'
<1>. DEFINE r == D(d)
            n == Len(r.images)
            t == [r EXCEPT !.at = NextAt(r), !.count = IF r.ok THEN AtLeast(@, n) ELSE @]
<1>1. /\ r = delivery[d] /\ r.at = "marking" /\ Busy(d) /\ D(d).at # "sending" /\ Becomes(d, t)
      /\ UNCHANGED <<circumstances, sent, bucket, site, channel, history>> /\ NoMishap
  BY DEF Marks, Busy, D, NoMishap
<1>2. IF r.ok /\ r.published THEN chapter' = [chapter EXCEPT !.siteCount = AtLeast(@, n)]
      ELSE UNCHANGED chapter
  BY DEF Marks
<1>3. /\ r \in DeliveryType /\ DeliveryShape(r, chapter, site, circumstances.edits)
      /\ circumstances.atOnce = 1 => OneDelivery(r, chapter, site)
  BY <1>1, AtDelivery
<1>. HIDE DEF r
<1>4. /\ r.count \in Nat /\ n \in Nat /\ n <= Len(Images(chapter.pages)) /\ r.images # <<>>
      /\ r.ok => site # <<>>
  <2>1. r.count \in Nat /\ r.images \in Seq(MangaPages)
    BY <1>3 DEF DeliveryType, PageSeqs
  <2>2. n <= Len(Images(chapter.pages)) /\ r.images # <<>> /\ (r.ok => site # <<>>)
    BY <1>1, <1>3 DEF DeliveryShape, OnSite
  <2>. QED
    BY <2>1, <2>2
<1>. HIDE DEF n
<1>5. \A a \in Nat : AtLeast(a, n) \in {a, n} /\ AtLeast(a, n) \in Nat
  BY <1>4 DEF AtLeast
<1>. DEFINE c == IF r.ok THEN AtLeast(r.count, n) ELSE r.count
<1>6. c \in Nat /\ (c = r.count \/ (r.ok /\ c = n))
  BY <1>4, <1>5
<1>7. /\ t \in DeliveryType
      /\ t.at = NextAt(r) /\ t.batch = r.batch /\ t.pages = r.pages /\ t.read = r.read
      /\ t.published = r.published /\ t.images = r.images /\ t.ok = r.ok /\ t.count = c
  <2>1. NextAt(r) \in Steps
    BY DEF NextAt, Steps
  <2>2. t \in DeliveryType
    BY <1>3, <1>6, <2>1 DEF DeliveryType
  <2>. QED
    BY <1>3, <2>2 DEF DeliveryType
<1>. HIDE DEF t, c
<1>8. t.at \in {"taken", "stored"} /\ (t.at \in PagesGone => t.pages = <<>>)
  BY <1>7, NextAtFacts
<1>9. /\ chapter' \in ChapterType /\ chapter'.exists = chapter.exists
      /\ chapter'.pages = chapter.pages /\ chapter'.sent = chapter.sent
      /\ chapter'.siteCount = chapter.siteCount \/ (r.ok /\ chapter'.siteCount = n)
  <2>1. chapter \in ChapterType /\ chapter.siteCount \in Nat
    BY MangaTypes
  <2>2. AtLeast(chapter.siteCount, n) \in {chapter.siteCount, n} /\ AtLeast(chapter.siteCount, n) \in Nat
    BY <1>5, <2>1
  <2>. QED
    BY <1>2, <2>1, <2>2 DEF ChapterType
<1>10. DeliveryShape(t, chapter', site', circumstances.edits)
  <2>1. t.count <= Len(Images(chapter'.pages)) /\ (t.count > 0 => site # <<>>)
    BY <1>3, <1>4, <1>6, <1>7, <1>9 DEF DeliveryShape
  <2>. QED
    BY <1>1, <1>3, <1>4, <1>7, <1>8, <1>9, <2>1 DEF DeliveryShape, OnSite
<1>11. ChapterShape(chapter', site', circumstances.edits)
  BY <1>1, <1>4, <1>9, MangaTypes DEF ChapterShape
<1>12. Grows(chapter, site, chapter', site')
  <2>1. Prefix(chapter.pages, chapter.pages)
    BY MangaTypes, PrefixFacts
  <2>. QED
    BY <1>1, <1>9, <2>1 DEF Grows
<1>13. MangaPosts'
  <2>1. mishaps' \in Nat /\ mishaps \in Nat /\ mishaps <= mishaps'
    BY <1>1, MishapFacts, MangaTypes
  <2>. QED
    BY <1>1, <1>8, <1>9, <2>1, PostsBecome DEF MangaInv
<1>14. site' \in PageSeqs /\ channel' \in [ChannelItems -> Nat] /\ (channel'[Album] > 0 => site' # <<>>)
  BY <1>1 DEF MangaInv, MangaShape, MangaVarsOK
<1>15. ASSUME circumstances.atOnce = 1
       PROVE  /\ OneDelivery(t, chapter', site')
              /\ Len(site') <= Len(Images(chapter'.pages)) /\ chapter'.siteCount <= Len(site')
              /\ InHand(delivery[d]) = InHand(t)
  <2>1. r.images = Images(chapter.pages) /\ r.count <= Len(site) /\ (r.ok => n <= Len(site))
    BY <1>1, <1>3, <1>15 DEF OneDelivery, OnSite, n
  <2>2. Len(site) <= Len(Images(chapter.pages)) /\ chapter.siteCount <= Len(site)
    BY <1>15, MangaTypes DEF MangaInv, MangaAlone
  <2>3. t.count <= Len(site)
    BY <1>6, <1>7, <2>1
  <2>4. chapter'.siteCount <= Len(site)
    BY <1>9, <2>1, <2>2
  <2>. QED
    BY <1>1, <1>7, <1>8, <1>9, <2>1, <2>2, <2>3, <2>4 DEF OneDelivery, InHand, OnSite
<1>16. t.at # "idle" /\ UNCHANGED <<circumstances, sent, bucket, history>>
  BY <1>1, <1>8
<1>. HIDE DEF Becomes
<1>. QED
  BY <1>1, <1>10, <1>11, <1>12, <1>13, <1>14, <1>15, <1>16, StepKeepsPages

(* On its way to the channel a delivery has no pages left. *)
HandsEmpty(t) ==
  /\ t \in DeliveryType /\ InHand(t) = {}
  /\ \A C \in ChapterType : \A S, e :
       (t.at = "failing" \/ S # <<>>) => DeliveryShape(t, C, S, e)
  /\ \A C, S : S \in PageSeqs => OneDelivery(t, C, S)

LEMMA OutboundFacts ==
  ASSUME NEW t \in DeliveryType, t.at \in {"failing", "locking", "sending"},
         t.pages = Idle.pages, t.batch = Idle.batch, t.read = Idle.read, t.published = Idle.published,
         t.ok = Idle.ok, t.images = Idle.images, t.count = Idle.count
  PROVE  HandsEmpty(t)
<1>1. /\ t.pages = <<>> /\ t.batch = <<>> /\ t.read = NoChapter
      /\ t.published = FALSE /\ t.ok = FALSE /\ t.images = <<>> /\ t.count = 0
  BY DEF Idle
<1>2. Elements(<<>>) = {} /\ Distinct(<<>>) /\ Len(<<>>) = 0
  BY DEF Elements, Distinct
<1>3. NoChapter.exists = FALSE /\ NoChapter.pages = <<>> /\ NoChapter.siteCount = 0
  BY DEF NoChapter
<1>4. ASSUME NEW C \in ChapterType, NEW S, NEW e, t.at = "failing" \/ S # <<>>
      PROVE  DeliveryShape(t, C, S, e)
  <2>1. C.pages \in Seq(MangaPages)
    BY DEF ChapterType, PageSeqs
  <2>2. Len(C.pages) \in Nat /\ Len(Images(C.pages)) \in Nat
    BY <2>1, ImagesFacts DEF PageSeqs
  <2>3. Prefix(<<>>, C.pages)
    BY <1>2, <2>2 DEF Prefix
  <2>. QED
    BY <1>1, <1>2, <1>3, <1>4, <2>2, <2>3 DEF DeliveryShape, OnSite
<1>5. ASSUME NEW C, NEW S \in PageSeqs PROVE OneDelivery(t, C, S)
  <2>1. Len(S) \in Nat
    BY DEF PageSeqs
  <2>. QED
    BY <1>1, <2>1 DEF OneDelivery, OnSite
<1>6. InHand(t) = {}
  BY <1>1, <1>2 DEF InHand
<1>. QED
  BY <1>4, <1>5, <1>6 DEF HandsEmpty

LEMMA LockingFacts ==
  ASSUME NEW videos \in SUBSET Videos, NEW known \in SUBSET ChannelItems
  PROVE  LET t == [Idle EXCEPT !.at = "locking", !.videos = videos, !.known = known]
         IN  t.at = "locking" /\ HandsEmpty(t)
<1>. DEFINE t == [Idle EXCEPT !.at = "locking", !.videos = videos, !.known = known]
<1>1. "locking" \in Steps /\ Idle \in DeliveryType
  BY IdleType DEF Steps
<1>2. t \in DeliveryType
  BY <1>1 DEF DeliveryType
<1>3. /\ t.at = "locking"
      /\ t.pages = Idle.pages /\ t.batch = Idle.batch /\ t.read = Idle.read /\ t.published = Idle.published
      /\ t.ok = Idle.ok /\ t.images = Idle.images /\ t.count = Idle.count
  BY <1>1, <1>2 DEF DeliveryType
<1>. HIDE DEF t
<1>4. HandsEmpty(t)
  BY <1>2, <1>3, OutboundFacts
<1>. QED
  BY <1>3, <1>4 DEF t

LEMMA SendingFacts ==
  ASSUME NEW plan \in SUBSET ChannelItems
  PROVE  LET t == [Idle EXCEPT !.at = "sending", !.plan = plan, !.todo = plan]
         IN  t.at = "sending" /\ t.plan = plan /\ t.todo = plan /\ HandsEmpty(t)
<1>. DEFINE t == [Idle EXCEPT !.at = "sending", !.plan = plan, !.todo = plan]
<1>1. "sending" \in Steps /\ Idle \in DeliveryType
  BY IdleType DEF Steps
<1>2. t \in DeliveryType
  BY <1>1 DEF DeliveryType
<1>3. /\ t.at = "sending" /\ t.plan = plan /\ t.todo = plan
      /\ t.pages = Idle.pages /\ t.batch = Idle.batch /\ t.read = Idle.read /\ t.published = Idle.published
      /\ t.ok = Idle.ok /\ t.images = Idle.images /\ t.count = Idle.count
  BY <1>1, <1>2 DEF DeliveryType
<1>. HIDE DEF t
<1>4. HandsEmpty(t)
  BY <1>2, <1>3, OutboundFacts
<1>. QED
  BY <1>3, <1>4 DEF t

LEMMA FailingFacts ==
  ASSUME NEW plan \in SUBSET ChannelItems
  PROVE  Failing(plan).at = "failing" /\ HandsEmpty(Failing(plan))
<1>. DEFINE t == Failing(plan)
<1>1. "failing" \in Steps /\ Idle \in DeliveryType
  BY IdleType DEF Steps
<1>2. t \in DeliveryType
  BY <1>1 DEF DeliveryType, Failing
<1>3. /\ t.at = "failing"
      /\ t.pages = Idle.pages /\ t.batch = Idle.batch /\ t.read = Idle.read /\ t.published = Idle.published
      /\ t.ok = Idle.ok /\ t.images = Idle.images /\ t.count = Idle.count
  BY <1>1, <1>2 DEF DeliveryType, Failing
<1>. HIDE DEF t
<1>4. HandsEmpty(t)
  BY <1>2, <1>3, OutboundFacts
<1>. QED
  BY <1>3, <1>4 DEF t

LEMMA DecidesKeepsPages ==
  ASSUME MangaInv, NEW d \in Deliverers, Decides(d)
  PROVE  MangaInv'
<1>. DEFINE r == D(d)
            t == [Asks(r) EXCEPT !.last = TRUE]
            locks == [Idle EXCEPT !.at = "locking", !.videos = r.videos, !.known = r.known]
<1>1. /\ r = delivery[d] /\ r.at = "stored" /\ Busy(d) /\ D(d).at # "sending"
      /\ UNCHANGED <<circumstances, sent, bucket, chapter, site, channel, history>> /\ NoMishap
  BY DEF Decides, Busy, D, NoMishap
<1>2. \/ Ends(d)
      \/ r.published /\ Becomes(d, t)
      \/ Becomes(d, Failing({}))
      \/ r.ok /\ Becomes(d, locks)
  BY DEF Decides
<1>3. /\ r \in DeliveryType /\ DeliveryShape(r, chapter, site, circumstances.edits)
      /\ circumstances.atOnce = 1 => OneDelivery(r, chapter, site)
  BY <1>1, AtDelivery
<1>. HIDE DEF r
<1>4. InHand(delivery[d]) = {}
  BY <1>1, <1>3 DEF DeliveryShape, PagesGone, InHand, Elements
<1>5. CASE Ends(d)
  BY <1>1, <1>4, <1>5, EndsDelivery
<1>6. CASE r.published /\ Becomes(d, t)
  <2>1. /\ t \in DeliveryType
        /\ t.at = (IF t.count >= Len(t.images) THEN "marking" ELSE "posting")
        /\ t.ok => t.count >= Len(t.images)
        /\ t.images = r.images /\ t.pages = r.pages /\ t.batch = r.batch
        /\ t.read = r.read /\ t.count = r.count /\ t.published = r.published
    <3>1. {"marking", "posting"} \subseteq Steps /\ (r.count >= Len(r.images)) \in BOOLEAN
      BY DEF Steps
    <3>2. t \in DeliveryType
      BY <1>3, <3>1 DEF DeliveryType, Asks
    <3>. QED
      BY <1>3, <3>2 DEF DeliveryType, Asks
  <2>. HIDE DEF t
  <2>2. r.images # <<>> /\ Len(r.images) <= Len(Images(chapter.pages))
    BY <1>1, <1>3, <1>6 DEF DeliveryShape
  <2>3. circumstances.atOnce = 1 => r.images = Images(chapter.pages)
    BY <1>1, <1>3, <1>6 DEF OneDelivery
  <2>4. chapter.exists
    <3>1. CASE ~chapter.exists
      <4>1. chapter.pages = <<>> /\ <<>> \in PageSeqs /\ Elements(<<>>) = {}
        BY <3>1, MangaTypes DEF ChapterShape, Elements
      <4>2. Images(chapter.pages) = <<>>
        BY <4>1, ImagesFacts
      <4>3. r.images \in Seq(MangaPages) /\ Len(r.images) <= 0
        BY <1>3, <2>2, <4>2 DEF DeliveryType, PageSeqs
      <4>. QED
        BY <2>2, <4>3
    <3>. QED
      BY <3>1
  <2>5. t.pages = D(d).pages /\ t.batch = D(d).batch /\ t.read = D(d).read /\ t.count = D(d).count
        /\ t.published = D(d).published /\ D(d).at \in {"listing", "stored"}
    BY <1>1, <2>1 DEF r
  <2>6. t.images # <<>> /\ Len(t.images) <= Len(Images(chapter.pages))
        /\ (circumstances.atOnce = 1 => t.images = Images(chapter.pages))
    BY <2>1, <2>2, <2>3
  <2>. QED
    BY <1>1, <1>6, <2>1, <2>4, <2>5, <2>6, AsksKeepsPages
<1>7. ASSUME NEW u, Becomes(d, u), u.at # "sending", HandsEmpty(u), u.at = "failing" \/ site # <<>>
      PROVE  MangaInv'
  <2>1. DeliveryShape(u, chapter, site, circumstances.edits) /\ OneDelivery(u, chapter, site)
    BY <1>7, MangaTypes DEF HandsEmpty
  <2>. QED
    BY <1>1, <1>4, <1>7, <2>1, GoesOn
<1>8. CASE Becomes(d, Failing({}))
  BY <1>7, <1>8, FailingFacts
<1>9. CASE r.ok /\ Becomes(d, locks)
  <2>1. site # <<>> /\ r.videos \in SUBSET Videos /\ r.known \in SUBSET ChannelItems
    BY <1>3, <1>9 DEF DeliveryShape, DeliveryType
  <2>2. locks.at = "locking" /\ HandsEmpty(locks)
    BY <2>1, LockingFacts
  <2>. QED
    BY <1>7, <1>9, <2>1, <2>2
<1>. QED
  BY <1>2, <1>5, <1>6, <1>8, <1>9

(* A step at the channel: the pages stay as they are. *)
LEMMA ChannelKeepsPages ==
  ASSUME MangaInv, NEW d \in Deliverers, Busy(d), InHand(delivery[d]) = {}, NEW t, Becomes(d, t),
         UNCHANGED <<circumstances, sent, bucket, site, history>>, NoMishap \/ Mishap,
         chapter' \in ChapterType, chapter'.exists = chapter.exists, chapter'.pages = chapter.pages,
         chapter'.siteCount = chapter.siteCount,
         channel' \in [ChannelItems -> Nat], channel'[Album] > 0 => site # <<>>,
         DeliveryShape(t, chapter', site, circumstances.edits),
         circumstances.atOnce = 1 /\ t.at # "idle" => OneDelivery(t, chapter', site),
         MangaPosts'
  PROVE  MangaInv'
<1>1. ChapterShape(chapter', site', circumstances.edits)
  BY MangaTypes DEF ChapterShape
<1>2. Grows(chapter, site, chapter', site')
  <2>1. Prefix(chapter.pages, chapter.pages)
    BY MangaTypes, PrefixFacts
  <2>. QED
    BY <2>1 DEF Grows
<1>3. site' \in PageSeqs /\ site' = site
  BY MangaTypes
<1>4. circumstances.atOnce = 1 =>
        Len(site') <= Len(Images(chapter'.pages)) /\ chapter'.siteCount <= Len(site')
  BY DEF MangaInv, MangaAlone
<1>. QED
  BY <1>1, <1>2, <1>3, <1>4, StepKeepsPages

LEMMA LocksKeepsPages ==
  ASSUME MangaInv, NEW d \in Deliverers, Locks(d)
  PROVE  MangaInv'
<1>. DEFINE plan == Plan(D(d))
            t == [Idle EXCEPT !.at = "sending", !.plan = plan, !.todo = plan]
<1>1. /\ delivery[d].at = "locking" /\ D(d).at = "locking" /\ Busy(d) /\ D(d).at # "sending"
      /\ UNCHANGED <<circumstances, sent, bucket, chapter, site, channel, history>>
      /\ NoMishap /\ UNCHANGED mishaps
      /\ \A e \in Deliverers : delivery[e].at # "sending"
      /\ IF plan = {} THEN Ends(d)
         ELSE Becomes(d, t)
  BY DEF Locks, Busy, D, NoMishap, HoldsOutbound
<1>2. delivery[d] \in DeliveryType /\ DeliveryShape(delivery[d], chapter, site, circumstances.edits)
  BY <1>1, AtDelivery
<1>3. site # <<>> /\ InHand(delivery[d]) = {}
  BY <1>1, <1>2 DEF DeliveryShape, PagesGone, InHand, Elements
<1>4. plan \in SUBSET ChannelItems /\ plan \cap chapter.sent = {}
  <2>1. delivery[d].videos \in SUBSET Videos
    BY <1>2 DEF DeliveryType
  <2>. QED
    BY <2>1 DEF Plan, ChannelItems, D
<1>. HIDE DEF plan
<1>5. CASE plan = {}
  BY <1>1, <1>3, <1>5, EndsDelivery
<1>6. CASE plan # {}
  <2>1. Becomes(d, t)
    BY <1>1, <1>6
  <2>2. /\ t \in DeliveryType /\ t.at = "sending" /\ t.todo = plan /\ t.plan = plan
        /\ DeliveryShape(t, chapter, site, circumstances.edits)
        /\ OneDelivery(t, chapter, site)
    <3>1. t.at = "sending" /\ t.todo = plan /\ t.plan = plan /\ HandsEmpty(t)
      BY <1>4, SendingFacts
    <3>. HIDE DEF t
    <3>. QED
      BY <1>3, <3>1, MangaTypes DEF HandsEmpty
  <2>. HIDE DEF t
  <2>3. MangaPosts'
    <3>1. delivery' = [delivery EXCEPT ![d] = t] /\ delivery \in [Deliverers -> DeliveryType]
      BY <2>1, MangaTypes DEF Becomes
    <3>2. delivery'[d] = t /\ \A e \in Deliverers : delivery'[e].at = "sending" => e = d
      BY <1>1, <3>1
    <3>3. \A i \in ChannelItems : channel[i] <= 1 + mishaps /\ (channel[i] <= mishaps \/ i \in chapter.sent)
      BY <1>1 DEF MangaInv, MangaPosts, D
    <3>. QED
      BY <1>1, <1>4, <2>2, <3>2, <3>3 DEF MangaPosts, D
  <2>4. chapter' \in ChapterType /\ channel' \in [ChannelItems -> Nat] /\ (channel'[Album] > 0 => site # <<>>)
    BY <1>1, <1>3, MangaTypes
  <2>. QED
    BY <1>1, <1>3, <2>1, <2>2, <2>3, <2>4, ChannelKeepsPages
<1>. QED
  BY <1>5, <1>6

(* What was posted and is neither recorded nor a matter of bad luck is in the
   plan of the one delivery that posts. *)
LEMMA OneSender ==
  ASSUME MangaInv, NEW d \in Deliverers, delivery[d].at = "sending"
  PROVE  /\ delivery[d].todo \subseteq delivery[d].plan /\ delivery[d].plan \cap chapter.sent = {}
         /\ delivery[d].plan \in SUBSET ChannelItems
         /\ \A e \in Deliverers : delivery[e].at = "sending" => e = d
         /\ \A i \in ChannelItems :
              /\ channel[i] \in Nat /\ channel[i] <= 1 + mishaps
              /\ channel[i] <= mishaps \/ i \in chapter.sent \/ i \in delivery[d].plan \ delivery[d].todo
<1>1. delivery[d] \in DeliveryType /\ channel \in [ChannelItems -> Nat]
  BY MangaTypes
<1>2. delivery[d].plan \in SUBSET ChannelItems
  BY <1>1 DEF DeliveryType
<1>. QED
  BY <1>1, <1>2 DEF MangaInv, MangaPosts, D

LEMMA SmallestFacts ==
  ASSUME NEW S \in SUBSET ChannelItems, S # {}
  PROVE  SmallestOf(S) \in S
<1>1. S \in SUBSET Nat
  BY MangaConstants
<1>2. \E i \in S : \A j \in S : i <= j
  BY <1>1, LeastCounterexample
<1>. QED
  BY <1>2 DEF SmallestOf

(* A delivery fails while it posts. *)
LEMMA FailingKeepsPages ==
  ASSUME MangaInv, NEW d \in Deliverers, Busy(d), delivery[d].at = "sending",
         Becomes(d, Failing(delivery[d].plan)), Mishap,
         UNCHANGED <<circumstances, sent, bucket, chapter, site, history>>,
         NEW more \in SUBSET delivery[d].todo,
         channel' = [i \in ChannelItems |-> IF i \in more THEN channel[i] + 1 ELSE channel[i]]
  PROVE  MangaInv'
<1>1. /\ delivery[d] \in DeliveryType /\ DeliveryShape(delivery[d], chapter, site, circumstances.edits)
  BY AtDelivery
<1>2. site # <<>> /\ InHand(delivery[d]) = {}
  BY <1>1 DEF DeliveryShape, PagesGone, InHand, Elements
<1>. DEFINE t == Failing(delivery[d].plan)
<1>3. t.at = "failing" /\ HandsEmpty(t)
  BY OneSender, FailingFacts
<1>. HIDE DEF t
<1>4. DeliveryShape(t, chapter', site, circumstances.edits) /\ OneDelivery(t, chapter', site)
  BY <1>3, MangaTypes DEF HandsEmpty
<1>5. mishaps \in Nat /\ mishaps' = mishaps + 1
  BY MangaTypes, MishapFacts
<1>6. /\ channel \in [ChannelItems -> Nat] /\ channel' \in [ChannelItems -> Nat]
      /\ \A i \in ChannelItems : channel'[i] <= mishaps'
  <2>1. channel \in [ChannelItems -> Nat] /\ channel' \in [ChannelItems -> Nat]
    BY MangaTypes
  <2>2. ASSUME NEW i \in ChannelItems PROVE channel'[i] <= mishaps'
    <3>1. CASE i \in more
      <4>1. channel[i] \in Nat /\ channel[i] <= mishaps
        BY <3>1, OneSender
      <4>2. channel'[i] = channel[i] + 1
        BY <3>1
      <4>. QED
        BY <1>5, <4>1, <4>2
    <3>2. CASE i \notin more
      <4>1. channel[i] \in Nat /\ channel[i] <= 1 + mishaps
        BY OneSender
      <4>2. channel'[i] = channel[i]
        BY <3>2
      <4>. QED
        BY <1>5, <4>1, <4>2
    <3>. QED
      BY <3>1, <3>2
  <2>. QED
    BY <2>1, <2>2
<1>7. MangaPosts'
  <2>1. delivery' = [delivery EXCEPT ![d] = t] /\ delivery \in [Deliverers -> DeliveryType]
    BY MangaTypes DEF Becomes, t
  <2>2. \A e \in Deliverers : delivery'[e].at # "sending"
    BY <1>3, <2>1, OneSender
  <2>3. \A i \in ChannelItems : channel'[i] <= 1 + mishaps' /\ channel'[i] <= mishaps'
    <3>. SUFFICES ASSUME NEW i \in ChannelItems PROVE channel'[i] <= 1 + mishaps' /\ channel'[i] <= mishaps'
      OBVIOUS
    <3>1. channel'[i] \in Nat /\ mishaps' \in Nat /\ channel'[i] <= mishaps'
      BY <1>5, <1>6
    <3>. QED
      BY <3>1
  <2>. QED
    BY <2>2, <2>3 DEF MangaPosts, D
<1>8. Becomes(d, t) /\ chapter' \in ChapterType
  BY MangaTypes DEF t
<1>. QED
  BY <1>2, <1>4, <1>6, <1>7, <1>8, ChannelKeepsPages

LEMMA SendsKeepsPages ==
  ASSUME MangaInv, NEW d \in Deliverers, Sends(d)
  PROVE  MangaInv'
<1>. DEFINE r == D(d)
            i == SmallestOf(r.todo)
            t == [r EXCEPT !.todo = @ \ {i}]
            more == [channel EXCEPT ![i] = @ + 1]
<1>1. /\ r = delivery[d] /\ r.at = "sending" /\ delivery[d].at = "sending" /\ Busy(d) /\ r.todo # {}
      /\ UNCHANGED <<circumstances, sent, bucket, chapter, site, history>>
  BY DEF Sends, Busy, D
<1>2. \/ NoMishap /\ channel' = more /\ Becomes(d, t)
      \/ Mishap /\ channel' \in {channel, more} /\ Becomes(d, Failing(r.plan))
  BY DEF Sends
<1>3. /\ r \in DeliveryType /\ DeliveryShape(r, chapter, site, circumstances.edits)
      /\ circumstances.atOnce = 1 => OneDelivery(r, chapter, site)
  BY <1>1, AtDelivery
<1>. HIDE DEF r
<1>4. i \in r.todo /\ r.todo \in SUBSET ChannelItems /\ r.plan \in SUBSET ChannelItems
  BY <1>1, <1>3, SmallestFacts DEF DeliveryType
<1>. HIDE DEF i
<1>5. /\ r.todo \subseteq r.plan /\ r.plan \cap chapter.sent = {}
      /\ \A e \in Deliverers : delivery[e].at = "sending" => e = d
      /\ \A j \in ChannelItems :
           /\ channel[j] \in Nat /\ channel[j] <= 1 + mishaps
           /\ channel[j] <= mishaps \/ j \in chapter.sent \/ j \in r.plan \ r.todo
  BY <1>1, OneSender
<1>6. channel \in [ChannelItems -> Nat]
  BY MangaTypes
<1>7. CASE NoMishap /\ channel' = more /\ Becomes(d, t)
  <2>1. /\ t \in DeliveryType /\ t.todo = r.todo \ {i} /\ t.plan = r.plan
        /\ t.at = r.at /\ t.batch = r.batch /\ t.pages = r.pages /\ t.read = r.read
        /\ t.published = r.published /\ t.images = r.images /\ t.ok = r.ok /\ t.count = r.count
    <3>1. t \in DeliveryType
      BY <1>3 DEF DeliveryType
    <3>. QED
      BY <1>3, <3>1 DEF DeliveryType
  <2>2. delivery' = [delivery EXCEPT ![d] = t] /\ delivery \in [Deliverers -> DeliveryType]
    BY <1>7, MangaTypes DEF Becomes
  <2>3. Becomes(d, t)
    BY <1>7
  <2>. HIDE DEF t
  <2>4. site # <<>> /\ InHand(delivery[d]) = {}
    BY <1>1, <1>3 DEF DeliveryShape, PagesGone, InHand, Elements
  <2>5. DeliveryShape(t, chapter', site, circumstances.edits)
    <3>1. chapter' = chapter
      BY <1>1
    <3>. QED
      BY <1>1, <1>3, <2>1, <3>1 DEF DeliveryShape
  <2>6. circumstances.atOnce = 1 => OneDelivery(t, chapter', site)
    BY <1>1, <1>3, <2>1 DEF OneDelivery
  <2>7. channel' \in [ChannelItems -> Nat]
    <3>1. i \in ChannelItems /\ channel[i] + 1 \in Nat
      BY <1>4, <1>5
    <3>. QED
      BY <1>6, <1>7, <3>1
  <2>8. \A j \in ChannelItems : channel'[j] = IF j = i THEN channel[j] + 1 ELSE channel[j]
    BY <1>6, <1>7
  <2>9. mishaps' = mishaps /\ mishaps \in Nat /\ chapter' = chapter
    BY <1>1, <1>7, MangaTypes DEF NoMishap
  <2>10. \A j \in ChannelItems :
           /\ channel'[j] <= 1 + mishaps
           /\ channel'[j] <= mishaps \/ j \in chapter.sent \/ j \in t.plan \ t.todo
    <3>. SUFFICES ASSUME NEW j \in ChannelItems
                  PROVE  /\ channel'[j] <= 1 + mishaps
                         /\ channel'[j] <= mishaps \/ j \in chapter.sent \/ j \in t.plan \ t.todo
      OBVIOUS
    <3>1. CASE j = i
      <4>1. j \in r.todo /\ j \in t.plan \ t.todo /\ channel[j] \in Nat /\ channel[j] <= mishaps
        BY <1>4, <1>5, <2>1, <3>1
      <4>2. channel'[j] = channel[j] + 1
        BY <2>8, <3>1
      <4>. QED
        BY <2>9, <4>1, <4>2
    <3>2. CASE j # i
      <4>1. channel'[j] = channel[j]
        BY <2>8, <3>2
      <4>. QED
        BY <1>5, <2>1, <3>2, <4>1
    <3>. QED
      BY <3>1, <3>2
  <2>11. MangaPosts'
    <3>1. delivery'[d] = t /\ \A e \in Deliverers : delivery'[e].at = "sending" => e = d
      BY <1>5, <2>2
    <3>2. t.todo \subseteq t.plan /\ t.plan \cap chapter.sent = {}
      BY <1>5, <2>1
    <3>3. t.at = "sending"
      BY <1>1, <2>1
    <3>. QED
      BY <2>9, <2>10, <3>1, <3>2, <3>3 DEF MangaPosts, D
  <2>12. chapter' \in ChapterType
    BY <2>9, MangaTypes
  <2>. QED
    BY <1>1, <1>7, <2>3, <2>4, <2>5, <2>6, <2>7, <2>9, <2>11, <2>12, ChannelKeepsPages
<1>8. CASE Mishap /\ channel' \in {channel, more} /\ Becomes(d, Failing(r.plan))
  <2>1. \E S \in SUBSET r.todo :
          channel' = [j \in ChannelItems |-> IF j \in S THEN channel[j] + 1 ELSE channel[j]]
    <3>1. CASE channel' = channel
      <4>1. channel' = [j \in ChannelItems |-> IF j \in {} THEN channel[j] + 1 ELSE channel[j]]
        BY <1>6, <3>1
      <4>2. {} \in SUBSET r.todo
        OBVIOUS
      <4>. QED
        BY <4>1, <4>2
    <3>2. CASE channel' = more
      <4>1. channel' = [j \in ChannelItems |-> IF j \in {i} THEN channel[j] + 1 ELSE channel[j]]
        BY <1>6, <3>2
      <4>2. {i} \in SUBSET r.todo
        BY <1>4
      <4>. QED
        BY <4>1, <4>2
    <3>. QED
      BY <1>8, <3>1, <3>2
  <2>. QED
    BY <1>1, <1>8, <2>1, FailingKeepsPages
<1>. QED
  BY <1>2, <1>7, <1>8

LEMMA RecordsKeepsPages ==
  ASSUME MangaInv, NEW d \in Deliverers, Records(d)
  PROVE  MangaInv'
<1>. DEFINE r == D(d)
<1>1. /\ r = delivery[d] /\ r.at = "sending" /\ delivery[d].at = "sending" /\ Busy(d) /\ r.todo = {}
      /\ UNCHANGED <<circumstances, sent, bucket, channel, site, history>>
  BY DEF Records, Busy, D
<1>2. \/ /\ NoMishap /\ Becomes(d, Idle)
         /\ chapter' = [chapter EXCEPT !.sent = @ \cup r.plan, !.attempts = 0]
      \/ Mishap /\ Becomes(d, Failing(r.plan)) /\ UNCHANGED chapter
  BY DEF Records, Ends
<1>3. /\ r \in DeliveryType /\ DeliveryShape(r, chapter, site, circumstances.edits)
  BY <1>1, AtDelivery
<1>. HIDE DEF r
<1>4. /\ r.plan \in SUBSET ChannelItems
      /\ \A e \in Deliverers : delivery[e].at = "sending" => e = d
      /\ \A j \in ChannelItems :
           /\ channel[j] \in Nat /\ channel[j] <= 1 + mishaps
           /\ channel[j] <= mishaps \/ j \in chapter.sent \/ j \in r.plan \ r.todo
  BY <1>1, OneSender
<1>5. channel \in [ChannelItems -> Nat] /\ channel' = channel
  BY <1>1, MangaTypes
<1>6. CASE /\ NoMishap /\ Becomes(d, Idle)
           /\ chapter' = [chapter EXCEPT !.sent = @ \cup r.plan, !.attempts = 0]
  <2>1. /\ chapter' \in ChapterType /\ chapter'.exists = chapter.exists /\ chapter'.pages = chapter.pages
        /\ chapter'.siteCount = chapter.siteCount /\ chapter'.sent = chapter.sent \cup r.plan
    <3>1. chapter \in ChapterType /\ 0 \in 0..MaxAttempts
      BY MangaTypes, MangaConstants
    <3>. QED
      BY <1>4, <1>6, <3>1 DEF ChapterType
  <2>2. delivery' = [delivery EXCEPT ![d] = Idle] /\ delivery \in [Deliverers -> DeliveryType]
    BY <1>6, MangaTypes DEF Becomes
  <2>3. \A e \in Deliverers : delivery'[e].at # "sending"
    BY <1>4, <2>2 DEF Idle
  <2>4. mishaps' = mishaps
    BY <1>6 DEF NoMishap
  <2>5. MangaPosts'
    BY <1>1, <1>4, <1>5, <2>1, <2>3, <2>4 DEF MangaPosts, D
  <2>6. DeliveryShape(Idle, chapter', site, circumstances.edits) /\ Idle.at = "idle"
    BY <2>1, IdleShape DEF Idle
  <2>7. InHand(delivery[d]) = {} /\ (channel'[Album] > 0 => site # <<>>)
    BY <1>1, <1>3 DEF DeliveryShape, PagesGone, InHand, Elements
  <2>. QED
    BY <1>1, <1>5, <1>6, <2>1, <2>5, <2>6, <2>7, ChannelKeepsPages
<1>7. CASE Mishap /\ Becomes(d, Failing(r.plan)) /\ UNCHANGED chapter
  <2>1. channel' = [j \in ChannelItems |-> IF j \in {} THEN channel[j] + 1 ELSE channel[j]]
    BY <1>5
  <2>2. {} \in SUBSET delivery[d].todo
    OBVIOUS
  <2>. QED
    BY <1>1, <1>7, <2>1, <2>2, FailingKeepsPages
<1>. QED
  BY <1>2, <1>6, <1>7

LEMMA FailsKeepsPages ==
  ASSUME MangaInv, NEW d \in Deliverers, Fails(d)
  PROVE  MangaInv'
<1>1. /\ delivery[d].at = "failing" /\ D(d).at # "sending" /\ Busy(d) /\ Becomes(d, Idle)
      /\ UNCHANGED <<circumstances, sent, bucket, site, channel, history, mishaps>>
      /\ chapter' = [chapter EXCEPT !.attempts = IF @ < MaxAttempts THEN @ + 1 ELSE @]
  BY DEF Fails, Busy, D, Ends
<1>2. /\ delivery[d] \in DeliveryType /\ DeliveryShape(delivery[d], chapter, site, circumstances.edits)
  BY AtDelivery
<1>3. InHand(delivery[d]) = {}
  BY <1>1, <1>2 DEF DeliveryShape, PagesGone, InHand, Elements
<1>4. /\ chapter' \in ChapterType /\ chapter'.exists = chapter.exists /\ chapter'.pages = chapter.pages
      /\ chapter'.siteCount = chapter.siteCount /\ chapter'.sent = chapter.sent
  <2>. DEFINE a == IF chapter.attempts < MaxAttempts THEN chapter.attempts + 1 ELSE chapter.attempts
  <2>1. a \in 0..MaxAttempts
    BY MangaTypes, MangaConstants
  <2>2. chapter' = [chapter EXCEPT !.attempts = a]
    BY <1>1
  <2>. HIDE DEF a
  <2>. QED
    BY <2>1, <2>2, MangaTypes DEF ChapterType
<1>5. DeliveryShape(Idle, chapter', site, circumstances.edits) /\ Idle.at = "idle"
  BY <1>4, IdleShape DEF Idle
<1>6. MangaPosts'
  <2>1. mishaps \in Nat /\ mishaps' \in Nat /\ mishaps <= mishaps'
    BY <1>1, MangaTypes
  <2>. QED
    BY <1>1, <1>4, <1>5, <2>1, PostsBecome DEF MangaInv
<1>7. channel' \in [ChannelItems -> Nat] /\ (channel'[Album] > 0 => site # <<>>)
  BY <1>1 DEF MangaInv, MangaShape, MangaVarsOK
<1>. QED
  BY <1>1, <1>3, <1>4, <1>5, <1>6, <1>7, ChannelKeepsPages DEF NoMishap

LEMMA NobodyDelivers ==
  ASSUME NEW d \in Deliverers, Starts(d), circumstances.atOnce = 1
  PROVE  \A e \in Deliverers : ~Busy(e)
<1>. DEFINE W == {e \in Deliverers : Busy(e)}
<1>1. IsFiniteSet(Deliverers)
  <2>1. IsFiniteSet({}) /\ IsFiniteSet({} \cup {"watchdog"})
    BY FS_EmptySet, FS_AddElement
  <2>2. IsFiniteSet(({} \cup {"watchdog"}) \cup {"handler"})
    BY <2>1, FS_AddElement
  <2>3. IsFiniteSet((({} \cup {"watchdog"}) \cup {"handler"}) \cup {"sweep"})
    BY <2>2, FS_AddElement
  <2>4. IsFiniteSet(((({} \cup {"watchdog"}) \cup {"handler"}) \cup {"sweep"}) \cup {"backfill"})
    BY <2>3, FS_AddElement
  <2>5. Deliverers = ((({} \cup {"watchdog"}) \cup {"handler"}) \cup {"sweep"}) \cup {"backfill"}
    BY DEF Deliverers
  <2>. QED
    BY <2>4, <2>5
<1>2. IsFiniteSet(W)
  BY <1>1, FS_Subset
<1>3. Cardinality(W) < 1
  BY DEF Starts
<1>. HIDE DEF W
<1>4. Cardinality(W) = 0
  BY <1>2, <1>3, FS_CardinalityType
<1>5. W = {}
  BY <1>2, <1>4, FS_EmptySet
<1>. QED
  BY <1>5 DEF W

LEMMA WhereIdle ==
  ASSUME MangaInv, circumstances.atOnce = 1, \A e \in Deliverers : ~Busy(e),
         mishaps = 0, ~history, NEW p \in (1..sent) \ Videos
  PROVE  p \in Elements(chapter.pages) \cup Elements(bucket.pages)
<1>1. ASSUME NEW e \in Deliverers PROVE InHand(delivery[e]) = {}
  <2>1. delivery[e].pages = <<>> /\ delivery[e].batch = <<>>
    BY DEF MangaInv, MangaShape, DeliveryShape, Busy, D, PagesGone
  <2>. QED
    BY <2>1 DEF InHand, Elements
<1>. QED
  BY <1>1 DEF MangaInv, MangaAlone

Taken(pages, final) == [Idle EXCEPT !.at = "taken", !.pages = pages, !.final = final]

(* A delivery begins with the pages it was given. *)
LEMMA BeginsKeepsPages ==
  ASSUME MangaInv, NEW d \in Deliverers, Starts(d), NEW pages \in PageSeqs, NEW final \in BOOLEAN,
         Becomes(d, Taken(pages, final)),
         ~circumstances.edits => Distinct(pages),
         UNCHANGED <<circumstances, sent, chapter, site, channel, mishaps>>,
         history' \in BOOLEAN, BucketShape(bucket', sent, circumstances.edits),
         circumstances.atOnce = 1 /\ mishaps = 0 /\ ~history' =>
           \A p \in (1..sent) \ Videos :
             p \in Elements(chapter.pages) \cup Elements(bucket'.pages) \cup Elements(pages)
  PROVE  MangaInv'
<1>. DEFINE t == Taken(pages, final)
<1>1. Idle \in DeliveryType /\ "taken" \in Steps
  BY IdleType DEF Steps
<1>2. /\ t \in DeliveryType /\ t.at = "taken" /\ t.pages = pages
      /\ t.batch = <<>> /\ t.read = NoChapter /\ t.published = FALSE
      /\ t.ok = FALSE /\ t.images = <<>> /\ t.count = 0
  <2>1. t \in DeliveryType
    BY <1>1 DEF DeliveryType, Taken
  <2>. QED
    BY <1>1, <2>1 DEF DeliveryType, Taken, Idle
<1>. HIDE DEF t
<1>3. Elements(<<>>) = {} /\ Distinct(<<>>) /\ Len(<<>>) = 0
  BY DEF Elements, Distinct
<1>4. NoChapter.exists = FALSE /\ NoChapter.pages = <<>> /\ NoChapter.siteCount = 0
  BY DEF NoChapter
<1>5. DeliveryShape(t, chapter, site, circumstances.edits)
  <2>1. Prefix(<<>>, chapter.pages)
    BY MangaTypes, PrefixFacts
  <2>2. Len(Images(chapter.pages)) \in Nat
    BY MangaTypes
  <2>. QED
    BY <1>2, <1>3, <1>4, <2>1, <2>2 DEF DeliveryShape, OnSite, PagesGone
<1>6. ~Busy(d) /\ Becomes(d, t)
  BY DEF Starts, t
<1>7. delivery' = [delivery EXCEPT ![d] = t] /\ delivery \in [Deliverers -> DeliveryType]
  BY <1>6, MangaTypes DEF Becomes
<1>8. Grows(chapter, site, chapter', site')
  <2>1. Prefix(chapter.pages, chapter.pages)
    BY MangaTypes, PrefixFacts
  <2>. QED
    BY <2>1 DEF Grows
<1>9. MangaShape'
  <2>1. MangaVarsOK'
    BY DEF MangaInv, MangaShape, MangaVarsOK
  <2>2. DeliveryShape(t, chapter', site', circumstances.edits)
    BY <1>5
  <2>. QED
    BY <1>6, <1>8, <2>1, <2>2, ShapeBecomes DEF MangaInv
<1>10. MangaPosts'
  <2>1. D(d).at # "sending"
    BY <1>6 DEF Busy
  <2>2. mishaps \in Nat /\ mishaps' = mishaps /\ chapter' = chapter
    BY MangaTypes
  <2>3. mishaps <= mishaps' /\ mishaps' \in Nat
    BY <2>2
  <2>. QED
    BY <1>2, <1>6, <2>1, <2>2, <2>3, PostsBecome DEF MangaInv
<1>11. ASSUME circumstances.atOnce = 1 PROVE MangaAlone'
  <2>1. \A e \in Deliverers : ~Busy(e)
    BY <1>11, NobodyDelivers
  <2>2. delivery'[d] = t /\ \A e \in Deliverers : delivery'[e].at # "idle" => e = d
    BY <1>7, <2>1 DEF Busy, D
  <2>3. OneDelivery(t, chapter, site)
    <3>1. Len(site) \in Nat
      BY MangaTypes
    <3>. QED
      BY <1>2, <3>1 DEF OneDelivery, OnSite
  <2>4. InHand(t) = Elements(pages)
    BY <1>2, <1>3 DEF InHand
  <2>5. Len(site) <= Len(Images(chapter.pages)) /\ chapter.siteCount <= Len(site)
    BY <1>11 DEF MangaInv, MangaAlone
  <2>6. ASSUME mishaps = 0, ~history', NEW p \in (1..sent) \ Videos
        PROVE  \/ p \in Elements(chapter.pages) \cup Elements(bucket'.pages)
               \/ \E e \in Deliverers : p \in InHand(delivery'[e])
    BY <1>11, <2>2, <2>4, <2>6
  <2>. QED
    BY <2>2, <2>3, <2>5, <2>6 DEF MangaAlone, Busy, D
<1>. QED
  BY <1>9, <1>10, <1>11 DEF MangaInv

LEMMA TakesKeepsPages ==
  ASSUME MangaInv, NEW d \in Deliverers, Checkpoint(d) \/ Flush(d)
  PROVE  MangaInv'
<1>1. PICK final \in BOOLEAN : Becomes(d, Taken(InOrder(bucket.pages), final))
  BY DEF Checkpoint, Flush, Takes, Taken
<1>2. /\ Starts(d) /\ UNCHANGED <<circumstances, sent, chapter, site, channel, history, mishaps>>
      /\ bucket' = [bucket EXCEPT !.pages = <<>>] \/ bucket' = NoBucket
  BY DEF Checkpoint, Flush, Takes
<1>3. BucketShape(bucket, sent, circumstances.edits) /\ history \in BOOLEAN
  BY DEF MangaInv, MangaShape, MangaVarsOK
<1>4. bucket.pages \in PageSeqs
  BY <1>3 DEF BucketShape
<1>5. /\ InOrder(bucket.pages) \in PageSeqs /\ Elements(InOrder(bucket.pages)) = Elements(bucket.pages)
      /\ ~circumstances.edits => Distinct(InOrder(bucket.pages))
  BY <1>3, <1>4, InOrderFacts DEF BucketShape
<1>6. Elements(<<>>) = {} /\ Distinct(<<>>) /\ <<>> \in PageSeqs
  BY DEF Elements, Distinct, PageSeqs
<1>7. BucketShape(bucket', sent, circumstances.edits)
  <2>1. /\ bucket'.pages = <<>> /\ bucket' \in [open : BOOLEAN, pages : PageSeqs]
    <3>1. CASE bucket' = [bucket EXCEPT !.pages = <<>>]
      <4>1. bucket \in [open : BOOLEAN, pages : PageSeqs]
        BY <1>3 DEF BucketShape
      <4>. QED
        BY <1>6, <3>1, <4>1
    <3>2. CASE bucket' = NoBucket
      BY <1>6, <3>2 DEF NoBucket
    <3>. QED
      BY <1>2, <3>1, <3>2
  <2>. QED
    BY <1>6, <2>1 DEF BucketShape
<1>8. ASSUME circumstances.atOnce = 1, mishaps = 0, ~history', NEW p \in (1..sent) \ Videos
      PROVE  p \in Elements(chapter.pages) \cup Elements(bucket'.pages)
                     \cup Elements(InOrder(bucket.pages))
  BY <1>2, <1>5, <1>8, WhereIdle, NobodyDelivers
<1>. QED
  BY <1>1, <1>2, <1>3, <1>5, <1>7, <1>8, BeginsKeepsPages

LEMMA SweepKeepsPages ==
  ASSUME MangaInv, Sweep
  PROVE  MangaInv'
<1>1. /\ "sweep" \in Deliverers /\ Starts("sweep") /\ Idle.pages = <<>>
      /\ UNCHANGED <<circumstances, sent, bucket, chapter, site, channel, history, mishaps>>
  BY DEF Sweep, Deliverers, Idle
<1>2. Becomes("sweep", Taken(<<>>, TRUE))
  <2>1. Taken(<<>>, TRUE) = [Idle EXCEPT !.at = "taken", !.final = TRUE]
    <3>1. Idle \in DeliveryType /\ Idle.pages = <<>>
      BY <1>1, IdleType
    <3>. QED
      BY <3>1 DEF Taken, DeliveryType
  <2>. QED
    BY <2>1 DEF Sweep
<1>3. BucketShape(bucket', sent, circumstances.edits) /\ history' \in BOOLEAN
  BY <1>1 DEF MangaInv, MangaShape, MangaVarsOK
<1>4. Elements(<<>>) = {} /\ Distinct(<<>>) /\ <<>> \in PageSeqs
  BY DEF Elements, Distinct, PageSeqs
<1>5. ASSUME circumstances.atOnce = 1, mishaps = 0, ~history', NEW p \in (1..sent) \ Videos
      PROVE  p \in Elements(chapter.pages) \cup Elements(bucket'.pages) \cup Elements(<<>>)
  BY <1>1, <1>5, WhereIdle, NobodyDelivers
<1>. QED
  BY <1>1, <1>2, <1>3, <1>4, <1>5, BeginsKeepsPages

(* Only the thread, the bucket and the history change. *)
LEMMA ThreadKeepsPages ==
  ASSUME MangaInv, UNCHANGED <<circumstances, chapter, site, channel, delivery>>,
         sent' \in 0..circumstances.pages, NoMishap \/ Mishap, history' \in BOOLEAN,
         BucketShape(bucket', sent', circumstances.edits),
         circumstances.atOnce = 1 /\ mishaps' = 0 /\ ~history' =>
           \A p \in (1..sent') \ Videos :
             \/ p \in Elements(chapter.pages) \cup Elements(bucket'.pages)
             \/ \E d \in Deliverers : p \in InHand(delivery[d])
  PROVE  MangaInv'
<1>1. mishaps' \in 0..circumstances.mishaps /\ mishaps \in Nat /\ mishaps' \in Nat /\ mishaps <= mishaps'
  BY MishapFacts, MangaTypes
<1>2. MangaShape'
  BY <1>1 DEF MangaInv, MangaShape, MangaVarsOK
<1>3. MangaPosts'
  <2>1. ASSUME NEW i \in ChannelItems
        PROVE  channel[i] <= 1 + mishaps' /\ (channel[i] <= mishaps => channel[i] <= mishaps')
    <3>1. channel[i] \in Nat /\ channel[i] <= 1 + mishaps
      BY MangaTypes DEF MangaInv, MangaPosts
    <3>. QED
      BY <1>1, <3>1
  <2>2. UNCHANGED <<chapter, channel, delivery>>
    OBVIOUS
  <2>. QED
    BY <2>1, <2>2 DEF MangaInv, MangaPosts, D
<1>4. circumstances.atOnce = 1 => MangaAlone'
  BY DEF MangaInv, MangaAlone, Busy, D
<1>. QED
  BY <1>2, <1>3, <1>4 DEF MangaInv

LEMMA BackfillKeepsPages ==
  ASSUME MangaInv, BackfillChat
  PROVE  MangaInv'
<1>. DEFINE ids == [p \in 1..sent |-> p]
            new == Keeping(ids, MangaPages \ Elements(chapter.pages))
<1>1. /\ "backfill" \in Deliverers /\ Starts("backfill") /\ history' = FALSE
      /\ UNCHANGED <<circumstances, sent, bucket, chapter, site, channel, mishaps>>
      /\ IF new = <<>> THEN UNCHANGED delivery ELSE Becomes("backfill", Taken(new, TRUE))
  BY DEF BackfillChat, Deliverers, Taken
<1>2. BucketShape(bucket, sent, circumstances.edits) /\ sent \in 0..circumstances.pages
      /\ circumstances \in Conditions
  BY DEF MangaInv, MangaShape, MangaVarsOK
<1>3. sent \in Nat /\ 1..sent \subseteq MangaPages
  <2>1. circumstances.pages \in 1..MaxPages
    BY <1>2, MangaAssumption
  <2>. QED
    BY <1>2, <2>1, MangaConstants
<1>4. ids \in Seq(MangaPages) /\ Distinct(ids) /\ Elements(ids) = 1..sent
  <2>1. ids \in [1..sent -> MangaPages]
    BY <1>3
  <2>2. ids \in Seq(MangaPages)
    BY <1>3, <2>1
  <2>. QED
    BY <2>2 DEF Distinct, Elements
<1>. HIDE DEF ids
<1>5. new \in PageSeqs /\ Distinct(new) /\ Elements(new) = (1..sent) \ Elements(chapter.pages)
  <2>1. /\ new \in Seq(MangaPages) /\ Distinct(new)
        /\ Elements(new) = Elements(ids) \cap (MangaPages \ Elements(chapter.pages))
    BY <1>4, KeepingFacts
  <2>. QED
    BY <1>3, <1>4, <2>1 DEF PageSeqs
<1>. HIDE DEF new
<1>6. CASE new = <<>>
  <2>1. \A p \in 1..sent : p \in Elements(chapter.pages)
    BY <1>5, <1>6 DEF Elements
  <2>. QED
    BY <1>1, <1>2, <1>6, <2>1, ThreadKeepsPages DEF NoMishap
<1>7. CASE new # <<>>
  BY <1>1, <1>2, <1>5, <1>7, BeginsKeepsPages
<1>. QED
  BY <1>6, <1>7

LEMMA AddPageKeepsPages ==
  ASSUME MangaInv, AddPage
  PROVE  MangaInv'
<1>1. /\ sent < circumstances.pages /\ sent' = sent + 1
      /\ bucket' = [open |-> TRUE, pages |-> Append(bucket.pages, sent + 1)]
      /\ UNCHANGED <<circumstances, chapter, site, channel, delivery, history, mishaps>>
  BY DEF AddPage
<1>2. BucketShape(bucket, sent, circumstances.edits) /\ sent \in 0..circumstances.pages
      /\ circumstances \in Conditions /\ history \in BOOLEAN
  BY DEF MangaInv, MangaShape, MangaVarsOK
<1>3. circumstances.pages \in 1..MaxPages
  BY <1>2, MangaAssumption
<1>4. sent \in Nat /\ sent' \in 0..circumstances.pages /\ sent + 1 \in MangaPages
      /\ 1..sent' = 1..sent \cup {sent + 1} /\ sent + 1 \notin 1..sent
  BY <1>1, <1>2, <1>3, MangaConstants
<1>5. bucket.pages \in Seq(MangaPages)
  BY <1>2 DEF BucketShape, PageSeqs
<1>. DEFINE u == Append(bucket.pages, sent + 1)
<1>6. /\ u \in Seq(MangaPages) /\ Elements(u) = Elements(bucket.pages) \cup {sent + 1}
      /\ Distinct(bucket.pages) /\ sent + 1 \notin Elements(bucket.pages) => Distinct(u)
  BY <1>4, <1>5, AppendFacts
<1>7. bucket'.pages = u /\ bucket'.open = TRUE /\ bucket' = [open |-> TRUE, pages |-> u]
  BY <1>1
<1>. HIDE DEF u
<1>8. BucketShape(bucket', sent', circumstances.edits)
  <2>1. bucket' \in [open : BOOLEAN, pages : PageSeqs]
    BY <1>6, <1>7 DEF PageSeqs
  <2>. QED
    BY <1>2, <1>4, <1>6, <1>7, <2>1 DEF BucketShape
<1>9. ASSUME circumstances.atOnce = 1, mishaps' = 0, ~history', NEW p \in (1..sent') \ Videos
      PROVE  \/ p \in Elements(chapter.pages) \cup Elements(bucket'.pages)
             \/ \E d \in Deliverers : p \in InHand(delivery[d])
  <2>1. CASE p = sent + 1
    BY <1>6, <1>7, <2>1
  <2>2. CASE p \in (1..sent) \ Videos
    <3>1. \/ p \in Elements(chapter.pages) \cup Elements(bucket.pages)
          \/ \E d \in Deliverers : p \in InHand(delivery[d])
      BY <1>1, <1>9, <2>2 DEF MangaInv, MangaAlone
    <3>. QED
      BY <1>6, <1>7, <3>1
  <2>. QED
    BY <1>4, <1>9, <2>1, <2>2
<1>. QED
  BY <1>1, <1>2, <1>4, <1>8, <1>9, ThreadKeepsPages DEF NoMishap

LEMMA EditPageKeepsPages ==
  ASSUME MangaInv, EditPage
  PROVE  MangaInv'
<1>1. /\ circumstances.edits /\ Mishap
      /\ UNCHANGED <<circumstances, sent, chapter, site, channel, delivery, history>>
  BY DEF EditPage
<1>2. PICK p \in 1..sent : bucket' = [open |-> TRUE, pages |-> Append(bucket.pages, p)]
  BY DEF EditPage
<1>3. BucketShape(bucket, sent, circumstances.edits) /\ sent \in 0..circumstances.pages
      /\ circumstances \in Conditions /\ history \in BOOLEAN
  BY DEF MangaInv, MangaShape, MangaVarsOK
<1>4. circumstances.pages \in 1..MaxPages
  BY <1>3, MangaAssumption
<1>5. p \in MangaPages
  BY <1>2, <1>3, <1>4, MangaConstants
<1>6. bucket.pages \in Seq(MangaPages)
  BY <1>3 DEF BucketShape, PageSeqs
<1>. DEFINE u == Append(bucket.pages, p)
<1>7. u \in Seq(MangaPages) /\ Elements(u) = Elements(bucket.pages) \cup {p}
  BY <1>5, <1>6, AppendFacts
<1>8. bucket' = [open |-> TRUE, pages |-> u]
  BY <1>2
<1>. HIDE DEF u
<1>9. BucketShape(bucket', sent', circumstances.edits)
  <2>1. bucket'.open = TRUE /\ bucket'.pages = u
    BY <1>8
  <2>2. bucket' \in [open : BOOLEAN, pages : PageSeqs]
    BY <1>7, <1>8 DEF PageSeqs
  <2>3. Elements(u) \subseteq 1..sent
    BY <1>2, <1>3, <1>7 DEF BucketShape
  <2>. QED
    BY <1>1, <2>1, <2>2, <2>3 DEF BucketShape
<1>10. mishaps' # 0
  BY <1>1, MishapFacts, MangaTypes
<1>. QED
  BY <1>1, <1>3, <1>9, <1>10, ThreadKeepsPages

LEMMA WorkerRestartsKeepsPages ==
  ASSUME MangaInv, WorkerRestarts
  PROVE  MangaInv'
<1>1. /\ Mishap /\ bucket' = NoBucket /\ delivery' = [d \in Deliverers |-> Idle] /\ history' \in BOOLEAN
      /\ UNCHANGED <<circumstances, sent, chapter, site, channel>>
  BY DEF WorkerRestarts
<1>2. mishaps' \in 0..circumstances.mishaps /\ mishaps \in Nat /\ mishaps' = mishaps + 1
  BY <1>1, MishapFacts, MangaTypes
<1>3. Elements(<<>>) = {} /\ Distinct(<<>>) /\ <<>> \in PageSeqs
  BY DEF Elements, Distinct, PageSeqs
<1>4. BucketShape(bucket', sent', circumstances.edits)
  BY <1>1, <1>3 DEF BucketShape, NoBucket
<1>5. MangaVarsOK'
  BY <1>1, <1>2, <1>4 DEF MangaInv, MangaShape, MangaVarsOK
<1>6. Idle \in DeliveryType /\ Idle.at = "idle"
  BY IdleType DEF Idle
<1>7. MangaShape'
  <2>1. DeliveryShape(Idle, chapter, site, circumstances.edits)
    BY IdleShape, MangaTypes
  <2>. QED
    BY <1>1, <1>5, <1>6, <2>1 DEF MangaShape
<1>8. MangaPosts'
  <2>1. ASSUME NEW i \in ChannelItems PROVE channel[i] <= 1 + mishaps' /\ channel[i] <= mishaps'
    <3>1. channel[i] \in Nat /\ channel[i] <= 1 + mishaps
      BY MangaTypes DEF MangaInv, MangaPosts
    <3>. QED
      BY <1>2, <3>1
  <2>2. \A e \in Deliverers : delivery'[e].at # "sending"
    BY <1>1, <1>6
  <2>. QED
    BY <1>1, <2>1, <2>2 DEF MangaPosts, D
<1>9. circumstances.atOnce = 1 => MangaAlone'
  <2>1. \A e \in Deliverers : ~(delivery'[e].at # "idle")
    BY <1>1, <1>6
  <2>2. mishaps' # 0
    BY <1>2
  <2>. QED
    BY <1>1, <2>1, <2>2 DEF MangaInv, MangaAlone, Busy, D
<1>. QED
  BY <1>1, <1>7, <1>8, <1>9 DEF MangaInv

LEMMA MangaStarts == MangaInit => MangaInv
<1>. SUFFICES ASSUME MangaInit PROVE MangaInv
  OBVIOUS
<1>1. /\ circumstances \in Conditions /\ history \in BOOLEAN
      /\ bucket = NoBucket /\ chapter = NoChapter
      /\ site = <<>> /\ channel = [i \in ChannelItems |-> 0]
      /\ delivery = [d \in Deliverers |-> Idle] /\ mishaps = 0
      /\ sent \in {0, 1} /\ (~history => sent = 0)
  BY DEF MangaInit, ChannelItems
<1>2. circumstances.pages \in 1..MaxPages /\ circumstances.mishaps \in Nat /\ MaxPages \in Nat
  BY <1>1, MangaAssumption
<1>3. sent \in 0..circumstances.pages /\ mishaps \in 0..circumstances.mishaps
  BY <1>1, <1>2
<1>4. Elements(<<>>) = {} /\ Distinct(<<>>) /\ <<>> \in PageSeqs /\ Len(<<>>) = 0
  BY DEF Elements, Distinct, PageSeqs
<1>5. Idle \in DeliveryType /\ Idle.at = "idle" /\ NoChapter \in ChapterType
  BY IdleType DEF Idle
<1>6. NoChapter.exists = FALSE /\ NoChapter.pages = <<>> /\ NoChapter.siteCount = 0
  BY DEF NoChapter
<1>7. Images(<<>>) = <<>>
  BY <1>4, ImagesFacts
<1>8. BucketShape(bucket, sent, circumstances.edits)
  BY <1>1, <1>4 DEF BucketShape, NoBucket
<1>9. ChapterShape(chapter, site, circumstances.edits)
  BY <1>1, <1>4, <1>5, <1>6, <1>7 DEF ChapterShape
<1>10. Album \in ChannelItems /\ channel[Album] = 0
  BY <1>1 DEF ChannelItems
<1>11. MangaShape
  <2>1. MangaVarsOK
    BY <1>1, <1>3, <1>4, <1>8, <1>9, <1>10 DEF MangaVarsOK
  <2>2. DeliveryShape(Idle, chapter, site, circumstances.edits)
    BY <1>1, <1>5, IdleShape
  <2>. QED
    BY <1>1, <1>5, <2>1, <2>2 DEF MangaShape
<1>12. \A e \in Deliverers : delivery[e].at = "idle"
  BY <1>1, <1>5
<1>13. MangaPosts
  BY <1>1, <1>12 DEF MangaPosts, D
<1>14. MangaAlone
  <2>1. ~history => 1..sent = {}
    BY <1>1
  <2>. QED
    BY <1>1, <1>4, <1>6, <1>7, <1>12, <2>1 DEF MangaAlone, Busy, D
<1>. QED
  BY <1>11, <1>13, <1>14 DEF MangaInv

LEMMA MangaSteps == MangaInv /\ [MangaNext]_mangaVars => MangaInv'
<1>. SUFFICES ASSUME MangaInv, [MangaNext]_mangaVars PROVE MangaInv'
  OBVIOUS
<1>1. CASE UNCHANGED mangaVars
  <2>. USE <1>1 DEF mangaVars
  <2>1. MangaShape'
    BY DEF MangaInv, MangaShape, MangaVarsOK
  <2>2. MangaPosts'
    BY DEF MangaInv, MangaPosts, D
  <2>3. circumstances.atOnce = 1 => MangaAlone'
    BY DEF MangaInv, MangaAlone, Busy, D
  <2>. QED
    BY <2>1, <2>2, <2>3 DEF MangaInv
<1>2. ASSUME NEW d \in Deliverers, DeliveryStep(d) PROVE MangaInv'
  <2>1. CASE Uploads(d) BY <2>1, UploadsKeepsPages
  <2>2. CASE LoadsStored(d) BY <2>2, LoadsKeepsPages
  <2>3. CASE Stores(d) BY <2>3, StoresKeepsPages
  <2>4. CASE Lists(d) BY <2>4, ListsKeepsPages
  <2>5. CASE Posts(d) BY <2>5, PostsKeepsPages
  <2>6. CASE Marks(d) BY <2>6, MarksKeepsPages
  <2>7. CASE Decides(d) BY <2>7, DecidesKeepsPages
  <2>8. CASE Locks(d) BY <2>8, LocksKeepsPages
  <2>9. CASE Sends(d) BY <2>9, SendsKeepsPages
  <2>10. CASE Records(d) BY <2>10, RecordsKeepsPages
  <2>11. CASE Fails(d) BY <2>11, FailsKeepsPages
  <2>. QED
    BY <1>2, <2>1, <2>2, <2>3, <2>4, <2>5, <2>6, <2>7, <2>8, <2>9, <2>10, <2>11 DEF DeliveryStep
<1>3. CASE AddPage BY <1>3, AddPageKeepsPages
<1>4. CASE EditPage BY <1>4, EditPageKeepsPages
<1>5. CASE Sweep BY <1>5, SweepKeepsPages
<1>6. CASE BackfillChat BY <1>6, BackfillKeepsPages
<1>7. CASE WorkerRestarts BY <1>7, WorkerRestartsKeepsPages
<1>8. ASSUME NEW d \in Deliverers, Checkpoint(d) \/ Flush(d) PROVE MangaInv'
  BY <1>8, TakesKeepsPages
<1>. QED
  BY <1>1, <1>2, <1>3, <1>4, <1>5, <1>6, <1>7, <1>8 DEF MangaNext

LEMMA MangaKept == MangaInv => PagesAreKept
<1>. SUFFICES ASSUME MangaInv PROVE PagesAreKept
  OBVIOUS
<1>1. /\ circumstances \in Conditions /\ history \in BOOLEAN
      /\ sent \in 0..circumstances.pages /\ mishaps \in 0..circumstances.mishaps
      /\ site \in PageSeqs /\ channel \in [ChannelItems -> Nat]
      /\ channel[Album] > 0 => site # <<>>
      /\ BucketShape(bucket, sent, circumstances.edits)
      /\ ChapterShape(chapter, site, circumstances.edits)
      /\ delivery \in [Deliverers -> DeliveryType]
  BY DEF MangaInv, MangaShape, MangaVarsOK
<1>2. MangaTypeOK
  <2>1. sent \in 0..MaxPages
    <3>1. circumstances.pages \in 1..MaxPages
      BY <1>1, MangaAssumption
    <3>2. sent \in Nat /\ sent <= circumstances.pages /\ circumstances.pages <= MaxPages
      BY <1>1, <3>1, MangaConstants
    <3>. QED
      BY <3>1, <3>2, MangaConstants
  <2>2. chapter.siteCount \in 0..Len(Images(chapter.pages))
    BY <1>1, MangaTypes DEF ChapterShape
  <2>3. bucket.open \in BOOLEAN /\ bucket.pages \in PageSeqs /\ (~bucket.open => bucket.pages = <<>>)
    BY <1>1 DEF BucketShape
  <2>4. chapter.pages \in PageSeqs /\ chapter.sent \subseteq ChannelItems /\ chapter.attempts \in 0..MaxAttempts
    BY MangaTypes
  <2>5. \A d \in Deliverers : delivery[d].at \in Steps /\ delivery[d].pages \in PageSeqs
    BY <1>1 DEF DeliveryType
  <2>. QED
    BY <1>1, <2>1, <2>2, <2>3, <2>4, <2>5 DEF MangaTypeOK, ChannelItems
<1>3. NoPageTwice
  BY <1>1 DEF NoPageTwice, ChapterShape, Distinct
<1>4. ImagesKept
  <2>. SUFFICES ASSUME circumstances.atOnce = 1, mishaps = 0, ~history, NEW p \in (1..sent) \ Videos
                PROVE  \/ p \in Elements(chapter.pages) \cup Elements(bucket.pages)
                       \/ \E d \in Deliverers : p \in Elements(D(d).pages) \cup Elements(D(d).batch)
    BY DEF ImagesKept
  <2>. QED
    BY DEF MangaInv, MangaAlone, InHand, D
<1>5. SiteCountIsTrue
  BY DEF SiteCountIsTrue, MangaInv, MangaAlone
<1>6. ChannelFollowsSite
  BY <1>1 DEF ChannelFollowsSite
<1>7. PostedOnce
  BY DEF PostedOnce, MangaInv, MangaPosts, ChannelItems
<1>. QED
  BY <1>2, <1>3, <1>4, <1>5, <1>6, <1>7 DEF PagesAreKept

(* The pages of a chapter are stored once and none is lost on the way, the
   count the database keeps of the site is true, and the channel follows the
   site and gets everything once (manga/telegram_worker.py and publisher.py):
   for every thread, every batch size and every set of conditions. *)
THEOREM MangaPagesKept == MangaSpec => []PagesAreKept
<1>1. MangaSpec => []MangaInv
  BY MangaStarts, MangaSteps, PTL DEF MangaSpec
<1>. QED
  BY <1>1, MangaKept, PTL
===============================================================================
