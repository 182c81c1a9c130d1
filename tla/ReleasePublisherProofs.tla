----------------------- MODULE ReleasePublisherProofs -----------------------
(***************************************************************************)
(* The release publisher for any jobs, commits, builds, files, attempts    *)
(* and faults: what is published is at its tag however jobs overlap; and   *)
(* as long as they do not, it is complete, it stays as it is, and failed   *)
(* jobs leave the version in a state from which the next job succeeds.     *)
(***************************************************************************)
EXTENDS ReleasePublisher, FiniteSetTheorems, TLAPS

-----------------------------------------------------------------------------
(* The inductive invariant.                                                 *)

\* The file at position i is there, as the job built it.
Matched(j, i) == AssetMatches(releases[Id(j)].assets[AssetNames[i]], j)

AllMatched(j) == \A i \in DOMAIN AssetNames : Matched(j, i)

\* Nothing is published.
Drafts == \A id \in Live : releases[id].draft

\* The release the job works on is of its commit.
Pinned(j) ==
    /\ Id(j) \in Live
    /\ releases[Id(j)].target = job[j].commit /\ ~releases[Id(j)].prerelease

\* The tag is not another commit's.
TagFree(j) == tag \in {None, job[j].commit}

\* What find_release saw is still so.
Seen(j) ==
    LET r == job[j].release
    IN  \/ r = None /\ Live = {}
        \/ /\ r # None /\ Live = {r.id}
           /\ releases[r.id].draft = r.draft
           /\ releases[r.id].prerelease = r.prerelease
           /\ releases[r.id].target = r.target

\* sync_draft_assets has dealt with the files before the next one; those after it
\* are as they were listed.
Synced(j) ==
    LET n == job[j].next
    IN  \A i \in DOMAIN AssetNames :
           /\ i < n => Matched(j, i)
           /\ i > n => releases[Id(j)].assets[AssetNames[i]] = job[j].listed[AssetNames[i]]

\* The next file: its old version is as it was listed, or it is not there.
NextIs(j, asset) == releases[Id(j)].assets[AssetNames[job[j].next]] = asset

\* Only the listed extra files are there.
ExtrasListed(j) ==
    /\ job[j].listed # None
    /\ \A n \in ExtraNames \ job[j].extras : releases[Id(j)].assets[n] = None
    /\ job[j].clean => \A n \in job[j].extras :
          /\ releases[Id(j)].assets[n] # None
          /\ releases[Id(j)].assets[n] = job[j].listed[n]

Preparing == {"list", "delete_asset", "upload", "extras", "delete_extra",
              "verify", "ensure_tag", "create_tag", "confirm_tag"}

Filled == {"extras", "delete_extra", "verify"}

Verified == {"ensure_tag", "create_tag", "confirm_tag", "publish", "check_tag"}

\* What a job that runs alone can rely on where it stands; on less if one of its
\* requests was lost.
Phase(j) ==
    LET pc == job[j].pc
        oldAsset == job[j].listed[AssetNames[job[j].next]]
    IN  /\ pc = "inspect" => Seen(j)
        /\ pc = "delete" =>
              tag = None /\ Live \subseteq {Id(j)} /\ (job[j].clean => Id(j) \in Live)
        /\ pc = "create" => Drafts /\ TagFree(j)
        /\ pc = "retarget" => Drafts /\ TagFree(j) /\ Id(j) \in Live
        /\ pc \in Preparing => Drafts /\ TagFree(j) /\ Pinned(j)
        /\ pc \in {"delete_asset", "upload"} => Synced(j)
        /\ pc = "delete_asset" /\ job[j].clean => oldAsset # None /\ NextIs(j, oldAsset)
        /\ pc = "upload" /\ job[j].clean => NextIs(j, None)
        /\ pc \in Filled => AllMatched(j)
        /\ pc = "delete_extra" => ExtrasListed(j)
        /\ pc = "verify" => \A n \in ExtraNames : releases[Id(j)].assets[n] = None
        /\ pc \in Verified => VerifyRemoteAssets(releases[Id(j)].assets, j)
        /\ pc = "confirm_tag" => tag = job[j].commit
        /\ pc = "publish" =>
              /\ tag = job[j].commit /\ Pinned(j)
              /\ \A id \in Live \ {Id(j)} : releases[id].draft
              /\ releases[Id(j)].draft \/ releases[Id(j)].publisher = j
        /\ pc = "check_tag" => tag = job[j].commit /\ Published(Id(j))
        /\ pc = "verify_published" => tag = job[j].commit /\ Published(Id(j))

\* Why a job may fail that lost no request: the version is taken.
Taken(c) ==
    \/ tag \notin {None, c}
    \/ Cardinality(Live) > 1
    \/ \E id \in Live : Published(id) /\ tag = c

Alone == \A j, k \in Jobs : Running(j) /\ Running(k) => j = k

\* As long as jobs have not overlapped.
SoloOK ==
    ~overlapped =>
        /\ Alone
        /\ \A j \in Jobs : Running(j) => Phase(j)
        /\ \A j \in Jobs : job[j].pc = "failed" /\ job[j].clean => Taken(job[j].commit)

\* However they overlap.
TagOK ==
    /\ \A j \in Jobs : job[j].pc = "publish" => tag = job[j].commit
    /\ \A id \in Live : Published(id) /\ Ours(id) =>
          releases[id].target = tag /\ tag # None

IInv == TypeOK /\ TagOK /\ SoloOK /\ PublishedIsComplete

-----------------------------------------------------------------------------
(* Types.                                                                   *)

JobType == [pc: Steps, attempt: 1..MaxAttempts, commit: Commits \cup {None},
            build: Builds \cup {None}, release: Found \cup {None},
            listed: [Names -> Asset \cup {None}] \cup {None}, next: Nat,
            extras: SUBSET ExtraNames, clean: BOOLEAN]

Syncing == {"delete_asset", "upload"}

\* The part of TypeOK about the jobs.
JobsOK(f) ==
    /\ f \in [Jobs -> JobType]
    /\ \A j \in Jobs : f[j].pc # "new" => f[j].build \in Builds /\ f[j].commit = f[j].build[1]
    /\ \A j \in Jobs : f[j].pc \in Syncing =>
          f[j].listed # None /\ f[j].next \in DOMAIN AssetNames

LEMMA Assumptions ==
    /\ AssetNames \in Seq(Names) /\ MaxAttempts \in Nat /\ MaxAttempts >= 1
    /\ \A i \in DOMAIN AssetNames : AssetNames[i] \in Names /\ AssetNames[i] \notin ExtraNames
    /\ \A i, j \in DOMAIN AssetNames : AssetNames[i] = AssetNames[j] => i = j
    /\ ExtraNames \subseteq Names
    /\ None \notin Commits /\ None \notin Builds /\ None \notin Jobs
    /\ None \notin Asset /\ None \notin Release /\ None \notin Found
    /\ None \notin [Names -> Asset \cup {None}]
    /\ MaxFaults \in Nat
BY PublisherAssumption DEF Names

LEMMA TypesAreJobs ==
    TypeOK <=> /\ releases \in Seq(Release \cup {None}) /\ tag \in Commits \cup {None}
               /\ JobsOK(job)
               /\ faults \in 0..MaxFaults /\ overlapped \in BOOLEAN
BY DEF TypeOK, JobsOK, JobType, Syncing

\* A job that goes on is still of its build, and has lost no more requests.
KeepsBuild(r, s) == s.commit = r.commit /\ s.build = r.build /\ s.clean = r.clean

\* What moving on does to a job.
LEMMA AtJob ==
    ASSUME JobsOK(job), NEW j \in Jobs, job[j].pc # "new", NEW pc \in Steps, pc # "new",
           pc \in Syncing => job[j].pc \in Syncing
    PROVE  LET f == At(j, pc)
           IN  /\ JobsOK(f) /\ \A k \in Jobs \ {j} : f[k] = job[k]
               /\ f[j].pc = pc /\ KeepsBuild(job[j], f[j])
               /\ f[j].release = job[j].release /\ f[j].listed = job[j].listed
               /\ f[j].next = job[j].next /\ f[j].extras = job[j].extras
<1> DEFINE r == [job[j] EXCEPT !.pc = pc, !.attempt = 1]
<1>1. 1 \in 1..MaxAttempts
  BY Assumptions
<1>2. job[j] \in JobType
  BY DEF JobsOK
<1>3. /\ r \in JobType /\ r.pc = pc /\ KeepsBuild(job[j], r)
      /\ r.release = job[j].release /\ r.listed = job[j].listed
      /\ r.next = job[j].next /\ r.extras = job[j].extras
  BY <1>1, <1>2 DEF JobType, KeepsBuild
<1>4. At(j, pc) = [job EXCEPT ![j] = r]
  BY DEF At
<1>5. At(j, pc)[j] = r /\ \A k \in Jobs \ {j} : At(j, pc)[k] = job[k]
  <2> HIDE DEF r
  <2> QED BY <1>4 DEF JobsOK
<1>6. At(j, pc) \in [Jobs -> JobType]
  <2> HIDE DEF r
  <2> QED BY <1>3, <1>4 DEF JobsOK
<1>7. JobsOK(At(j, pc))
  <2> HIDE DEF r
  <2>1. r.build \in Builds /\ r.commit = r.build[1]
    BY <1>3 DEF JobsOK, KeepsBuild
  <2>2. r.pc \in Syncing => r.listed # None /\ r.next \in DOMAIN AssetNames
    BY <1>3 DEF JobsOK
  <2> QED BY <2>1, <2>2, <1>5, <1>6 DEF JobsOK
<1> HIDE DEF r
<1> QED BY <1>3, <1>5, <1>7

LEMMA FailedJob ==
    ASSUME JobsOK(job), NEW j \in Jobs, job[j].pc # "new"
    PROVE  /\ JobsOK(Failed(j)) /\ Failed(j)[j].pc = "failed"
           /\ KeepsBuild(job[j], Failed(j)[j])
           /\ \A k \in Jobs \ {j} : Failed(j)[k] = job[k]
<1>1. "failed" \in Steps /\ "failed" # "new" /\ "failed" \notin Syncing
  BY DEF Steps, Syncing
<1>2. /\ JobsOK(At(j, "failed")) /\ At(j, "failed")[j].pc = "failed"
      /\ KeepsBuild(job[j], At(j, "failed")[j])
      /\ \A k \in Jobs \ {j} : At(j, "failed")[k] = job[k]
  BY <1>1, AtJob
<1> QED BY <1>2 DEF Failed

\* What a job that lost a request goes on with.
LEMMA LostJob ==
    ASSUME JobsOK(job), NEW j \in Jobs, job[j].pc # "new", NEW retry \in BOOLEAN
    PROVE  LET f == Lost(j, retry)
           IN  /\ JobsOK(f) /\ \A k \in Jobs \ {j} : f[k] = job[k]
               /\ ~f[j].clean /\ f[j].commit = job[j].commit /\ f[j].build = job[j].build
               /\ \/ f[j].pc = "failed"
                  \/ /\ f[j].pc = job[j].pc /\ f[j].release = job[j].release
                     /\ f[j].listed = job[j].listed /\ f[j].next = job[j].next
                     /\ f[j].extras = job[j].extras
<1>1. job[j] \in JobType
  BY DEF JobsOK
<1>2. CASE retry /\ job[j].attempt < MaxAttempts
  <2> DEFINE r == [job[j] EXCEPT !.attempt = @ + 1, !.clean = FALSE]
  <2>1. job[j].attempt + 1 \in 1..MaxAttempts
    BY <1>1, <1>2, Assumptions DEF JobType
  <2>2. /\ r \in JobType /\ r.pc = job[j].pc /\ ~r.clean
        /\ r.build = job[j].build /\ r.commit = job[j].commit
        /\ r.release = job[j].release /\ r.listed = job[j].listed
        /\ r.next = job[j].next /\ r.extras = job[j].extras
    BY <1>1, <2>1 DEF JobType
  <2>3. Lost(j, retry) = [job EXCEPT ![j] = r]
    BY <1>2 DEF Lost
  <2>4. Lost(j, retry)[j] = r /\ \A k \in Jobs \ {j} : Lost(j, retry)[k] = job[k]
    <3> HIDE DEF r
    <3> QED BY <2>3 DEF JobsOK
  <2>5. Lost(j, retry) \in [Jobs -> JobType]
    <3> HIDE DEF r
    <3> QED BY <2>2, <2>3 DEF JobsOK
  <2> HIDE DEF r
  <2>6. JobsOK(Lost(j, retry))
    BY <2>2, <2>4, <2>5 DEF JobsOK
  <2> QED BY <2>2, <2>4, <2>6
<1>3. CASE ~(retry /\ job[j].attempt < MaxAttempts)
  <2> DEFINE f == Failed(j)
             r == [f[j] EXCEPT !.clean = FALSE]
  <2>1. /\ JobsOK(f) /\ f[j].pc = "failed" /\ \A k \in Jobs \ {j} : f[k] = job[k]
        /\ f[j].commit = job[j].commit /\ f[j].build = job[j].build
    BY FailedJob DEF KeepsBuild
  <2> HIDE DEF f
  <2>2. f[j] \in JobType
    BY <2>1 DEF JobsOK
  <2>3. /\ r \in JobType /\ r.pc = "failed" /\ ~r.clean
        /\ r.build = f[j].build /\ r.commit = f[j].commit
    BY <2>1, <2>2 DEF JobType
  <2>4. Lost(j, retry) = [f EXCEPT ![j] = r]
    BY <1>3 DEF Lost, f
  <2> HIDE DEF r
  <2>5. Lost(j, retry)[j] = r /\ \A k \in Jobs \ {j} : Lost(j, retry)[k] = f[k]
    BY <2>1, <2>4 DEF JobsOK
  <2>6. Lost(j, retry) \in [Jobs -> JobType]
    BY <2>1, <2>3, <2>4 DEF JobsOK
  <2>7. Lost(j, retry)[j].pc \notin Syncing
    BY <2>3, <2>5 DEF Syncing
  <2>8. JobsOK(Lost(j, retry))
    BY <2>1, <2>3, <2>5, <2>6, <2>7 DEF JobsOK
  <2> QED BY <2>1, <2>3, <2>5, <2>8
<1> QED BY <1>2, <1>3

\* The outcomes of a mutating request.
LEMMA CallOutcomes ==
    ASSUME NEW j \in Jobs, NEW accepted, NEW served, NEW onward, NEW rejected, NEW retry,
           Call(j, accepted, served, onward, rejected, retry)
    PROVE  /\ overlapped' = overlapped
           /\ faults \in 0..MaxFaults => faults' \in 0..MaxFaults
           /\ \/ /\ accepted /\ releases' = served.releases /\ tag' = served.tag
                 /\ job' = onward
              \/ /\ ~accepted /\ UNCHANGED <<releases, tag>>
                 /\ job' = rejected
              \/ /\ accepted /\ releases' = served.releases /\ tag' = served.tag
                 /\ job' = Lost(j, retry)
              \/ /\ UNCHANGED <<releases, tag>>
                 /\ job' = Lost(j, retry)
<1>1. faults < MaxFaults /\ faults \in 0..MaxFaults => faults + 1 \in 0..MaxFaults
  BY Assumptions
<1> QED BY <1>1 DEF Call

\* A request whose continuations and effects have their types keeps the types.
LEMMA CallTypes ==
    ASSUME TypeOK, NEW j \in Jobs, job[j].pc # "new",
           NEW accepted, NEW served, NEW onward, NEW rejected, NEW retry \in BOOLEAN,
           JobsOK(onward), JobsOK(rejected),
           accepted => /\ served.releases \in Seq(Release \cup {None})
                       /\ served.tag \in Commits \cup {None},
           Call(j, accepted, served, onward, rejected, retry)
    PROVE  TypeOK'
<1>1. JobsOK(job) /\ JobsOK(Lost(j, retry))
  BY LostJob, TypesAreJobs
<1>2. JobsOK(job')
  BY <1>1, CallOutcomes
<1>3. releases' \in Seq(Release \cup {None}) /\ tag' \in Commits \cup {None}
  BY CallOutcomes, TypesAreJobs
<1>4. faults' \in 0..MaxFaults /\ overlapped' \in BOOLEAN
  BY CallOutcomes, TypesAreJobs
<1> QED BY <1>2, <1>3, <1>4 DEF TypeOK, JobsOK, JobType, Syncing

-----------------------------------------------------------------------------
(* What the reads leave in the hands of a job.                              *)

Remember(j, pc, release) == [At(j, pc) EXCEPT ![j].release = release]

LEMMA FoundJob ==
    ASSUME JobsOK(job), NEW j \in Jobs, job[j].pc # "new",
           NEW pc \in Steps, pc # "new", pc \notin Syncing, NEW release \in Found \cup {None}
    PROVE  LET f == Remember(j, pc, release)
           IN  /\ JobsOK(f) /\ \A k \in Jobs \ {j} : f[k] = job[k]
               /\ f[j].pc = pc /\ KeepsBuild(job[j], f[j])
               /\ f[j].release = release
<1> DEFINE f == Remember(j, pc, release)
           r == [job[j] EXCEPT !.pc = pc, !.attempt = 1, !.release = release]
<1>1. job[j] \in JobType /\ 1 \in 1..MaxAttempts
  BY Assumptions DEF JobsOK
<1>2. /\ r \in JobType /\ r.pc = pc /\ KeepsBuild(job[j], r)
      /\ r.release = release
  BY <1>1 DEF JobType, KeepsBuild
<1>3. f = [job EXCEPT ![j] = r]
  BY DEF At, JobsOK, Remember
<1> HIDE DEF f, r
<1>4. f[j] = r /\ \A k \in Jobs \ {j} : f[k] = job[k]
  BY <1>3 DEF JobsOK
<1>5. f \in [Jobs -> JobType]
  BY <1>2, <1>3 DEF JobsOK
<1>6. JobsOK(f)
  <2>1. r.build \in Builds /\ r.commit = r.build[1]
    BY <1>2 DEF JobsOK, KeepsBuild
  <2> QED BY <2>1, <1>2, <1>4, <1>5 DEF JobsOK
<1> QED BY <1>2, <1>4, <1>6 DEF f

Listing(j, pc, listed) == [At(j, pc) EXCEPT ![j].listed = listed]

LEMMA ListedJob ==
    ASSUME JobsOK(job), NEW j \in Jobs, job[j].pc # "new",
           NEW pc \in Steps, pc # "new", pc \notin Syncing, NEW listed \in [Names -> Asset \cup {None}]
    PROVE  LET f == Listing(j, pc, listed)
           IN  /\ JobsOK(f) /\ \A k \in Jobs \ {j} : f[k] = job[k]
               /\ f[j].pc = pc /\ KeepsBuild(job[j], f[j])
               /\ f[j].release = job[j].release /\ f[j].listed = listed
<1> DEFINE f == Listing(j, pc, listed)
           r == [job[j] EXCEPT !.pc = pc, !.attempt = 1, !.listed = listed]
<1>1. job[j] \in JobType /\ 1 \in 1..MaxAttempts
  BY Assumptions DEF JobsOK
<1>2. /\ r \in JobType /\ r.pc = pc /\ KeepsBuild(job[j], r)
      /\ r.release = job[j].release /\ r.listed = listed
  BY <1>1 DEF JobType, KeepsBuild
<1>3. f = [job EXCEPT ![j] = r]
  BY DEF At, JobsOK, Listing
<1> HIDE DEF f, r
<1>4. f[j] = r /\ \A k \in Jobs \ {j} : f[k] = job[k]
  BY <1>3 DEF JobsOK
<1>5. f \in [Jobs -> JobType]
  BY <1>2, <1>3 DEF JobsOK
<1>6. JobsOK(f)
  <2>1. r.build \in Builds /\ r.commit = r.build[1]
    BY <1>2 DEF JobsOK, KeepsBuild
  <2> QED BY <2>1, <1>2, <1>4, <1>5 DEF JobsOK
<1> QED BY <1>2, <1>4, <1>6 DEF f

Stopping(j, pc, listed, next) == [At(j, pc) EXCEPT ![j].listed = listed, ![j].next = next]

LEMMA NextJob ==
    ASSUME JobsOK(job), NEW j \in Jobs, job[j].pc # "new",
           NEW pc \in Steps, pc # "new", NEW listed \in [Names -> Asset \cup {None}],
           NEW next \in DOMAIN AssetNames
    PROVE  LET f == Stopping(j, pc, listed, next)
           IN  /\ JobsOK(f) /\ \A k \in Jobs \ {j} : f[k] = job[k]
               /\ f[j].pc = pc /\ KeepsBuild(job[j], f[j])
               /\ f[j].release = job[j].release /\ f[j].listed = listed /\ f[j].next = next
<1> DEFINE f == Stopping(j, pc, listed, next)
           r == [job[j] EXCEPT !.pc = pc, !.attempt = 1, !.listed = listed, !.next = next]
<1>1. /\ job[j] \in JobType /\ 1 \in 1..MaxAttempts
      /\ next \in Nat /\ listed # None
  BY Assumptions DEF JobsOK
<1>2. /\ r \in JobType /\ r.pc = pc /\ KeepsBuild(job[j], r)
      /\ r.release = job[j].release /\ r.listed = listed /\ r.next = next
  BY <1>1 DEF JobType, KeepsBuild
<1>3. f = [job EXCEPT ![j] = r]
  BY DEF At, JobsOK, Stopping
<1> HIDE DEF f, r
<1>4. f[j] = r /\ \A k \in Jobs \ {j} : f[k] = job[k]
  BY <1>3 DEF JobsOK
<1>5. f \in [Jobs -> JobType]
  BY <1>2, <1>3 DEF JobsOK
<1>6. JobsOK(f)
  <2>1. r.build \in Builds /\ r.commit = r.build[1]
    BY <1>2 DEF JobsOK, KeepsBuild
  <2> QED BY <2>1, <1>1, <1>2, <1>4, <1>5 DEF JobsOK
<1> QED BY <1>2, <1>4, <1>6 DEF f

ListingExtras(j, pc, listed, extras) == [At(j, pc) EXCEPT ![j].listed = listed, ![j].extras = extras]

LEMMA ExtrasJob ==
    ASSUME JobsOK(job), NEW j \in Jobs, job[j].pc # "new",
           NEW pc \in Steps, pc # "new", pc \notin Syncing, NEW listed \in [Names -> Asset \cup {None}],
           NEW extras \in SUBSET ExtraNames
    PROVE  LET f == ListingExtras(j, pc, listed, extras)
           IN  /\ JobsOK(f) /\ \A k \in Jobs \ {j} : f[k] = job[k]
               /\ f[j].pc = pc /\ KeepsBuild(job[j], f[j])
               /\ f[j].release = job[j].release /\ f[j].listed = listed /\ f[j].extras = extras
<1> DEFINE f == ListingExtras(j, pc, listed, extras)
           r == [job[j] EXCEPT !.pc = pc, !.attempt = 1, !.listed = listed,
                               !.extras = extras]
<1>1. job[j] \in JobType /\ 1 \in 1..MaxAttempts
  BY Assumptions DEF JobsOK
<1>2. /\ r \in JobType /\ r.pc = pc /\ KeepsBuild(job[j], r)
      /\ r.release = job[j].release /\ r.listed = listed /\ r.extras = extras
  BY <1>1 DEF JobType, KeepsBuild
<1>3. f = [job EXCEPT ![j] = r]
  BY DEF At, JobsOK, ListingExtras
<1> HIDE DEF f, r
<1>4. f[j] = r /\ \A k \in Jobs \ {j} : f[k] = job[k]
  BY <1>3 DEF JobsOK
<1>5. f \in [Jobs -> JobType]
  BY <1>2, <1>3 DEF JobsOK
<1>6. JobsOK(f)
  <2>1. r.build \in Builds /\ r.commit = r.build[1]
    BY <1>2 DEF JobsOK, KeepsBuild
  <2> QED BY <2>1, <1>2, <1>4, <1>5 DEF JobsOK
<1> QED BY <1>2, <1>4, <1>6 DEF f

WithoutExtra(j, pc, name) == [At(j, pc) EXCEPT ![j].extras = @ \ {name}]

LEMMA DeletedJob ==
    ASSUME JobsOK(job), NEW j \in Jobs, job[j].pc # "new",
           NEW pc \in Steps, pc # "new", pc \notin Syncing, NEW name
    PROVE  LET f == WithoutExtra(j, pc, name)
           IN  /\ JobsOK(f) /\ \A k \in Jobs \ {j} : f[k] = job[k]
               /\ f[j].pc = pc /\ KeepsBuild(job[j], f[j])
               /\ f[j].release = job[j].release /\ f[j].listed = job[j].listed /\ f[j].extras = job[j].extras \ {name}
<1> DEFINE f == WithoutExtra(j, pc, name)
           r == [job[j] EXCEPT !.pc = pc, !.attempt = 1, !.extras = @ \ {name}]
<1>1. job[j] \in JobType /\ 1 \in 1..MaxAttempts
  BY Assumptions DEF JobsOK
<1>2. /\ r \in JobType /\ r.pc = pc /\ KeepsBuild(job[j], r)
      /\ r.release = job[j].release /\ r.listed = job[j].listed /\ r.extras = job[j].extras \ {name}
  BY <1>1 DEF JobType, KeepsBuild
<1>3. f = [job EXCEPT ![j] = r]
  BY DEF At, JobsOK, WithoutExtra
<1> HIDE DEF f, r
<1>4. f[j] = r /\ \A k \in Jobs \ {j} : f[k] = job[k]
  BY <1>3 DEF JobsOK
<1>5. f \in [Jobs -> JobType]
  BY <1>2, <1>3 DEF JobsOK
<1>6. JobsOK(f)
  <2>1. r.build \in Builds /\ r.commit = r.build[1]
    BY <1>2 DEF JobsOK, KeepsBuild
  <2> QED BY <2>1, <1>2, <1>4, <1>5 DEF JobsOK
<1> QED BY <1>2, <1>4, <1>6 DEF f

\* A nonempty set of natural numbers has a least element.
LEMMA LeastElement ==
    ASSUME NEW S \in SUBSET Nat, S # {}
    PROVE  \E n \in S : \A m \in S : n <= m
<1> DEFINE R == OpToRel(<, Nat)
<1>1. IsWellFoundedOn(R, Nat)
  BY NatLessThanWellFounded
<1>2. PICK n \in S : \A m \in S : ~(<<m, n>> \in R)
  <2> HIDE DEF R
  <2> QED BY <1>1, WFMin
<1>3. \A m \in S : ~(m < n)
  BY <1>2 DEF OpToRel
<1> QED BY <1>3

\* The file at position k needs no upload, going by a list of the files.
Fits(j, listed, k) == AssetMatches(listed[AssetNames[k]], j)

\* Sync stops at the first file that does not fit.
LEMMA SyncJob ==
    ASSUME JobsOK(job), NEW j \in Jobs, job[j].pc # "new",
           NEW listed \in [Names -> Asset \cup {None}], NEW i \in Nat, i >= 1
    PROVE  LET f == Sync(j, listed, i)
           IN  /\ JobsOK(f) /\ \A k \in Jobs \ {j} : f[k] = job[k]
               /\ KeepsBuild(job[j], f[j])
               /\ f[j].release = job[j].release /\ f[j].listed = listed
               /\ \/ /\ f[j].pc = "extras"
                     /\ \A k \in DOMAIN AssetNames : k >= i => Fits(j, listed, k)
                  \/ /\ f[j].next \in DOMAIN AssetNames /\ f[j].next >= i
                     /\ \A k \in DOMAIN AssetNames :
                           k >= i /\ k < f[j].next => Fits(j, listed, k)
                     /\ f[j].pc = IF listed[AssetNames[f[j].next]] = None
                                  THEN "upload" ELSE "delete_asset"
<1> DEFINE f == Sync(j, listed, i)
           open == {k \in i..Len(AssetNames) : ~AssetMatches(listed[AssetNames[k]], j)}
           n == CHOOSE n \in open : \A m \in open : n <= m
           pc == IF listed[AssetNames[n]] = None THEN "upload" ELSE "delete_asset"
<1>1. Len(AssetNames) \in Nat /\ DOMAIN AssetNames = 1..Len(AssetNames)
  BY Assumptions
<1>2. CASE open = {}
  <2>1. f = Listing(j, "extras", listed)
    BY <1>2 DEF Sync, Listing
  <2>2. "extras" \in Steps /\ "extras" # "new" /\ "extras" \notin Syncing
    BY DEF Steps, Syncing
  <2>3. /\ JobsOK(f) /\ \A k \in Jobs \ {j} : f[k] = job[k]
        /\ KeepsBuild(job[j], f[j]) /\ f[j].pc = "extras"
        /\ f[j].release = job[j].release /\ f[j].listed = listed
    <3> HIDE DEF f
    <3> QED BY <2>1, <2>2, ListedJob
  <2>4. \A k \in DOMAIN AssetNames : k >= i => Fits(j, listed, k)
    BY <1>1, <1>2 DEF Fits
  <2> QED BY <2>3, <2>4
<1>3. CASE open # {}
  <2>1. open \in SUBSET Nat
    BY <1>1
  <2>2. n \in open /\ \A m \in open : n <= m
    <3> HIDE DEF open
    <3> QED BY <1>3, <2>1, LeastElement
  <2>3. n \in DOMAIN AssetNames /\ n >= i /\ n \in Nat
    BY <1>1, <2>2
  <2>4. \A m \in DOMAIN AssetNames : m >= i /\ m < n => Fits(j, listed, m)
    <3> SUFFICES ASSUME NEW m \in DOMAIN AssetNames, m >= i, m < n PROVE Fits(j, listed, m)
      OBVIOUS
    <3>1. m \in i..Len(AssetNames) /\ m \notin open
      BY <1>1, <2>2, <2>3
    <3> HIDE DEF n
    <3> QED BY <3>1 DEF Fits
  <2>5. f = Stopping(j, pc, listed, n)
    BY <1>3 DEF Sync, Stopping
  <2>6. pc \in Steps /\ pc # "new"
    BY DEF Steps
  <2> HIDE DEF f, open, n, pc
  <2>7. /\ JobsOK(f) /\ \A k \in Jobs \ {j} : f[k] = job[k]
        /\ KeepsBuild(job[j], f[j]) /\ f[j].pc = pc
        /\ f[j].release = job[j].release /\ f[j].listed = listed /\ f[j].next = n
    BY <2>3, <2>5, <2>6, NextJob
  <2>8. pc = IF listed[AssetNames[n]] = None THEN "upload" ELSE "delete_asset"
    BY DEF pc
  <2> QED BY <2>3, <2>4, <2>7, <2>8 DEF f
<1> QED BY <1>2, <1>3

-----------------------------------------------------------------------------
(* What requests make of a release.                                         *)

Put(x, r) == [releases EXCEPT ![x] = r]

Retargeted(r, c) ==
    [r EXCEPT !.draft = TRUE, !.prerelease = FALSE, !.target = c, !.publisher = None]

PublishedBy(r, c, j) ==
    [r EXCEPT !.draft = FALSE, !.prerelease = FALSE, !.target = c, !.publisher = j]

WithAsset(r, name, asset) == [r EXCEPT !.assets[name] = asset]

\* Live releases are records.
LEMMA LiveTypes ==
    ASSUME TypeOK
    PROVE  /\ releases \in Seq(Release \cup {None}) /\ Live \subseteq DOMAIN releases
           /\ \A id \in Live : releases[id] \in Release
           /\ DOMAIN releases = 1..Len(releases) /\ Len(releases) \in Nat
BY DEF TypeOK, Live

LEMMA RetargetedRelease ==
    ASSUME NEW r \in Release, NEW c \in Commits
    PROVE  LET s == Retargeted(r, c)
           IN  /\ s \in Release /\ s.draft /\ ~s.prerelease /\ s.target = c
               /\ s.assets = r.assets /\ s.publisher = None
BY DEF Release, Retargeted

LEMMA PublishedRelease ==
    ASSUME NEW r \in Release, NEW c \in Commits, NEW j \in Jobs
    PROVE  LET s == PublishedBy(r, c, j)
           IN  /\ s \in Release /\ ~s.draft /\ ~s.prerelease /\ s.target = c
               /\ s.assets = r.assets /\ s.publisher = j
               /\ ~r.draft /\ ~r.prerelease /\ r.target = c /\ r.publisher = j => s = r
BY DEF Release, PublishedBy

LEMMA AssetRelease ==
    ASSUME NEW r \in Release, NEW name \in Names, NEW asset \in Asset \cup {None}
    PROVE  LET s == WithAsset(r, name, asset)
           IN  /\ s \in Release /\ s.draft = r.draft /\ s.prerelease = r.prerelease
               /\ s.target = r.target /\ s.publisher = r.publisher
               /\ s.assets[name] = asset
               /\ \A n \in Names : n # name => s.assets[n] = r.assets[n]
BY DEF Release, WithAsset

\* One release is replaced.
LEMMA PutReleases ==
    ASSUME TypeOK, NEW x \in Live, NEW r \in Release \cup {None}
    PROVE  LET rs == Put(x, r)
           IN  /\ rs \in Seq(Release \cup {None})
               /\ DOMAIN rs = DOMAIN releases
               /\ rs[x] = r /\ \A id \in DOMAIN releases : id # x => rs[id] = releases[id]
BY LiveTypes DEF Put

\* A draft is added.
LEMMA AppendReleases ==
    ASSUME TypeOK, NEW r \in Release
    PROVE  LET rs == Append(releases, r)
           IN  /\ rs \in Seq(Release \cup {None})
               /\ DOMAIN rs = DOMAIN releases \cup {Len(releases) + 1}
               /\ Len(releases) + 1 \notin DOMAIN releases
               /\ rs[Len(releases) + 1] = r
               /\ \A id \in DOMAIN releases : rs[id] = releases[id]
BY LiveTypes

NewDraft(c) ==
    [draft |-> TRUE, prerelease |-> FALSE, target |-> c,
     assets |-> [n \in Names |-> None], publisher |-> None]

LEMMA NewDraftRelease == ASSUME NEW c \in Commits PROVE NewDraft(c) \in Release
BY DEF NewDraft, Release

\* The jobs' parts of the state have their types.
LEMMA JobTypes ==
    ASSUME TypeOK, NEW j \in Jobs, job[j].pc # "new"
    PROVE  /\ JobsOK(job) /\ job[j] \in JobType
           /\ job[j].commit \in Commits /\ job[j].build \in Builds
           /\ job[j].commit # None /\ job[j].build # None
           /\ job[j].commit = job[j].build[1]
BY Assumptions, TypesAreJobs DEF JobsOK, Builds

-----------------------------------------------------------------------------
(* Every step keeps the types.                                              *)

LEMMA ReadTypes ==
    ASSUME TypeOK, NEW j \in Jobs, NEW pc, NEW onward, JobsOK(onward), Read(j, pc, onward)
    PROVE  TypeOK'
<1>1. JobsOK(job') /\ UNCHANGED <<releases, tag, faults, overlapped>>
  BY DEF Read
<1> QED BY <1>1, TypesAreJobs DEF TypeOK, JobsOK, JobType, Syncing

\* The jobs of a step that goes on at one of several steps.
LEMMA AtTypes ==
    ASSUME TypeOK, NEW j \in Jobs, job[j].pc # "new", NEW pc \in Steps, pc # "new",
           pc \in Syncing => job[j].pc \in Syncing
    PROVE  JobsOK(At(j, pc)) /\ JobsOK(Failed(j))
BY JobTypes, AtJob, FailedJob

\* What find_release returns to a job.
FoundNow ==
    IF Live = {} THEN None
    ELSE LET id == CHOOSE id \in Live : TRUE
         IN  [id |-> id, draft |-> releases[id].draft,
              prerelease |-> releases[id].prerelease, target |-> releases[id].target]

LEMMA FoundNowType ==
    ASSUME TypeOK
    PROVE  /\ FoundNow \in Found \cup {None}
           /\ Live = {} => FoundNow = None
           /\ Live # {} => /\ FoundNow \in Found /\ FoundNow.id \in Live
                           /\ FoundNow.draft = releases[FoundNow.id].draft
                           /\ FoundNow.prerelease = releases[FoundNow.id].prerelease
                           /\ FoundNow.target = releases[FoundNow.id].target
<1>1. CASE Live = {}
  BY <1>1 DEF FoundNow
<1>2. CASE Live # {}
  <2> DEFINE id == CHOOSE id \in Live : TRUE
  <2>1. id \in Live
    BY <1>2
  <2>2. id \in Nat /\ releases[id] \in Release
    BY <2>1, LiveTypes
  <2>3. FoundNow = [id |-> id, draft |-> releases[id].draft,
                    prerelease |-> releases[id].prerelease, target |-> releases[id].target]
    BY <1>2 DEF FoundNow
  <2> HIDE DEF id
  <2>4. FoundNow \in Found
    BY <2>2, <2>3 DEF Found, Release
  <2> QED BY <1>2, <2>1, <2>3, <2>4
<1> QED BY <1>1, <1>2

LEMMA FindReleaseTypes ==
    ASSUME TypeOK, NEW j \in Jobs, FindRelease(j) PROVE TypeOK'
<1> DEFINE onward == IF Cardinality(Live) > 1 THEN Failed(j)
                     ELSE Remember(j, "inspect", FoundNow)
<1>1. job[j].pc = "find" /\ Read(j, "find", onward)
  BY DEF FindRelease, FoundNow, Remember, Read
<1>2. /\ "inspect" \in Steps /\ "inspect" # "new" /\ "inspect" \notin Syncing
      /\ job[j].pc # "new"
  BY <1>1 DEF Steps, Syncing
<1>3. JobsOK(Failed(j)) /\ JobsOK(Remember(j, "inspect", FoundNow))
  BY <1>2, JobTypes, FailedJob, FoundJob, FoundNowType
<1> QED BY <1>1, <1>3, ReadTypes

LEMMA InspectTypes ==
    ASSUME TypeOK, NEW j \in Jobs, Inspect(j) PROVE TypeOK'
<1> DEFINE pc == job'[j].pc
<1>1. job[j].pc = "inspect" /\ job[j].pc # "new"
  BY DEF Inspect, Read
<1>2. \A s \in {"create", "delete", "verify_published", "retarget", "list"} :
          JobsOK(At(j, s)) /\ JobsOK(Failed(j))
  BY <1>1, AtTypes DEF Steps, Syncing
<1>3. JobsOK(job') /\ UNCHANGED <<releases, tag, faults, overlapped>>
  BY <1>2 DEF Inspect, Read
<1> QED BY <1>3, TypesAreJobs DEF TypeOK, JobsOK, JobType, Syncing

LEMMA DeleteReleaseTypes ==
    ASSUME TypeOK, NEW j \in Jobs, DeleteRelease(j) PROVE TypeOK'
<1>1. job[j].pc # "new"
  BY DEF DeleteRelease
<1>2. JobsOK(At(j, "create")) /\ JobsOK(Failed(j))
  BY <1>1, AtTypes DEF Steps, Syncing
<1> DEFINE served == With(Put(Id(j), None))
<1>3. Call(j, Exists(j), served, At(j, "create"), Failed(j), TRUE)
  BY DEF DeleteRelease, Put
<1>4. Exists(j) => /\ served.releases \in Seq(Release \cup {None})
                   /\ served.tag \in Commits \cup {None}
  BY PutReleases, TypesAreJobs DEF Exists, With
<1> HIDE DEF served
<1> QED BY <1>1, <1>2, <1>3, <1>4, CallTypes

LEMMA CreateDraftTypes ==
    ASSUME TypeOK, NEW j \in Jobs, CreateDraft(j) PROVE TypeOK'
<1> DEFINE new == [id |-> Len(releases) + 1, draft |-> TRUE, prerelease |-> FALSE,
                   target |-> job[j].commit]
           served == With(Append(releases, NewDraft(job[j].commit)))
           accepted == ~\E k \in Live : Published(k)
<1>1. job[j].pc # "new"
  BY DEF CreateDraft
<1>2. job[j].commit \in Commits
  BY <1>1, JobTypes
<1>3. new \in Found
  BY <1>2, LiveTypes DEF Found
<1>4. "list" \in Steps /\ "list" # "new" /\ "list" \notin Syncing
  BY DEF Steps, Syncing
<1>5. JobsOK(Remember(j, "list", new)) /\ JobsOK(Failed(j))
  BY <1>1, <1>3, <1>4, JobTypes, FoundJob, FailedJob
<1>6. Call(j, accepted, served, Remember(j, "list", new), Failed(j), TRUE)
  BY DEF CreateDraft, NewDraft, Remember
<1>7. /\ served.releases \in Seq(Release \cup {None}) /\ served.tag \in Commits \cup {None}
  BY <1>2, NewDraftRelease, AppendReleases, TypesAreJobs DEF With
<1> HIDE DEF served, new, accepted
<1> QED BY <1>1, <1>5, <1>6, <1>7, CallTypes

\* One release is replaced by a request.
LEMMA PutCallTypes ==
    ASSUME TypeOK, NEW j \in Jobs, job[j].pc # "new",
           NEW accepted, NEW r, accepted => Id(j) \in Live /\ r \in Release \cup {None},
           NEW onward, NEW rejected, JobsOK(onward), JobsOK(rejected),
           Call(j, accepted, With(Put(Id(j), r)), onward, rejected, TRUE)
    PROVE  TypeOK'
<1> DEFINE served == With(Put(Id(j), r))
<1>1. accepted => /\ served.releases \in Seq(Release \cup {None})
                  /\ served.tag \in Commits \cup {None}
  BY PutReleases, TypesAreJobs DEF With
<1>2. Call(j, accepted, served, onward, rejected, TRUE)
  OBVIOUS
<1> HIDE DEF served
<1> QED BY <1>1, <1>2, CallTypes

LEMMA RetargetTypes ==
    ASSUME TypeOK, NEW j \in Jobs, Retarget(j) PROVE TypeOK'
<1> DEFINE r == Retargeted(releases[Id(j)], job[j].commit)
<1>1. job[j].pc # "new"
  BY DEF Retarget
<1>2. JobsOK(At(j, "list")) /\ JobsOK(Failed(j))
  BY <1>1, AtTypes DEF Steps, Syncing
<1>3. Call(j, Exists(j), With(Put(Id(j), r)), At(j, "list"), Failed(j), TRUE)
  BY DEF Retarget, Put, Retargeted
<1>4. Exists(j) => Id(j) \in Live /\ r \in Release
  BY <1>1, JobTypes, LiveTypes, RetargetedRelease DEF Exists
<1> HIDE DEF r
<1> QED BY <1>1, <1>2, <1>3, <1>4, PutCallTypes

\* The index and name of the next file.
LEMMA AssetsTypes ==
    ASSUME TypeOK, NEW j \in Jobs, Exists(j)
    PROVE  /\ Id(j) \in Live /\ releases[Id(j)] \in Release
           /\ releases[Id(j)].assets \in [Names -> Asset \cup {None}]
BY LiveTypes DEF Exists, Release

LEMMA ListAssetsTypes ==
    ASSUME TypeOK, NEW j \in Jobs, ListAssets(j) PROVE TypeOK'
<1> DEFINE onward == IF Exists(j) THEN Sync(j, releases[Id(j)].assets, 1) ELSE Failed(j)
<1>1. job[j].pc # "new" /\ Read(j, "list", onward)
  BY DEF ListAssets, Read
<1>2. JobsOK(Failed(j))
  BY <1>1, JobTypes, FailedJob
<1>3. Exists(j) => JobsOK(Sync(j, releases[Id(j)].assets, 1))
  BY <1>1, JobTypes, AssetsTypes, SyncJob
<1> QED BY <1>1, <1>2, <1>3, ReadTypes

LEMMA DeleteAssetTypes ==
    ASSUME TypeOK, NEW j \in Jobs, DeleteAsset(j) PROVE TypeOK'
<1> DEFINE name == AssetNames[job[j].next]
           r == WithAsset(releases[Id(j)], name, None)
<1>1. job[j].pc = "delete_asset" /\ job[j].pc # "new"
  BY DEF DeleteAsset
<1>2. name \in Names
  BY <1>1, JobTypes, Assumptions DEF JobsOK, Syncing
<1>3. JobsOK(At(j, "upload")) /\ JobsOK(Failed(j))
  BY <1>1, AtTypes DEF Steps, Syncing
<1>4. Call(j, AssetPresent(j, name), With(Put(Id(j), r)), At(j, "upload"), Failed(j), TRUE)
  BY DEF DeleteAsset, Put, WithAsset
<1>5. AssetPresent(j, name) => Id(j) \in Live /\ r \in Release
  BY <1>2, AssetsTypes, AssetRelease DEF AssetPresent
<1> HIDE DEF r, name
<1> QED BY <1>1, <1>3, <1>4, <1>5, PutCallTypes

LEMMA UploadAssetTypes ==
    ASSUME TypeOK, NEW j \in Jobs, UploadAsset(j) PROVE TypeOK'
<1> DEFINE name == AssetNames[job[j].next]
           free == Exists(j) /\ releases[Id(j)].assets[name] = None
           r(digest) == WithAsset(releases[Id(j)], name, [digest |-> digest, by |-> j])
           onward == Sync(j, job[j].listed, job[j].next + 1)
<1>1. job[j].pc = "upload" /\ job[j].pc # "new"
  BY DEF UploadAsset
<1>2. /\ name \in Names
      /\ job[j].listed \in [Names -> Asset \cup {None}]
      /\ job[j].next + 1 \in Nat /\ job[j].next + 1 >= 1
  BY <1>1, JobTypes, Assumptions DEF JobsOK, Syncing, JobType
<1>3. JobsOK(onward) /\ JobsOK(Failed(j)) /\ JobsOK(Lost(j, TRUE))
  BY <1>1, <1>2, JobTypes, SyncJob, FailedJob, LostJob
<1>4. \A digest \in Builds \cup {None} : free => Id(j) \in Live /\ r(digest) \in Release
  <2> SUFFICES ASSUME NEW digest \in Builds \cup {None}, free
               PROVE  Id(j) \in Live /\ r(digest) \in Release
    OBVIOUS
  <2>1. [digest |-> digest, by |-> j] \in Asset
    BY DEF Asset
  <2> QED BY <1>2, <2>1, AssetsTypes, AssetRelease
<1>5. CASE Call(j, free, With(Put(Id(j), r(job[j].build))), onward, Failed(j), TRUE)
  <2>1. free => Id(j) \in Live /\ r(job[j].build) \in Release
    BY <1>1, <1>4, JobTypes
  <2> HIDE DEF r, free, onward
  <2> QED BY <1>1, <1>3, <1>5, <2>1, PutCallTypes
<1>6. CASE /\ free /\ faults < MaxFaults /\ faults' = faults + 1
           /\ releases' = Put(Id(j), r(None))
           /\ job' = Lost(j, TRUE) /\ UNCHANGED <<tag, overlapped>>
  <2>1. Id(j) \in Live /\ r(None) \in Release
    BY <1>4, <1>6
  <2>2. releases' \in Seq(Release \cup {None})
    <3> HIDE DEF r
    <3> QED BY <1>6, <2>1, PutReleases
  <2>3. faults' \in 0..MaxFaults
    BY <1>6, Assumptions, TypesAreJobs
  <2>4. JobsOK(job')
    BY <1>3, <1>6
  <2> QED BY <1>6, <2>2, <2>3, <2>4, TypesAreJobs DEF TypeOK, JobsOK, JobType, Syncing
<1> QED BY <1>5, <1>6 DEF UploadAsset, Put, WithAsset

LEMMA ListExtrasTypes ==
    ASSUME TypeOK, NEW j \in Jobs, ListExtras(j) PROVE TypeOK'
<1> DEFINE assets == releases[Id(j)].assets
           extras == {n \in ExtraNames : assets[n] # None}
           pc == IF extras = {} THEN "verify" ELSE "delete_extra"
           onward == IF ~Exists(j) THEN Failed(j) ELSE ListingExtras(j, pc, assets, extras)
<1>1. job[j].pc # "new" /\ Read(j, "extras", onward)
  BY DEF ListExtras, Read, ListingExtras
<1>2. JobsOK(Failed(j))
  BY <1>1, JobTypes, FailedJob
<1>3. pc \in Steps /\ pc # "new" /\ pc \notin Syncing
  BY DEF Steps, Syncing
<1>4. Exists(j) => JobsOK(ListingExtras(j, pc, assets, extras))
  <2>1. extras \in SUBSET ExtraNames
    OBVIOUS
  <2> HIDE DEF pc, extras
  <2> QED BY <1>1, <1>3, <2>1, JobTypes, AssetsTypes, ExtrasJob
<1>5. JobsOK(onward)
  BY <1>2, <1>4
<1> HIDE DEF onward
<1> QED BY <1>1, <1>5, ReadTypes

LEMMA DeleteExtraTypes ==
    ASSUME TypeOK, NEW j \in Jobs, DeleteExtra(j) PROVE TypeOK'
<1>1. job[j].pc = "delete_extra" /\ job[j].pc # "new"
  BY DEF DeleteExtra
<1> DEFINE r(name) == WithAsset(releases[Id(j)], name, None)
           pc(name) == IF job[j].extras = {name} THEN "verify" ELSE "delete_extra"
<1>2. PICK name \in job[j].extras :
          Call(j, AssetPresent(j, name), With(Put(Id(j), r(name))),
               WithoutExtra(j, pc(name), name), Failed(j), TRUE)
  BY DEF DeleteExtra, Put, WithAsset, WithoutExtra
<1>3. name \in Names
  BY <1>1, JobTypes, Assumptions DEF JobType
<1>4. pc(name) \in Steps /\ pc(name) # "new" /\ pc(name) \notin Syncing
  BY DEF Steps, Syncing
<1>5. AssetPresent(j, name) => Id(j) \in Live /\ r(name) \in Release
  BY <1>3, AssetsTypes, AssetRelease DEF AssetPresent
<1> HIDE DEF r, pc
<1>6. JobsOK(WithoutExtra(j, pc(name), name)) /\ JobsOK(Failed(j))
  BY <1>1, <1>4, JobTypes, DeletedJob, FailedJob
<1> QED BY <1>1, <1>2, <1>5, <1>6, PutCallTypes

LEMMA VerifyTypes ==
    ASSUME TypeOK, NEW j \in Jobs,
           Verify(j) \/ EnsureTag(j) \/ ConfirmTag(j) \/ CheckTag(j) \/ VerifyPublished(j)
    PROVE  TypeOK'
<1>1. job[j].pc # "new" /\ UNCHANGED <<releases, tag, faults, overlapped>>
  BY DEF Verify, EnsureTag, ConfirmTag, CheckTag, VerifyPublished, Read
<1>2. /\ JobsOK(Failed(j))
      /\ \A s \in {"ensure_tag", "create_tag", "publish", "verify_published", "done", "failed"} :
            JobsOK(At(j, s))
  BY <1>1, AtTypes, JobTypes, FailedJob DEF Steps, Syncing
<1>3. TagStep(j) \in {"create_tag", "publish", "failed"}
  BY DEF TagStep
<1>4. JobsOK(job')
  BY <1>2, <1>3 DEF Verify, EnsureTag, ConfirmTag, CheckTag, VerifyPublished, Read
<1> QED BY <1>1, <1>4, TypesAreJobs DEF TypeOK, JobsOK, JobType, Syncing

LEMMA CreateTagRefTypes ==
    ASSUME TypeOK, NEW j \in Jobs, CreateTagRef(j) PROVE TypeOK'
<1> DEFINE served == [releases |-> releases, tag |-> job[j].commit]
           accepted == tag = None
<1>1. job[j].pc # "new"
  BY DEF CreateTagRef
<1>2. JobsOK(At(j, "confirm_tag"))
  BY <1>1, AtTypes DEF Steps, Syncing
<1>3. Call(j, accepted, served, At(j, "confirm_tag"), At(j, "confirm_tag"), FALSE)
  BY DEF CreateTagRef
<1>4. served.releases \in Seq(Release \cup {None}) /\ served.tag \in Commits \cup {None}
  BY <1>1, JobTypes, TypesAreJobs
<1> HIDE DEF served, accepted
<1> QED BY <1>1, <1>2, <1>3, <1>4, CallTypes

LEMMA PublishTypes ==
    ASSUME TypeOK, NEW j \in Jobs, Publish(j) PROVE TypeOK'
<1> DEFINE r == PublishedBy(releases[Id(j)], job[j].commit, j)
           accepted == Exists(j) /\ \A id \in Live \ {Id(j)} : ~Published(id)
<1>1. job[j].pc # "new"
  BY DEF Publish
<1>2. JobsOK(At(j, "check_tag")) /\ JobsOK(Failed(j))
  BY <1>1, AtTypes DEF Steps, Syncing
<1>3. Call(j, accepted, With(Put(Id(j), r)), At(j, "check_tag"), Failed(j), TRUE)
  BY DEF Publish, Put, PublishedBy
<1>4. accepted => Id(j) \in Live /\ r \in Release
  BY <1>1, JobTypes, LiveTypes, PublishedRelease DEF Exists
<1> HIDE DEF r, accepted
<1> QED BY <1>1, <1>2, <1>3, <1>4, PutCallTypes

LEMMA CrashTypes ==
    ASSUME TypeOK, NEW j \in Jobs, Crash(j) PROVE TypeOK'
<1>1. JobsOK(job')
  BY JobTypes, LostJob DEF Crash, Running
<1>2. faults' \in 0..MaxFaults
  BY Assumptions, TypesAreJobs DEF Crash
<1> QED BY <1>1, <1>2, TypesAreJobs DEF Crash, TypeOK, JobsOK, JobType, Syncing

\* What starting a job does.
LEMMA StartJob ==
    ASSUME TypeOK, NEW j \in Jobs, NEW build \in Builds, Start(j, build)
    PROVE  /\ TypeOK'
           /\ job'[j].pc = "find" /\ \A k \in Jobs \ {j} : job'[k] = job[k]
<1> DEFINE r == [job[j] EXCEPT !.pc = "find", !.commit = build[1], !.build = build]
<1>1. job[j] \in JobType /\ build[1] \in Commits
  BY TypesAreJobs DEF JobsOK, Builds
<1>2. r \in JobType /\ r.pc = "find" /\ r.build = build /\ r.commit = build[1]
  BY <1>1 DEF JobType, Steps
<1>3. job' = [job EXCEPT ![j] = r]
  BY TypesAreJobs DEF Start, JobsOK
<1> HIDE DEF r
<1>4. job'[j] = r /\ (\A k \in Jobs \ {j} : job'[k] = job[k]) /\ job' \in [Jobs -> JobType]
  BY <1>2, <1>3, TypesAreJobs DEF JobsOK
<1>5. JobsOK(job')
  BY <1>2, <1>4, TypesAreJobs DEF JobsOK, Syncing
<1>6. overlapped' \in BOOLEAN /\ UNCHANGED <<releases, tag, faults>>
  BY TypesAreJobs DEF Start
<1> QED BY <1>2, <1>4, <1>5, <1>6, TypesAreJobs DEF TypeOK, JobsOK, JobType, Syncing

LEMMA InitTypes == Init => TypeOK
<1> SUFFICES ASSUME Init PROVE TypeOK
  OBVIOUS
<1>1. releases \in Seq(Release \cup {None})
  <2>1. OldReleases \subseteq Release \cup {None}
    BY PublisherAssumption
  <2>2. \A r \in Release \cup {None} : <<r>> \in Seq(Release \cup {None})
    OBVIOUS
  <2>3. <<>> \in Seq(Release \cup {None})
    OBVIOUS
  <2>4. releases = <<>> \/ \E r \in OldReleases : releases = <<r>>
    BY DEF Init
  <2> QED BY <2>1, <2>2, <2>3, <2>4
<1>2. NewJob \in JobType
  BY Assumptions DEF NewJob, JobType, Steps
<1>3. JobsOK(job)
  BY <1>2 DEF Init, JobsOK, NewJob, Syncing
<1>4. tag \in Commits \cup {None} /\ overlapped \in BOOLEAN
  BY DEF Init
<1>5. 0 \in 0..MaxFaults
  BY Assumptions
<1> QED BY <1>1, <1>3, <1>4, <1>5, TypesAreJobs DEF Init

LEMMA NextTypes == TypeOK /\ [Next]_vars => TypeOK'
<1> SUFFICES ASSUME TypeOK, [Next]_vars PROVE TypeOK'
  OBVIOUS
<1>1. CASE UNCHANGED vars
  BY <1>1 DEF vars, TypeOK
<1>2. ASSUME NEW j \in Jobs, Step(j) PROVE TypeOK'
  BY <1>2, FindReleaseTypes, InspectTypes, DeleteReleaseTypes, CreateDraftTypes,
     RetargetTypes, ListAssetsTypes, DeleteAssetTypes, UploadAssetTypes, ListExtrasTypes,
     DeleteExtraTypes, VerifyTypes, CreateTagRefTypes, PublishTypes, CrashTypes DEF Step
<1>3. ASSUME NEW j \in Jobs, NEW build \in Builds, Start(j, build) PROVE TypeOK'
  BY <1>3, StartJob
<1> QED BY <1>1, <1>2, <1>3 DEF Next

\* Releases, tag and jobs always have the states of the script.
THEOREM ReleaseTypes == Spec => []TypeOK
<1>1. Init => TypeOK
  BY InitTypes
<1>2. TypeOK /\ [Next]_vars => TypeOK'
  BY NextTypes
<1> QED BY <1>1, <1>2, PTL DEF Spec

-----------------------------------------------------------------------------
(* What the steps of a job may do.                                          *)

\* Only the job itself moves on, still with its build.
Frame(j) ==
    /\ Running(j) /\ overlapped' = overlapped
    /\ \A k \in Jobs \ {j} : job'[k] = job[k]
    /\ job'[j].pc # "new"
    /\ job'[j].commit = job[j].commit /\ job'[j].build = job[j].build
    /\ job'[j].clean => job[j].clean

\* The tag is created once, and only a job that has seen it at its commit
\* publishes, at that commit.
TagMove(j) ==
    /\ tag' = tag \/ (tag = None /\ tag' = job[j].commit)
    /\ (job[j].pc = "publish" => tag = job[j].commit) =>
          (job'[j].pc = "publish" => tag' = job[j].commit)
    /\ \A id \in Live' : Published(id)' /\ Ours(id)' =>
          \/ /\ id \in Live /\ Published(id) /\ Ours(id)
             /\ releases'[id].target = releases[id].target
          \/ job[j].pc = "publish" /\ releases'[id].target = job[j].commit

\* A job that runs alone changes no more than this.
Effect(j) ==
    \/ UNCHANGED <<releases, tag>>
    \/ tag = None /\ tag' # None /\ UNCHANGED releases
    \/ /\ \E r \in Release : r.draft /\ releases' = Append(releases, r)
       /\ UNCHANGED tag
    \/ /\ tag = None /\ Id(j) \in Live /\ Live \subseteq {Id(j)}
       /\ releases' = Put(Id(j), None) /\ UNCHANGED tag
    \/ /\ \E id \in Live, r \in Release :
             /\ releases[id].draft /\ releases' = Put(id, r)
             /\ r.draft \/ \E build \in Builds : Complete(id, build)'
       /\ UNCHANGED tag

SoloMove(j) ==
    Phase(j) =>
        /\ Effect(j)
        /\ Running(j)' => Phase(j)'
        /\ job'[j].pc = "failed" /\ job'[j].clean => Taken(job[j].commit)'

Moves(j) == Frame(j) /\ TagMove(j) /\ SoloMove(j)

\* The live releases after one of them was replaced, deleted or added.
LEMMA PutLive ==
    ASSUME TypeOK, NEW x \in Live, NEW r \in Release, releases' = Put(x, r)
    PROVE  /\ Live' = Live /\ releases'[x] = r
           /\ \A id \in Live : id # x => releases'[id] = releases[id]
<1>1. /\ DOMAIN releases' = DOMAIN releases /\ releases'[x] = r /\ r # None
      /\ \A id \in DOMAIN releases : id # x => releases'[id] = releases[id]
  BY PutReleases, Assumptions
<1>2. x \in DOMAIN releases
  BY LiveTypes
<1> QED BY <1>1, <1>2 DEF Live

LEMMA DeleteLive ==
    ASSUME TypeOK, NEW x \in Live, releases' = Put(x, None)
    PROVE  /\ Live' = Live \ {x}
           /\ \A id \in Live' : releases'[id] = releases[id]
<1>1. /\ DOMAIN releases' = DOMAIN releases /\ releases'[x] = None
      /\ \A id \in DOMAIN releases : id # x => releases'[id] = releases[id]
  BY PutReleases
<1> QED BY <1>1 DEF Live

LEMMA AppendLive ==
    ASSUME TypeOK, NEW r \in Release, releases' = Append(releases, r)
    PROVE  /\ Live' = Live \cup {Len(releases) + 1} /\ Len(releases) + 1 \notin Live
           /\ releases'[Len(releases) + 1] = r
           /\ \A id \in Live : releases'[id] = releases[id]
<1>1. /\ DOMAIN releases' = DOMAIN releases \cup {Len(releases) + 1}
      /\ Len(releases) + 1 \notin DOMAIN releases
      /\ releases'[Len(releases) + 1] = r /\ r # None
      /\ \A id \in DOMAIN releases : releases'[id] = releases[id]
  BY AppendReleases, Assumptions
<1> QED BY <1>1 DEF Live

\* Nothing has become published.
LEMMA NothingPublished ==
    ASSUME TypeOK, NEW j \in Jobs, Running(j),
           tag' = tag \/ (tag = None /\ tag' = job[j].commit),
           job'[j].pc # "publish",
           \A id \in Live' : \/ id \in Live /\ releases'[id] = releases[id]
                             \/ releases'[id].draft \/ releases'[id].publisher = None
                             \/ /\ id \in Live /\ releases'[id].draft = releases[id].draft
                                /\ releases'[id].publisher = releases[id].publisher
                                /\ releases'[id].target = releases[id].target
    PROVE  TagMove(j)
BY DEF TagMove, Published, Ours

\* A lost request that had no effect.
LEMMA LostBefore ==
    ASSUME TypeOK, NEW j \in Jobs, Running(j), NEW retry \in BOOLEAN,
           job' = Lost(j, retry), UNCHANGED <<releases, tag, overlapped>>
    PROVE  Moves(j)
<1>1. JobsOK(job) /\ job[j].pc # "new" /\ job[j].pc \notin {"failed", "done"}
  BY JobTypes DEF Running
<1>2. /\ \A k \in Jobs \ {j} : job'[k] = job[k]
      /\ ~job'[j].clean /\ job'[j].commit = job[j].commit /\ job'[j].build = job[j].build
      /\ \/ job'[j].pc = "failed"
         \/ /\ job'[j].pc = job[j].pc /\ job'[j].release = job[j].release
            /\ job'[j].listed = job[j].listed /\ job'[j].next = job[j].next
            /\ job'[j].extras = job[j].extras
  BY <1>1, LostJob
<1>3. Live' = Live
  BY DEF Live
<1>4. Frame(j)
  BY <1>1, <1>2 DEF Frame
<1>5. TagMove(j)
  BY <1>1, <1>2, <1>3 DEF TagMove, Published, Ours
<1>6. SoloMove(j)
  <2>1. ASSUME Phase(j), Running(j)' PROVE Phase(j)'
    <3>1. /\ job'[j].pc = job[j].pc /\ job'[j].release = job[j].release
          /\ job'[j].listed = job[j].listed /\ job'[j].next = job[j].next
          /\ job'[j].extras = job[j].extras
      BY <1>2, <2>1 DEF Running
    <3>2. /\ Id(j)' = Id(j) /\ (Drafts <=> Drafts') /\ (TagFree(j) <=> TagFree(j)')
          /\ (Pinned(j) <=> Pinned(j)') /\ (Seen(j) <=> Seen(j)')
          /\ \A id : Published(id) <=> Published(id)'
      BY <1>2, <1>3, <3>1 DEF Id, Drafts, TagFree, Pinned, Seen, Published
    <3>3. \A asset : AssetMatches(asset, j) <=> AssetMatches(asset, j)'
      BY <1>2 DEF AssetMatches
    <3>4. (AllMatched(j) <=> AllMatched(j)') /\ (Synced(j) <=> Synced(j)')
      BY <3>1, <3>2, <3>3 DEF AllMatched, Synced, Matched
    <3>5. VerifyRemoteAssets(releases[Id(j)].assets, j)
             <=> VerifyRemoteAssets(releases[Id(j)].assets, j)'
      BY <3>2, <3>3 DEF VerifyRemoteAssets
    <3>6. ExtrasListed(j) => ExtrasListed(j)'
      BY <1>2, <3>1, <3>2 DEF ExtrasListed
    <3> QED BY <2>1, <1>2, <1>3, <3>1, <3>2, <3>4, <3>5, <3>6 DEF Phase
  <2> QED BY <1>2, <2>1 DEF SoloMove, Effect
<1> QED BY <1>4, <1>5, <1>6 DEF Moves

-----------------------------------------------------------------------------
(* The reads.                                                               *)

LEMMA LiveFinite ==
    ASSUME TypeOK
    PROVE  /\ IsFiniteSet(Live) /\ Cardinality(Live) \in Nat
           /\ Cardinality(Live) <= 1 => \A id \in Live : Live = {id}
           /\ \A id : Live \subseteq {id} => Cardinality(Live) <= 1
<1>1. IsFiniteSet(1..Len(releases)) /\ Live \in SUBSET (1..Len(releases))
  BY LiveTypes, FS_Interval
<1>2. IsFiniteSet(Live)
  BY <1>1, FS_Subset
<1>3. Cardinality(Live) \in Nat
  BY <1>2, FS_CardinalityType
<1>4. ASSUME Cardinality(Live) <= 1, NEW id \in Live PROVE Live = {id}
  <2>1. Cardinality(Live) # 0
    BY <1>2, <1>4, FS_EmptySet
  <2>2. PICK x : Live = {x}
    BY <1>2, <1>3, <1>4, <2>1, FS_Singleton
  <2> QED BY <1>4, <2>2
<1>5. ASSUME NEW id, Live \subseteq {id} PROVE Cardinality(Live) <= 1
  <2>1. IsFiniteSet({id}) /\ Cardinality({id}) = 1 /\ Live \in SUBSET {id}
    BY <1>5, FS_Singleton
  <2> QED BY <2>1, FS_Subset
<1> QED BY <1>2, <1>3, <1>4, <1>5

\* The state of GitHub is as before.
LEMMA SameStore ==
    ASSUME UNCHANGED <<releases, tag>>
    PROVE  /\ Live' = Live /\ (Drafts <=> Drafts')
           /\ \A id : Published(id) <=> Published(id)'
           /\ \A c : Taken(c) <=> Taken(c)'
<1>1. Live' = Live
  BY DEF Live
<1> QED BY <1>1 DEF Drafts, Published, Taken

LEMMA SameBuild ==
    ASSUME NEW j \in Jobs, job'[j].build = job[j].build
    PROVE  /\ \A asset : AssetMatches(asset, j) <=> AssetMatches(asset, j)'
           /\ \A assets : VerifyRemoteAssets(assets, j) <=> VerifyRemoteAssets(assets, j)'
BY DEF AssetMatches, VerifyRemoteAssets

\* What every read keeps.
LEMMA ReadMoves ==
    ASSUME TypeOK, NEW j \in Jobs, NEW pc, NEW onward, Read(j, pc, onward), Running(j),
           \A k \in Jobs \ {j} : onward[k] = job[k],
           KeepsBuild(job[j], onward[j]), onward[j].pc # "new",
           onward[j].pc = "publish" => tag = job[j].commit,
           Phase(j) => /\ Running(j)' => Phase(j)'
                       /\ onward[j].pc = "failed" /\ onward[j].clean => Taken(job[j].commit)
    PROVE  Moves(j)
<1>1. job' = onward /\ UNCHANGED <<releases, tag, overlapped>>
  BY DEF Read
<1>2. Frame(j)
  BY <1>1 DEF Frame, KeepsBuild
<1>3. TagMove(j)
  BY <1>1, SameStore DEF TagMove, Published, Ours
<1>4. SoloMove(j)
  <2>1. \A c : Taken(c) <=> Taken(c)'
    BY <1>1, SameStore
  <2>2. Taken(job[j].commit) => Taken(job[j].commit)'
    BY <1>2, <2>1 DEF Frame
  <2> QED BY <1>1, <2>2 DEF SoloMove, Effect
<1> QED BY <1>2, <1>3, <1>4 DEF Moves

LEMMA FindReleaseMoves ==
    ASSUME TypeOK, NEW j \in Jobs, FindRelease(j) PROVE Moves(j)
<1> DEFINE onward == IF Cardinality(Live) > 1 THEN Failed(j)
                     ELSE Remember(j, "inspect", FoundNow)
<1>1. job[j].pc = "find" /\ Read(j, "find", onward)
  BY DEF FindRelease, FoundNow, Remember, Read
<1>2. /\ "inspect" \in Steps /\ "inspect" # "new" /\ "inspect" \notin Syncing
      /\ job[j].pc # "new" /\ Running(j)
  BY <1>1 DEF Steps, Syncing, Running
<1>3. job' = onward /\ UNCHANGED <<releases, tag>>
  BY <1>1 DEF Read
<1>4. CASE Cardinality(Live) > 1
  <2>1. /\ onward = Failed(j) /\ onward[j].pc = "failed" /\ KeepsBuild(job[j], onward[j])
        /\ \A k \in Jobs \ {j} : onward[k] = job[k]
    BY <1>2, <1>4, JobTypes, FailedJob
  <2>2. ~Running(j)' /\ Taken(job[j].commit)
    BY <1>3, <1>4, <2>1 DEF Running, Taken
  <2> HIDE DEF onward
  <2> QED BY <1>1, <1>2, <2>1, <2>2, ReadMoves
<1>5. CASE ~(Cardinality(Live) > 1)
  <2>1. /\ onward[j].pc = "inspect" /\ KeepsBuild(job[j], onward[j])
        /\ onward[j].release = FoundNow
        /\ \A k \in Jobs \ {j} : onward[k] = job[k]
    BY <1>2, <1>5, JobTypes, FoundJob, FoundNowType
  <2>2. Live' = Live
    BY <1>3, SameStore
  <2>3. Seen(j)'
    <3>1. CASE Live = {}
      BY <1>3, <2>1, <2>2, <3>1, FoundNowType DEF Seen
    <3>2. CASE Live # {}
      <4>1. FoundNow \in Found /\ FoundNow # None /\ FoundNow.id \in Live
        BY <3>2, FoundNowType, Assumptions
      <4>2. Live = {FoundNow.id}
        BY <1>5, <4>1, LiveFinite
      <4> QED BY <1>3, <2>1, <2>2, <3>2, <4>1, <4>2, FoundNowType DEF Seen
    <3> QED BY <3>1, <3>2
  <2>4. Phase(j)'
    BY <1>3, <2>1, <2>3 DEF Phase, Preparing, Filled, Verified
  <2> HIDE DEF onward
  <2> QED BY <1>1, <1>2, <2>1, <2>4, ReadMoves
<1> QED BY <1>4, <1>5

\* A read that goes on at a step where the job relies on the facts given.
LEMMA ReadAtMoves ==
    ASSUME TypeOK, NEW j \in Jobs, NEW pc, NEW s \in Steps, Read(j, pc, At(j, s)),
           Running(j), s # "new", s \in Syncing => pc \in Syncing,
           s = "publish" => tag = job[j].commit,
           Phase(j) => /\ Running(j)' => Phase(j)'
                       /\ s = "failed" => Taken(job[j].commit)
    PROVE  Moves(j)
<1>1. job[j].pc = pc /\ job[j].pc # "new"
  BY DEF Read, Running
<1>2. /\ At(j, s)[j].pc = s /\ KeepsBuild(job[j], At(j, s)[j])
      /\ \A k \in Jobs \ {j} : At(j, s)[k] = job[k]
  BY <1>1, JobTypes, AtJob
<1> DEFINE onward == At(j, s)
<1>3. Read(j, pc, onward)
  OBVIOUS
<1> HIDE DEF onward
<1>4. /\ onward[j].pc = s /\ KeepsBuild(job[j], onward[j])
      /\ \A k \in Jobs \ {j} : onward[k] = job[k]
  BY <1>2 DEF onward
<1> QED BY <1>3, <1>4, ReadMoves

LEMMA InspectMoves ==
    ASSUME TypeOK, NEW j \in Jobs, Inspect(j) PROVE Moves(j)
<1> DEFINE r == job[j].release
           c == job[j].commit
<1>1. /\ job[j].pc = "inspect" /\ job[j].pc # "new" /\ Running(j)
      /\ UNCHANGED <<releases, tag>>
  BY DEF Inspect, Read, Running
<1>2. PICK s \in {"create", "delete", "verify_published", "retarget", "list", "failed"} :
          /\ Read(j, "inspect", At(j, s))
          /\ s # "failed" => tag \in {None, c}
          /\ s = "create" => r = None
          /\ s = "delete" => r # None /\ ~r.draft /\ tag # c
          /\ s = "verify_published" => r # None /\ ~r.draft /\ tag = c
          /\ s = "retarget" => r # None /\ r.draft
          /\ s = "list" => r # None /\ r.draft /\ r.target = c /\ ~r.prerelease
          /\ s = "failed" => tag \notin {None, c} \/ (r # None /\ ~r.draft /\ tag = c)
  BY DEF Inspect, Read, Failed, Incomplete
<1>3. s \in Steps /\ s # "new" /\ s # "publish" /\ s \notin Syncing
  BY DEF Steps, Syncing
<1>4. /\ job'[j].pc = s /\ job'[j].commit = c /\ job'[j].release = r
  BY <1>1, <1>2, <1>3, JobTypes, AtJob DEF Read, KeepsBuild
<1>5. ASSUME Phase(j) PROVE (s # "failed" => Phase(j)') /\ (s = "failed" => Taken(c))
  <2>1. Seen(j)
    BY <1>1, <1>5 DEF Phase
  <2>2. /\ Live' = Live /\ (Drafts <=> Drafts') /\ \A id : Published(id) <=> Published(id)'
        /\ Id(j)' = Id(j) /\ (TagFree(j) <=> TagFree(j)') /\ (Pinned(j) <=> Pinned(j)')
    BY <1>1, <1>4, SameStore DEF Id, TagFree, Pinned
  <2>3. r # None =>
          /\ Id(j) = r.id /\ Live = {Id(j)}
          /\ r.draft => Drafts
          /\ ~r.draft => Published(Id(j))
          /\ r.target = c /\ ~r.prerelease => Pinned(j)
    BY <2>1 DEF Seen, Id, Drafts, Published, Pinned
  <2>4. r = None => Live = {} /\ Drafts
    BY <2>1 DEF Seen, Drafts
  <2>5. ASSUME s = "failed" PROVE Taken(c)
    BY <1>2, <2>3, <2>5 DEF Taken
  <2>6. ASSUME s # "failed" PROVE Phase(j)'
    BY <1>1, <1>2, <1>4, <2>2, <2>3, <2>4, <2>6
       DEF Phase, Preparing, Filled, Verified, TagFree
  <2> QED BY <2>5, <2>6
<1>6. Running(j)' => s # "failed"
  BY <1>4 DEF Running
<1> QED BY <1>1, <1>2, <1>3, <1>5, <1>6, ReadAtMoves

\* On to the next file that does not fit: the files before position i fit, those
\* from i on are as they were listed.
LEMMA SyncPhase ==
    ASSUME TypeOK, NEW j \in Jobs, job[j].pc # "new",
           NEW listed \in [Names -> Asset \cup {None}], NEW i \in Nat, i >= 1,
           job' = Sync(j, listed, i), (Drafts /\ TagFree(j) /\ Pinned(j))',
           \A k \in DOMAIN AssetNames :
              /\ k < i => AssetMatches(releases'[Id(j)].assets[AssetNames[k]], j)
              /\ k >= i => releases'[Id(j)].assets[AssetNames[k]] = listed[AssetNames[k]]
    PROVE  Phase(j)'
<1>1. /\ KeepsBuild(job[j], job'[j])
      /\ job'[j].release = job[j].release /\ job'[j].listed = listed
      /\ \/ /\ job'[j].pc = "extras"
            /\ \A k \in DOMAIN AssetNames : k >= i => Fits(j, listed, k)
         \/ /\ job'[j].next \in DOMAIN AssetNames /\ job'[j].next >= i
            /\ \A k \in DOMAIN AssetNames :
                  k >= i /\ k < job'[j].next => Fits(j, listed, k)
            /\ job'[j].pc = IF listed[AssetNames[job'[j].next]] = None
                            THEN "upload" ELSE "delete_asset"
  BY JobTypes, SyncJob
<1>2. Id(j)' = Id(j) /\ \A asset : AssetMatches(asset, j) <=> AssetMatches(asset, j)'
  BY <1>1, SameBuild DEF Id, KeepsBuild
<1>3. \A k \in DOMAIN AssetNames : k \in Nat
  BY Assumptions
<1>4. \A k \in DOMAIN AssetNames : Fits(j, listed, k) /\ k >= i => Matched(j, k)'
  BY <1>2 DEF Fits, Matched
<1>5. \A k \in DOMAIN AssetNames : k < i => Matched(j, k)'
  BY <1>2 DEF Matched
<1>6. CASE job'[j].pc = "extras"
  <2>1. \A k \in DOMAIN AssetNames : k >= i => Fits(j, listed, k)
    BY <1>1, <1>6
  <2>2. AllMatched(j)'
    BY <1>3, <1>4, <1>5, <2>1 DEF AllMatched
  <2> QED BY <1>6, <2>2 DEF Phase, Preparing, Filled, Verified
<1>7. CASE job'[j].pc \in {"upload", "delete_asset"}
  <2> DEFINE n == job'[j].next
  <2>1. /\ n \in DOMAIN AssetNames /\ n >= i /\ n \in Nat
        /\ \A k \in DOMAIN AssetNames : k >= i /\ k < n => Fits(j, listed, k)
        /\ job'[j].pc = IF listed[AssetNames[n]] = None THEN "upload" ELSE "delete_asset"
    BY <1>1, <1>3, <1>7
  <2>2. Synced(j)'
    <3>1. ASSUME NEW k \in DOMAIN AssetNames, k < n PROVE Matched(j, k)'
      BY <1>3, <1>4, <1>5, <2>1, <3>1
    <3>2. ASSUME NEW k \in DOMAIN AssetNames, k > n
          PROVE  releases'[Id(j)].assets[AssetNames[k]] = listed[AssetNames[k]]
      BY <1>3, <2>1, <3>2
    <3> QED BY <1>1, <1>2, <3>1, <3>2 DEF Synced
  <2>3. (job'[j].pc = "upload") => NextIs(j, None)'
    BY <1>2, <2>1 DEF NextIs
  <2>4. (job'[j].pc = "delete_asset") =>
            job'[j].listed[AssetNames[n]] # None /\ NextIs(j, job[j].listed[AssetNames[job[j].next]])'
    BY <1>1, <1>2, <2>1 DEF NextIs
  <2> QED BY <1>7, <2>2, <2>3, <2>4 DEF Phase, Preparing, Filled, Verified
<1> QED BY <1>1, <1>6, <1>7

LEMMA ListAssetsMoves ==
    ASSUME TypeOK, NEW j \in Jobs, ListAssets(j) PROVE Moves(j)
<1> DEFINE listed == releases[Id(j)].assets
           onward == IF Exists(j) THEN Sync(j, listed, 1) ELSE Failed(j)
<1>1. /\ job[j].pc = "list" /\ job[j].pc # "new" /\ Running(j)
      /\ Read(j, "list", onward) /\ job' = onward /\ UNCHANGED <<releases, tag>>
  BY DEF ListAssets, Read, Running
<1>2. CASE Exists(j)
  <2>1. listed \in [Names -> Asset \cup {None}] /\ job' = Sync(j, listed, 1)
    BY <1>1, <1>2, AssetsTypes
  <2>2. /\ \A k \in Jobs \ {j} : job'[k] = job[k]
        /\ KeepsBuild(job[j], job'[j]) /\ job'[j].release = job[j].release
        /\ job'[j].pc \in {"extras", "upload", "delete_asset"}
    BY <1>1, <2>1, JobTypes, SyncJob
  <2>3. ASSUME Phase(j) PROVE Phase(j)'
    <3>1. Drafts /\ TagFree(j) /\ Pinned(j)
      BY <1>1, <2>3 DEF Phase, Preparing
    <3>2. (Drafts /\ TagFree(j) /\ Pinned(j))'
      BY <1>1, <2>2, <3>1, SameStore DEF TagFree, Pinned, Id, KeepsBuild
    <3>3. \A k \in DOMAIN AssetNames : k \in Nat /\ k >= 1
      BY Assumptions
    <3>4. \A k \in DOMAIN AssetNames :
              /\ k < 1 => AssetMatches(releases'[Id(j)].assets[AssetNames[k]], j)
              /\ k >= 1 => releases'[Id(j)].assets[AssetNames[k]] = listed[AssetNames[k]]
      BY <1>1, <3>3
    <3> HIDE DEF listed
    <3> QED BY <1>1, <2>1, <3>2, <3>4, SyncPhase
  <2> HIDE DEF onward
  <2> QED BY <1>1, <2>2, <2>3, ReadMoves
<1>3. CASE ~Exists(j)
  <2>1. /\ \A k \in Jobs \ {j} : onward[k] = job[k]
        /\ KeepsBuild(job[j], onward[j]) /\ onward[j].pc = "failed"
    BY <1>1, <1>3, JobTypes, FailedJob
  <2>2. ~Phase(j)
    BY <1>1, <1>3 DEF Phase, Preparing, Pinned, Exists
  <2> HIDE DEF onward
  <2> QED BY <1>1, <2>1, <2>2, ReadMoves
<1> QED BY <1>2, <1>3

LEMMA ListExtrasMoves ==
    ASSUME TypeOK, NEW j \in Jobs, ListExtras(j) PROVE Moves(j)
<1> DEFINE assets == releases[Id(j)].assets
           extras == {n \in ExtraNames : assets[n] # None}
           pc == IF extras = {} THEN "verify" ELSE "delete_extra"
           onward == IF ~Exists(j) THEN Failed(j) ELSE ListingExtras(j, pc, assets, extras)
<1>1. /\ job[j].pc = "extras" /\ job[j].pc # "new" /\ Running(j)
      /\ Read(j, "extras", onward) /\ job' = onward /\ UNCHANGED <<releases, tag>>
  BY DEF ListExtras, Read, ListingExtras, Running
<1>2. CASE Exists(j)
  <2>1. assets \in [Names -> Asset \cup {None}] /\ extras \in SUBSET ExtraNames
        /\ assets # None
    BY <1>2, AssetsTypes, Assumptions
  <2>2. pc \in Steps /\ pc # "new" /\ pc \notin Syncing /\ pc \in {"verify", "delete_extra"}
    BY DEF Steps, Syncing
  <2>3. /\ \A k \in Jobs \ {j} : job'[k] = job[k]
        /\ KeepsBuild(job[j], job'[j]) /\ job'[j].release = job[j].release
        /\ job'[j].pc = pc /\ job'[j].listed = assets /\ job'[j].extras = extras
    <3>1. job' = ListingExtras(j, pc, assets, extras)
      BY <1>1, <1>2
    <3> HIDE DEF assets, extras, pc, onward
    <3> QED BY <1>1, <2>1, <2>2, <3>1, JobTypes, ExtrasJob
  <2>4. ASSUME Phase(j) PROVE Phase(j)'
    <3>1. Drafts /\ TagFree(j) /\ Pinned(j) /\ AllMatched(j)
      BY <1>1, <2>4 DEF Phase, Preparing, Filled
    <3>2. Id(j)' = Id(j)
      BY <2>3 DEF Id
    <3>3. (Drafts /\ TagFree(j) /\ Pinned(j))'
      BY <1>1, <2>3, <3>1, <3>2, SameStore DEF TagFree, Pinned, KeepsBuild
    <3>4. AllMatched(j)'
      BY <1>1, <2>3, <3>1, <3>2, SameBuild DEF AllMatched, Matched, KeepsBuild
    <3>5. ExtrasListed(j)'
      BY <1>1, <2>1, <2>3, <3>2 DEF ExtrasListed
    <3>6. pc = "verify" => \A n \in ExtraNames : assets[n] = None
      OBVIOUS
    <3>7. pc = "verify" => \A n \in ExtraNames : releases'[Id(j)'].assets[n] = None
      BY <1>1, <3>2, <3>6
    <3> HIDE DEF pc
    <3> QED BY <2>2, <2>3, <3>3, <3>4, <3>5, <3>7 DEF Phase, Preparing, Filled, Verified
  <2>5. pc # "failed" /\ pc # "publish"
    BY <2>2
  <2> HIDE DEF onward, pc
  <2> QED BY <1>1, <2>2, <2>3, <2>4, <2>5, ReadMoves
<1>3. CASE ~Exists(j)
  <2>1. /\ \A k \in Jobs \ {j} : onward[k] = job[k]
        /\ KeepsBuild(job[j], onward[j]) /\ onward[j].pc = "failed"
    BY <1>1, <1>3, JobTypes, FailedJob
  <2>2. ~Phase(j)
    BY <1>1, <1>3 DEF Phase, Preparing, Pinned, Exists
  <2> HIDE DEF onward
  <2> QED BY <1>1, <2>1, <2>2, ReadMoves
<1> QED BY <1>2, <1>3

\* The last check before the tag: the release has exactly the files.
LEMMA VerifyMoves ==
    ASSUME TypeOK, NEW j \in Jobs, Verify(j) PROVE Moves(j)
<1> DEFINE ok == Exists(j) /\ VerifyRemoteAssets(releases[Id(j)].assets, j)
<1>1. PICK s \in {"ensure_tag", "failed"} :
          Read(j, "verify", At(j, s)) /\ (s = "ensure_tag" <=> ok)
  BY DEF Verify, Failed, Read
<1>2. /\ job[j].pc = "verify" /\ job[j].pc # "new" /\ Running(j)
      /\ job' = At(j, s) /\ UNCHANGED <<releases, tag>>
      /\ s \in Steps /\ s \notin Syncing /\ s # "new" /\ s # "publish"
  BY <1>1 DEF Read, Running, Steps, Syncing
<1>3. /\ KeepsBuild(job[j], job'[j]) /\ job'[j].release = job[j].release /\ job'[j].pc = s
  BY <1>2, JobTypes, AtJob
<1>4. ASSUME Phase(j) PROVE s = "ensure_tag" /\ Phase(j)'
  <2>1. /\ Drafts /\ TagFree(j) /\ Pinned(j) /\ AllMatched(j)
        /\ \A n \in ExtraNames : releases[Id(j)].assets[n] = None
    BY <1>2, <1>4 DEF Phase, Preparing, Filled
  <2>2. Exists(j) /\ VerifyRemoteAssets(releases[Id(j)].assets, j)
    BY <2>1 DEF Exists, Pinned, VerifyRemoteAssets, AllMatched, Matched
  <2>3. Id(j)' = Id(j)
    BY <1>3 DEF Id
  <2>4. (Drafts /\ TagFree(j) /\ Pinned(j))'
    BY <1>2, <1>3, <2>1, <2>3, SameStore DEF TagFree, Pinned, KeepsBuild
  <2>5. VerifyRemoteAssets(releases[Id(j)].assets, j)'
    BY <1>2, <1>3, <2>2, <2>3, SameBuild DEF KeepsBuild
  <2>6. s = "ensure_tag"
    BY <1>1, <2>2
  <2> QED BY <1>3, <2>4, <2>5, <2>6 DEF Phase, Preparing, Filled, Verified
<1> QED BY <1>1, <1>2, <1>4, ReadAtMoves

\* ensure_exact_tag looks at the tag before and after it tries to create it.
LEMMA EnsureTagMoves ==
    ASSUME TypeOK, NEW j \in Jobs, EnsureTag(j) \/ ConfirmTag(j) PROVE Moves(j)
<1>1. PICK pc \in {"ensure_tag", "confirm_tag"}, s \in {"create_tag", "publish", "failed"} :
          /\ Read(j, pc, At(j, s))
          /\ s = "create_tag" => pc = "ensure_tag"
          /\ s = "publish" => tag = job[j].commit
          /\ s = "failed" => \/ pc = "ensure_tag" /\ tag \notin {None, job[j].commit}
                             \/ pc = "confirm_tag" /\ tag # job[j].commit
  <2>1. CASE EnsureTag(j)
    <3>1. Read(j, "ensure_tag", At(j, TagStep(j)))
      BY <2>1 DEF EnsureTag
    <3>2. /\ TagStep(j) \in {"create_tag", "publish", "failed"}
          /\ TagStep(j) = "publish" => tag = job[j].commit
          /\ TagStep(j) = "failed" => tag \notin {None, job[j].commit}
      BY DEF TagStep
    <3> HIDE DEF TagStep
    <3> QED BY <3>1, <3>2
  <2>2. CASE ConfirmTag(j)
    <3>1. CASE tag = job[j].commit
      <4>1. Read(j, "confirm_tag", At(j, "publish"))
        BY <2>2, <3>1 DEF ConfirmTag
      <4> QED BY <3>1, <4>1
    <3>2. CASE tag # job[j].commit
      <4>1. Read(j, "confirm_tag", At(j, "failed"))
        BY <2>2, <3>2 DEF ConfirmTag, Failed
      <4> QED BY <3>2, <4>1
    <3> QED BY <3>1, <3>2
  <2> QED BY <2>1, <2>2
<1>2. /\ job[j].pc = pc /\ job[j].pc # "new" /\ Running(j)
      /\ job' = At(j, s) /\ UNCHANGED <<releases, tag>>
      /\ s \in Steps /\ s \notin Syncing /\ s # "new"
  BY <1>1 DEF Read, Running, Steps, Syncing
<1>3. /\ KeepsBuild(job[j], job'[j]) /\ job'[j].release = job[j].release /\ job'[j].pc = s
  BY <1>2, JobTypes, AtJob
<1>4. ASSUME Phase(j) PROVE s # "failed" /\ Phase(j)'
  <2>1. /\ Drafts /\ TagFree(j) /\ Pinned(j)
        /\ VerifyRemoteAssets(releases[Id(j)].assets, j)
        /\ pc = "confirm_tag" => tag = job[j].commit
    BY <1>1, <1>2, <1>4 DEF Phase, Preparing, Verified
  <2>2. Id(j)' = Id(j)
    BY <1>3 DEF Id
  <2>3. (Drafts /\ TagFree(j) /\ Pinned(j))'
    BY <1>2, <1>3, <2>1, <2>2, SameStore DEF TagFree, Pinned, KeepsBuild
  <2>4. VerifyRemoteAssets(releases[Id(j)].assets, j)'
    BY <1>2, <1>3, <2>1, <2>2, SameBuild DEF KeepsBuild
  <2>5. s # "failed"
    BY <1>1, <2>1 DEF TagFree
  <2>6. s = "publish" => tag' = job'[j].commit
    BY <1>1, <1>2, <1>3 DEF KeepsBuild
  <2> QED BY <1>1, <1>3, <2>3, <2>4, <2>5, <2>6
             DEF Phase, Preparing, Filled, Verified, Drafts, Pinned
<1> QED BY <1>1, <1>2, <1>4, ReadAtMoves

\* The last looks at the tag and at the published release.
LEMMA CheckMoves ==
    ASSUME TypeOK, NEW j \in Jobs, CheckTag(j) \/ VerifyPublished(j) PROVE Moves(j)
<1>1. PICK pc \in {"check_tag", "verify_published"}, s \in {"verify_published", "done", "failed"} :
          /\ Read(j, pc, At(j, s))
          /\ s = "verify_published" => pc = "check_tag"
          /\ s = "failed" /\ pc = "check_tag" => tag # job[j].commit
  <2>1. CASE CheckTag(j) /\ tag = job[j].commit
    <3>1. Read(j, "check_tag", At(j, "verify_published"))
      BY <2>1 DEF CheckTag
    <3> QED BY <3>1
  <2>2. CASE CheckTag(j) /\ tag # job[j].commit
    <3>1. Read(j, "check_tag", At(j, "failed"))
      BY <2>2 DEF CheckTag, Failed
    <3> QED BY <2>2, <3>1
  <2>3. CASE VerifyPublished(j)
    <3>1. PICK s \in {"done", "failed"} : Read(j, "verify_published", At(j, s))
      BY <2>3 DEF VerifyPublished, Failed, Read
    <3> QED BY <3>1
  <2> QED BY <2>1, <2>2, <2>3
<1>2. /\ job[j].pc = pc /\ job[j].pc # "new" /\ Running(j)
      /\ job' = At(j, s) /\ UNCHANGED <<releases, tag>>
      /\ s \in Steps /\ s \notin Syncing /\ s # "new" /\ s # "publish"
  BY <1>1 DEF Read, Running, Steps, Syncing
<1>3. /\ KeepsBuild(job[j], job'[j]) /\ job'[j].release = job[j].release /\ job'[j].pc = s
  BY <1>2, JobTypes, AtJob
<1>4. ASSUME Phase(j) PROVE (Running(j)' => Phase(j)') /\ (s = "failed" => Taken(job[j].commit))
  <2>1. tag = job[j].commit /\ Published(Id(j))
    BY <1>1, <1>2, <1>4 DEF Phase
  <2>2. Id(j)' = Id(j)
    BY <1>3 DEF Id
  <2>3. tag' = job'[j].commit /\ Published(Id(j))'
    BY <1>2, <1>3, <2>1, <2>2, SameStore DEF Published, KeepsBuild
  <2>4. Taken(job[j].commit)
    BY <2>1 DEF Taken, Published
  <2>5. Running(j)' => s = "verify_published"
    BY <1>1, <1>3 DEF Running
  <2>6. s = "verify_published" => Phase(j)'
    BY <1>3, <2>3 DEF Phase, Preparing, Filled, Verified
  <2> QED BY <2>4, <2>5, <2>6
<1> QED BY <1>1, <1>2, <1>4, ReadAtMoves

-----------------------------------------------------------------------------
(* The requests that change something.                                      *)

\* A rejected request ends the job, which must have lost one before.
LEMMA RejectedMoves ==
    ASSUME TypeOK, NEW j \in Jobs, Running(j), job' = Failed(j),
           UNCHANGED <<releases, tag, overlapped>>, Phase(j) => ~job[j].clean
    PROVE  Moves(j)
<1>1. /\ \A k \in Jobs \ {j} : job'[k] = job[k]
      /\ KeepsBuild(job[j], job'[j]) /\ job'[j].pc = "failed"
  BY JobTypes, FailedJob DEF Running
<1>2. Frame(j)
  BY <1>1 DEF Frame, KeepsBuild
<1>3. TagMove(j)
  BY <1>1, SameStore DEF TagMove, Published, Ours
<1>4. SoloMove(j)
  BY <1>1 DEF SoloMove, Effect, Running, KeepsBuild
<1> QED BY <1>2, <1>3, <1>4 DEF Moves

\* What a job keeps that goes on, or that lost a request.
LEMMA AtFrame ==
    ASSUME TypeOK, NEW j \in Jobs, Running(j), overlapped' = overlapped,
           NEW s \in Steps, s # "new", s \in Syncing => job[j].pc \in Syncing,
           job' = At(j, s)
    PROVE  /\ Frame(j) /\ KeepsBuild(job[j], job'[j]) /\ job'[j].pc = s
           /\ job'[j].release = job[j].release /\ job'[j].listed = job[j].listed
           /\ job'[j].next = job[j].next /\ job'[j].extras = job[j].extras
<1>1. job[j].pc # "new"
  BY DEF Running
<1>2. /\ \A k \in Jobs \ {j} : job'[k] = job[k]
      /\ KeepsBuild(job[j], job'[j]) /\ job'[j].pc = s
      /\ job'[j].release = job[j].release /\ job'[j].listed = job[j].listed
      /\ job'[j].next = job[j].next /\ job'[j].extras = job[j].extras
  BY <1>1, JobTypes, AtJob
<1> QED BY <1>2 DEF Frame, KeepsBuild

LEMMA LostFrame ==
    ASSUME TypeOK, NEW j \in Jobs, Running(j), overlapped' = overlapped,
           NEW retry \in BOOLEAN, job' = Lost(j, retry)
    PROVE  /\ Frame(j) /\ ~job'[j].clean /\ (job'[j].pc = "publish" => job[j].pc = "publish")
           /\ job'[j].commit = job[j].commit /\ job'[j].build = job[j].build
           /\ Running(j)' =>
                 /\ job'[j].pc = job[j].pc /\ job'[j].release = job[j].release
                 /\ job'[j].listed = job[j].listed /\ job'[j].next = job[j].next
                 /\ job'[j].extras = job[j].extras
<1>1. job[j].pc # "new"
  BY DEF Running
<1>2. /\ \A k \in Jobs \ {j} : job'[k] = job[k]
      /\ ~job'[j].clean /\ job'[j].commit = job[j].commit /\ job'[j].build = job[j].build
      /\ \/ job'[j].pc = "failed"
         \/ /\ job'[j].pc = job[j].pc /\ job'[j].release = job[j].release
            /\ job'[j].listed = job[j].listed /\ job'[j].next = job[j].next
            /\ job'[j].extras = job[j].extras
  BY <1>1, JobTypes, LostJob
<1>3. Frame(j)
  BY <1>1, <1>2 DEF Frame
<1> QED BY <1>2, <1>3 DEF Running

LEMMA DeleteReleaseMoves ==
    ASSUME TypeOK, NEW j \in Jobs, DeleteRelease(j) PROVE Moves(j)
<1>1. /\ job[j].pc = "delete" /\ Running(j)
      /\ Call(j, Exists(j), With(Put(Id(j), None)), At(j, "create"), Failed(j), TRUE)
  BY DEF DeleteRelease, Put, Running
<1> DEFINE served == With(Put(Id(j), None))
<1>2. /\ overlapped' = overlapped
      /\ \/ /\ Exists(j) /\ releases' = served.releases /\ tag' = served.tag
            /\ job' = At(j, "create") \/ job' = Lost(j, TRUE)
         \/ /\ ~Exists(j) /\ UNCHANGED <<releases, tag>> /\ job' = Failed(j)
         \/ UNCHANGED <<releases, tag>> /\ job' = Lost(j, TRUE)
  <2>1. Call(j, Exists(j), served, At(j, "create"), Failed(j), TRUE)
    BY <1>1
  <2> HIDE DEF served
  <2> QED BY <2>1, CallOutcomes
<1>3. CASE Exists(j) /\ releases' = served.releases /\ tag' = served.tag
  <2>1. Id(j) \in Live /\ releases' = Put(Id(j), None) /\ tag' = tag
    BY <1>3 DEF Exists, With
  <2>2. Live' = Live \ {Id(j)} /\ \A id \in Live' : releases'[id] = releases[id]
    BY <2>1, DeleteLive
  <2>3. ASSUME Phase(j) PROVE Effect(j) /\ Live' = {} /\ tag = None
    BY <1>1, <2>1, <2>2, <2>3 DEF Phase, Effect
  <2>4. CASE job' = At(j, "create")
    <3>1. Frame(j) /\ job'[j].pc = "create"
      BY <1>1, <1>2, <2>4, AtFrame DEF Steps, Syncing
    <3>2. TagMove(j)
      BY <1>1, <2>1, <2>2, <3>1, NothingPublished
    <3>3. Phase(j) => Phase(j)'
      BY <2>1, <2>3, <3>1 DEF Phase, Preparing, Filled, Verified, Drafts, TagFree
    <3>4. SoloMove(j)
      BY <2>3, <3>1, <3>3 DEF SoloMove
    <3> QED BY <3>1, <3>2, <3>4 DEF Moves
  <2>5. CASE job' = Lost(j, TRUE)
    <3>1. /\ Frame(j) /\ ~job'[j].clean /\ job'[j].pc # "publish"
          /\ Running(j)' => job'[j].pc = "delete" /\ job'[j].release = job[j].release
      BY <1>1, <1>2, <2>5, LostFrame
    <3>2. TagMove(j)
      BY <1>1, <2>1, <2>2, <3>1, NothingPublished
    <3>3. Phase(j) /\ Running(j)' => Phase(j)'
      BY <2>1, <2>3, <3>1 DEF Phase, Preparing, Filled, Verified, Drafts, TagFree
    <3>4. SoloMove(j)
      BY <2>3, <3>1, <3>3 DEF SoloMove
    <3> QED BY <3>1, <3>2, <3>4 DEF Moves
  <2> QED BY <1>2, <1>3, <2>4, <2>5
<1>4. CASE ~Exists(j) /\ UNCHANGED <<releases, tag>> /\ job' = Failed(j)
  <2>1. Phase(j) => ~job[j].clean
    BY <1>1, <1>4 DEF Phase, Exists
  <2> QED BY <1>1, <1>2, <1>4, <2>1, RejectedMoves
<1>5. CASE UNCHANGED <<releases, tag>> /\ job' = Lost(j, TRUE)
  BY <1>1, <1>2, <1>5, LostBefore
<1> QED BY <1>2, <1>3, <1>4, <1>5

LEMMA CreateDraftMoves ==
    ASSUME TypeOK, NEW j \in Jobs, CreateDraft(j) PROVE Moves(j)
<1> DEFINE n == Len(releases) + 1
           new == [id |-> n, draft |-> TRUE, prerelease |-> FALSE,
                   target |-> job[j].commit]
           draft == NewDraft(job[j].commit)
           served == With(Append(releases, draft))
           accepted == ~\E k \in Live : Published(k)
           onward == Remember(j, "list", new)
<1>1. /\ job[j].pc = "create" /\ job[j].pc # "new" /\ Running(j)
      /\ Call(j, accepted, served, onward, Failed(j), TRUE)
  BY DEF CreateDraft, NewDraft, Remember, Running
<1>2. /\ overlapped' = overlapped
      /\ \/ /\ accepted /\ releases' = served.releases /\ tag' = served.tag
            /\ job' = onward \/ job' = Lost(j, TRUE)
         \/ /\ ~accepted /\ UNCHANGED <<releases, tag>> /\ job' = Failed(j)
         \/ UNCHANGED <<releases, tag>> /\ job' = Lost(j, TRUE)
  <2> HIDE DEF served, accepted, onward
  <2> QED BY <1>1, CallOutcomes
<1>3. CASE accepted /\ releases' = served.releases /\ tag' = served.tag
  <2>1. /\ job[j].commit \in Commits /\ draft \in Release /\ draft.draft
        /\ draft.target = job[j].commit /\ ~draft.prerelease
    BY <1>1, JobTypes, NewDraftRelease DEF NewDraft
  <2>2. releases' = Append(releases, draft) /\ tag' = tag
    BY <1>3 DEF With
  <2> HIDE DEF draft
  <2>3. /\ Live' = Live \cup {n} /\ releases'[n] = draft
        /\ \A id \in Live : id # n /\ releases'[id] = releases[id]
    BY <2>1, <2>2, AppendLive
  <2>4. Effect(j)
    BY <2>1, <2>2 DEF Effect
  <2>5. Phase(j) => Drafts' /\ TagFree(j)
    BY <1>1, <2>1, <2>3 DEF Phase, Drafts
  <2>6. CASE job' = onward
    <3>1. "list" \in Steps /\ "list" # "new" /\ "list" \notin Syncing
      BY DEF Steps, Syncing
    <3>2. new \in Found
      BY <2>1, LiveTypes DEF Found
    <3>3. /\ \A k \in Jobs \ {j} : job'[k] = job[k]
          /\ KeepsBuild(job[j], job'[j]) /\ job'[j].pc = "list" /\ job'[j].release = new
      <4> HIDE DEF new
      <4> QED BY <1>1, <2>6, <3>1, <3>2, JobTypes, FoundJob
    <3>4. Frame(j)
      BY <1>1, <1>2, <3>3 DEF Frame, KeepsBuild
    <3>5. TagMove(j)
      BY <1>1, <2>1, <2>2, <2>3, <3>3, NothingPublished
    <3>6. Phase(j) => Phase(j)'
      <4>1. Id(j)' = n
        BY <3>3 DEF Id
      <4>2. Phase(j) => (Drafts /\ TagFree(j) /\ Pinned(j))'
        BY <2>1, <2>2, <2>3, <2>5, <3>3, <4>1 DEF Pinned, TagFree, KeepsBuild
      <4> QED BY <3>3, <4>2 DEF Phase, Preparing, Filled, Verified
    <3>7. SoloMove(j)
      BY <2>4, <3>3, <3>6 DEF SoloMove
    <3> QED BY <3>4, <3>5, <3>7 DEF Moves
  <2>7. CASE job' = Lost(j, TRUE)
    <3>1. /\ Frame(j) /\ ~job'[j].clean /\ job'[j].pc # "publish"
          /\ job'[j].commit = job[j].commit
          /\ Running(j)' => job'[j].pc = "create" /\ job'[j].release = job[j].release
      BY <1>1, <1>2, <2>7, LostFrame
    <3>2. TagMove(j)
      BY <1>1, <2>1, <2>2, <2>3, <3>1, NothingPublished
    <3>3. Phase(j) /\ Running(j)' => Phase(j)'
      BY <2>2, <2>5, <3>1 DEF Phase, Preparing, Filled, Verified, TagFree
    <3>4. SoloMove(j)
      BY <2>4, <3>1, <3>3 DEF SoloMove
    <3> QED BY <3>1, <3>2, <3>4 DEF Moves
  <2> QED BY <1>2, <1>3, <2>6, <2>7
<1>4. CASE ~accepted /\ UNCHANGED <<releases, tag>> /\ job' = Failed(j)
  <2>1. ~Phase(j)
    BY <1>1, <1>4 DEF Phase, Drafts, Published
  <2> QED BY <1>1, <1>2, <1>4, <2>1, RejectedMoves
<1>5. CASE UNCHANGED <<releases, tag>> /\ job' = Lost(j, TRUE)
  BY <1>1, <1>2, <1>5, LostBefore
<1> QED BY <1>2, <1>3, <1>4, <1>5

LEMMA RetargetMoves ==
    ASSUME TypeOK, NEW j \in Jobs, Retarget(j) PROVE Moves(j)
<1> DEFINE r == Retargeted(releases[Id(j)], job[j].commit)
           served == With(Put(Id(j), r))
<1>1. /\ job[j].pc = "retarget" /\ job[j].pc # "new" /\ Running(j)
      /\ Call(j, Exists(j), served, At(j, "list"), Failed(j), TRUE)
  BY DEF Retarget, Put, Retargeted, Running
<1>2. /\ overlapped' = overlapped
      /\ \/ /\ Exists(j) /\ releases' = served.releases /\ tag' = served.tag
            /\ job' = At(j, "list") \/ job' = Lost(j, TRUE)
         \/ /\ ~Exists(j) /\ UNCHANGED <<releases, tag>> /\ job' = Failed(j)
         \/ UNCHANGED <<releases, tag>> /\ job' = Lost(j, TRUE)
  <2> HIDE DEF served
  <2> QED BY <1>1, CallOutcomes
<1>3. CASE Exists(j) /\ releases' = served.releases /\ tag' = served.tag
  <2>1. Id(j) \in Live /\ releases' = Put(Id(j), r) /\ tag' = tag
    BY <1>3 DEF Exists, With
  <2>2. /\ r \in Release /\ r.draft /\ ~r.prerelease /\ r.target = job[j].commit
        /\ r.publisher = None
    BY <1>1, <2>1, JobTypes, LiveTypes, RetargetedRelease
  <2> HIDE DEF r
  <2>3. /\ Live' = Live /\ releases'[Id(j)] = r
        /\ \A id \in Live : id # Id(j) => releases'[id] = releases[id]
    BY <2>1, <2>2, PutLive
  <2>4. Phase(j) => Effect(j) /\ Drafts' /\ TagFree(j)
    BY <1>1, <2>1, <2>2, <2>3 DEF Phase, Drafts, Effect
  <2>5. CASE job' = At(j, "list")
    <3>1. /\ Frame(j) /\ KeepsBuild(job[j], job'[j]) /\ job'[j].pc = "list"
          /\ job'[j].release = job[j].release
      BY <1>1, <1>2, <2>5, AtFrame DEF Steps, Syncing
    <3>2. TagMove(j)
      BY <1>1, <2>1, <2>2, <2>3, <3>1, NothingPublished
    <3>3. Phase(j) => Phase(j)'
      <4>1. Id(j)' = Id(j)
        BY <3>1 DEF Id
      <4>2. Phase(j) => (Drafts /\ TagFree(j) /\ Pinned(j))'
        BY <2>1, <2>2, <2>3, <2>4, <3>1, <4>1 DEF Pinned, TagFree, KeepsBuild
      <4> QED BY <3>1, <4>2 DEF Phase, Preparing, Filled, Verified
    <3>4. SoloMove(j)
      BY <2>4, <3>1, <3>3 DEF SoloMove
    <3> QED BY <3>1, <3>2, <3>4 DEF Moves
  <2>6. CASE job' = Lost(j, TRUE)
    <3>1. /\ Frame(j) /\ ~job'[j].clean /\ job'[j].pc # "publish"
          /\ job'[j].commit = job[j].commit
          /\ Running(j)' => job'[j].pc = "retarget" /\ job'[j].release = job[j].release
      BY <1>1, <1>2, <2>6, LostFrame
    <3>2. TagMove(j)
      BY <1>1, <2>1, <2>2, <2>3, <3>1, NothingPublished
    <3>3. Phase(j) /\ Running(j)' => Phase(j)'
      <4>1. Running(j)' => Id(j)' = Id(j)
        BY <3>1 DEF Id
      <4> QED BY <2>1, <2>3, <2>4, <3>1, <4>1 DEF Phase, Preparing, Filled, Verified, TagFree
    <3>4. SoloMove(j)
      BY <2>4, <3>1, <3>3 DEF SoloMove
    <3> QED BY <3>1, <3>2, <3>4 DEF Moves
  <2> QED BY <1>2, <1>3, <2>5, <2>6
<1>4. CASE ~Exists(j) /\ UNCHANGED <<releases, tag>> /\ job' = Failed(j)
  <2>1. ~Phase(j)
    BY <1>1, <1>4 DEF Phase, Exists
  <2> QED BY <1>1, <1>2, <1>4, <2>1, RejectedMoves
<1>5. CASE UNCHANGED <<releases, tag>> /\ job' = Lost(j, TRUE)
  BY <1>1, <1>2, <1>5, LostBefore
<1> QED BY <1>2, <1>3, <1>4, <1>5

\* A file of the job's release is replaced or deleted.
LEMMA AssetPut ==
    ASSUME TypeOK, NEW j \in Jobs, Frame(j), Id(j) \in Live, NEW name \in Names,
           NEW asset \in Asset \cup {None},
           releases' = Put(Id(j), WithAsset(releases[Id(j)], name, asset)), tag' = tag,
           job'[j].pc # "publish"
    PROVE  /\ TagMove(j) /\ (Drafts => Effect(j))
           /\ Live' = Live
           /\ releases'[Id(j)].assets[name] = asset
           /\ \A n \in Names : n # name =>
                 releases'[Id(j)].assets[n] = releases[Id(j)].assets[n]
           /\ job'[j].release = job[j].release =>
                 /\ Id(j)' = Id(j)
                 /\ Drafts /\ TagFree(j) /\ Pinned(j) => (Drafts /\ TagFree(j) /\ Pinned(j))'
<1> DEFINE r == WithAsset(releases[Id(j)], name, asset)
<1>1. /\ r \in Release /\ r.draft = releases[Id(j)].draft
      /\ r.prerelease = releases[Id(j)].prerelease
      /\ r.target = releases[Id(j)].target /\ r.publisher = releases[Id(j)].publisher
      /\ r.assets[name] = asset
      /\ \A n \in Names : n # name => r.assets[n] = releases[Id(j)].assets[n]
  BY LiveTypes, AssetRelease
<1>2. releases' = Put(Id(j), r)
  OBVIOUS
<1> HIDE DEF r
<1>3. /\ Live' = Live /\ releases'[Id(j)] = r
      /\ \A id \in Live : id # Id(j) => releases'[id] = releases[id]
  BY <1>1, <1>2, PutLive
<1>4. TagMove(j)
  BY <1>1, <1>3, NothingPublished DEF Frame
<1>5. Drafts => Effect(j)
  BY <1>1, <1>2 DEF Drafts, Effect
<1>6. ASSUME job'[j].release = job[j].release
      PROVE  /\ Id(j)' = Id(j)
             /\ Drafts /\ TagFree(j) /\ Pinned(j) => (Drafts /\ TagFree(j) /\ Pinned(j))'
  <2>1. Id(j)' = Id(j)
    BY <1>6 DEF Id
  <2> QED BY <1>1, <1>3, <2>1 DEF Frame, Drafts, TagFree, Pinned
<1> QED BY <1>1, <1>3, <1>4, <1>5, <1>6

\* Replacing the next file leaves the others as they are.
LEMMA SyncedPut ==
    ASSUME TypeOK, NEW j \in Jobs, job[j].pc \in Syncing, Synced(j),
           job'[j].build = job[j].build, job'[j].next = job[j].next,
           job'[j].listed = job[j].listed, Id(j)' = Id(j),
           \A n \in Names : n # AssetNames[job[j].next] =>
              releases'[Id(j)].assets[n] = releases[Id(j)].assets[n]
    PROVE  Synced(j)'
<1>1. job[j].next \in DOMAIN AssetNames /\ \A i \in DOMAIN AssetNames : i \in Nat
  BY Assumptions, TypesAreJobs DEF JobsOK
<1>2. \A i \in DOMAIN AssetNames : i # job[j].next =>
          releases'[Id(j)].assets[AssetNames[i]] = releases[Id(j)].assets[AssetNames[i]]
  BY <1>1, Assumptions
<1>3. \A asset : AssetMatches(asset, j) <=> AssetMatches(asset, j)'
  BY SameBuild
<1>4. ASSUME NEW i \in DOMAIN AssetNames
      PROVE  /\ i < job[j].next => Matched(j, i)'
             /\ i > job[j].next => releases'[Id(j)].assets[AssetNames[i]]
                                      = job[j].listed[AssetNames[i]]
  BY <1>1, <1>2, <1>3 DEF Synced, Matched
<1> QED BY <1>4 DEF Synced

LEMMA DeleteAssetMoves ==
    ASSUME TypeOK, NEW j \in Jobs, DeleteAsset(j) PROVE Moves(j)
<1> DEFINE name == AssetNames[job[j].next]
           accepted == AssetPresent(j, name)
           served == With(Put(Id(j), WithAsset(releases[Id(j)], name, None)))
<1>1. /\ job[j].pc = "delete_asset" /\ job[j].pc # "new" /\ Running(j)
      /\ Call(j, accepted, served, At(j, "upload"), Failed(j), TRUE)
  BY DEF DeleteAsset, Put, WithAsset, Running
<1>2. /\ overlapped' = overlapped
      /\ \/ /\ accepted /\ releases' = served.releases /\ tag' = served.tag
            /\ job' = At(j, "upload") \/ job' = Lost(j, TRUE)
         \/ /\ ~accepted /\ UNCHANGED <<releases, tag>> /\ job' = Failed(j)
         \/ UNCHANGED <<releases, tag>> /\ job' = Lost(j, TRUE)
  <2> HIDE DEF served, accepted
  <2> QED BY <1>1, CallOutcomes
<1>3. job[j].next \in DOMAIN AssetNames /\ name \in Names /\ job[j].pc \in Syncing
  BY <1>1, Assumptions, TypesAreJobs DEF JobsOK, Syncing
<1>4. Phase(j) => /\ Drafts /\ TagFree(j) /\ Pinned(j) /\ Synced(j)
                  /\ job[j].clean => job[j].listed[name] # None /\ NextIs(j, job[j].listed[name])
  BY <1>1 DEF Phase, Preparing
<1>5. CASE accepted /\ releases' = served.releases /\ tag' = served.tag
  <2>1. Id(j) \in Live /\ tag' = tag
        /\ releases' = Put(Id(j), WithAsset(releases[Id(j)], name, None))
    BY <1>5 DEF AssetPresent, Exists, With
  <2>2. ASSUME NEW pc \in {"upload", "delete_asset"}, Frame(j),
               Running(j)' => /\ job'[j].pc = pc /\ job'[j].release = job[j].release
                              /\ job'[j].listed = job[j].listed /\ job'[j].next = job[j].next
                              /\ pc = "delete_asset" => ~job'[j].clean,
               job'[j].pc # "publish", job'[j].pc = "failed" => ~job'[j].clean
        PROVE  Moves(j)
    <3>1. /\ TagMove(j) /\ (Drafts => Effect(j)) /\ releases'[Id(j)].assets[name] = None
          /\ \A n \in Names : n # name =>
                releases'[Id(j)].assets[n] = releases[Id(j)].assets[n]
          /\ job'[j].release = job[j].release =>
                /\ Id(j)' = Id(j)
                /\ Drafts /\ TagFree(j) /\ Pinned(j) => (Drafts /\ TagFree(j) /\ Pinned(j))'
      <4> HIDE DEF name
      <4> QED BY <1>3, <2>1, <2>2, AssetPut
    <3>2. ASSUME Phase(j), Running(j)' PROVE Phase(j)'
      <4>1. Id(j)' = Id(j) /\ (Drafts /\ TagFree(j) /\ Pinned(j))'
        BY <1>4, <2>2, <3>1, <3>2
      <4>2. Synced(j)'
        BY <1>3, <1>4, <2>2, <3>1, <3>2, <4>1, SyncedPut DEF Frame
      <4>3. NextIs(j, None)'
        BY <2>2, <3>1, <3>2, <4>1 DEF NextIs
      <4> QED BY <2>2, <3>2, <4>1, <4>2, <4>3 DEF Phase, Preparing, Filled, Verified
    <3>3. SoloMove(j)
      BY <1>4, <2>2, <3>1, <3>2 DEF SoloMove
    <3> QED BY <2>2, <3>1, <3>3 DEF Moves
  <2>3. CASE job' = At(j, "upload")
    <3>1. /\ Frame(j) /\ job'[j].pc = "upload" /\ job'[j].release = job[j].release
          /\ job'[j].listed = job[j].listed /\ job'[j].next = job[j].next
      BY <1>1, <1>2, <2>3, AtFrame DEF Steps, Syncing
    <3> QED BY <2>2, <3>1
  <2>4. CASE job' = Lost(j, TRUE)
    <3>1. /\ Frame(j) /\ ~job'[j].clean /\ job'[j].pc # "publish"
          /\ Running(j)' => /\ job'[j].pc = "delete_asset" /\ job'[j].release = job[j].release
                            /\ job'[j].listed = job[j].listed /\ job'[j].next = job[j].next
      BY <1>1, <1>2, <2>4, LostFrame
    <3> QED BY <2>2, <3>1
  <2> QED BY <1>2, <1>5, <2>3, <2>4
<1>6. CASE ~accepted /\ UNCHANGED <<releases, tag>> /\ job' = Failed(j)
  <2>1. Phase(j) => ~job[j].clean
    BY <1>1, <1>4, <1>6 DEF AssetPresent, Exists, Pinned, NextIs
  <2> QED BY <1>1, <1>2, <1>6, <2>1, RejectedMoves
<1>7. CASE UNCHANGED <<releases, tag>> /\ job' = Lost(j, TRUE)
  BY <1>1, <1>2, <1>7, LostBefore
<1> QED BY <1>2, <1>5, <1>6, <1>7

\* An upload that took effect, in whole or in part, and whose answer was lost.
LEMMA UploadLost ==
    ASSUME TypeOK, NEW j \in Jobs, job[j].pc = "upload", Running(j), overlapped' = overlapped,
           NEW asset \in Asset, Id(j) \in Live, tag' = tag, job' = Lost(j, TRUE),
           releases' = Put(Id(j), WithAsset(releases[Id(j)], AssetNames[job[j].next], asset))
    PROVE  Moves(j)
<1> DEFINE name == AssetNames[job[j].next]
<1>1. job[j].next \in DOMAIN AssetNames /\ name \in Names /\ job[j].pc \in Syncing
  BY Assumptions, TypesAreJobs DEF JobsOK, Syncing
<1>2. /\ Frame(j) /\ ~job'[j].clean /\ job'[j].pc # "publish"
      /\ Running(j)' => /\ job'[j].pc = "upload" /\ job'[j].release = job[j].release
                        /\ job'[j].listed = job[j].listed /\ job'[j].next = job[j].next
  BY LostFrame
<1>3. /\ TagMove(j) /\ (Drafts => Effect(j))
      /\ \A n \in Names : n # name =>
            releases'[Id(j)].assets[n] = releases[Id(j)].assets[n]
      /\ job'[j].release = job[j].release =>
            /\ Id(j)' = Id(j)
            /\ Drafts /\ TagFree(j) /\ Pinned(j) => (Drafts /\ TagFree(j) /\ Pinned(j))'
  <2> HIDE DEF name
  <2>1. releases' = Put(Id(j), WithAsset(releases[Id(j)], name, asset))
    BY DEF name
  <2> QED BY <1>1, <1>2, <2>1, AssetPut
<1>4. Phase(j) => Drafts /\ TagFree(j) /\ Pinned(j) /\ Synced(j)
  BY DEF Phase, Preparing
<1>5. ASSUME Phase(j), Running(j)' PROVE Phase(j)'
  <2>1. Id(j)' = Id(j) /\ (Drafts /\ TagFree(j) /\ Pinned(j))'
    BY <1>2, <1>3, <1>4, <1>5
  <2>2. Synced(j)'
    BY <1>1, <1>2, <1>3, <1>4, <1>5, <2>1, SyncedPut DEF Frame
  <2> QED BY <1>2, <1>5, <2>1, <2>2 DEF Phase, Preparing, Filled, Verified
<1>6. SoloMove(j)
  BY <1>2, <1>3, <1>4, <1>5 DEF SoloMove
<1> QED BY <1>2, <1>3, <1>6 DEF Moves

LEMMA UploadAssetMoves ==
    ASSUME TypeOK, NEW j \in Jobs, UploadAsset(j) PROVE Moves(j)
<1> DEFINE name == AssetNames[job[j].next]
           listed == job[j].listed
           n == job[j].next
           accepted == Exists(j) /\ releases[Id(j)].assets[name] = None
           asset(digest) == [digest |-> digest, by |-> j]
           served == With(Put(Id(j), WithAsset(releases[Id(j)], name, asset(job[j].build))))
           onward == Sync(j, listed, n + 1)
<1>1. job[j].pc = "upload" /\ job[j].pc # "new" /\ Running(j)
  BY DEF UploadAsset, Running
<1>2. /\ n \in DOMAIN AssetNames /\ n \in Nat /\ n + 1 \in Nat /\ n + 1 >= 1
      /\ name \in Names /\ listed \in [Names -> Asset \cup {None}] /\ job[j].pc \in Syncing
  BY <1>1, Assumptions, JobTypes DEF JobsOK, JobType, Syncing
<1>3. Phase(j) => /\ Drafts /\ TagFree(j) /\ Pinned(j) /\ Synced(j)
                  /\ job[j].clean => NextIs(j, None)
  BY <1>1 DEF Phase, Preparing
<1>4. asset(job[j].build) \in Asset /\ asset(None) \in Asset
  BY <1>1, JobTypes DEF Asset
<1>5. CASE Call(j, accepted, served, onward, Failed(j), TRUE)
  <2>1. /\ overlapped' = overlapped
        /\ \/ accepted /\ releases' = served.releases /\ tag' = served.tag /\ job' = onward
           \/ /\ accepted /\ releases' = served.releases /\ tag' = served.tag
              /\ job' = Lost(j, TRUE)
           \/ ~accepted /\ UNCHANGED <<releases, tag>> /\ job' = Failed(j)
           \/ UNCHANGED <<releases, tag>> /\ job' = Lost(j, TRUE)
    <3> HIDE DEF served, accepted, onward
    <3> QED BY <1>5, CallOutcomes
  <2>2. CASE accepted /\ releases' = served.releases /\ tag' = served.tag /\ job' = Lost(j, TRUE)
    <3>1. Id(j) \in Live /\ tag' = tag
          /\ releases' = Put(Id(j), WithAsset(releases[Id(j)], name, asset(job[j].build)))
      BY <2>2 DEF Exists, With
    <3> HIDE DEF asset
    <3> QED BY <1>1, <1>4, <2>1, <2>2, <3>1, UploadLost
  <2>3. CASE accepted /\ releases' = served.releases /\ tag' = served.tag /\ job' = onward
    <3>1. Id(j) \in Live /\ tag' = tag
          /\ releases' = Put(Id(j), WithAsset(releases[Id(j)], name, asset(job[j].build)))
      BY <2>3 DEF Exists, With
    <3>2. /\ \A k \in Jobs \ {j} : job'[k] = job[k]
          /\ KeepsBuild(job[j], job'[j]) /\ job'[j].release = job[j].release
          /\ job'[j].pc \in {"extras", "upload", "delete_asset"}
      <4> HIDE DEF listed, n
      <4> QED BY <1>1, <1>2, <2>3, JobTypes, SyncJob
    <3>3. Frame(j) /\ job'[j].pc # "publish" /\ job'[j].pc # "failed"
      BY <1>1, <2>1, <3>2 DEF Frame, KeepsBuild
    <3>4. /\ TagMove(j) /\ (Drafts => Effect(j))
          /\ releases'[Id(j)].assets[name] = asset(job[j].build)
          /\ \A m \in Names : m # name =>
                releases'[Id(j)].assets[m] = releases[Id(j)].assets[m]
          /\ Drafts /\ TagFree(j) /\ Pinned(j) => (Drafts /\ TagFree(j) /\ Pinned(j))'
      <4> HIDE DEF name, asset
      <4> QED BY <1>2, <1>4, <3>1, <3>2, <3>3, AssetPut
    <3>5. ASSUME Phase(j) PROVE Phase(j)'
      <4>1. AssetMatches(asset(job[j].build), j)
        BY <1>4, Assumptions DEF AssetMatches
      <4>2. ASSUME NEW k \in DOMAIN AssetNames
            PROVE  /\ k < n + 1 =>
                         AssetMatches(releases'[Id(j)].assets[AssetNames[k]], j)
                   /\ k >= n + 1 =>
                         releases'[Id(j)].assets[AssetNames[k]] = listed[AssetNames[k]]
        <5>1. k \in Nat /\ AssetNames[k] \in Names /\ (AssetNames[k] = name => k = n)
          BY <1>2, Assumptions
        <5>2. CASE k = n
          BY <1>2, <3>4, <4>1, <5>1, <5>2
        <5>3. CASE k # n
          <6>1. releases'[Id(j)].assets[AssetNames[k]] = releases[Id(j)].assets[AssetNames[k]]
            BY <3>4, <5>1, <5>3
          <6>2. /\ k < n => AssetMatches(releases[Id(j)].assets[AssetNames[k]], j)
                /\ k > n => releases[Id(j)].assets[AssetNames[k]] = listed[AssetNames[k]]
            BY <1>3, <3>5 DEF Synced, Matched
          <6> QED BY <1>2, <5>1, <5>3, <6>1, <6>2
        <5> QED BY <5>2, <5>3
      <4>3. (Drafts /\ TagFree(j) /\ Pinned(j))'
        BY <1>3, <3>4, <3>5
      <4>4. PICK i \in Nat : i = n + 1 /\ i >= 1
        BY <1>2
      <4> HIDE DEF listed, n
      <4> QED BY <1>1, <1>2, <2>3, <4>2, <4>3, <4>4, SyncPhase
    <3>6. SoloMove(j)
      BY <1>3, <3>3, <3>4, <3>5 DEF SoloMove
    <3> QED BY <3>3, <3>4, <3>6 DEF Moves
  <2>4. CASE ~accepted /\ UNCHANGED <<releases, tag>> /\ job' = Failed(j)
    <3>1. Phase(j) => ~job[j].clean
      BY <1>3, <2>4 DEF Exists, Pinned, NextIs
    <3> QED BY <1>1, <2>1, <2>4, <3>1, RejectedMoves
  <2>5. CASE UNCHANGED <<releases, tag>> /\ job' = Lost(j, TRUE)
    BY <1>1, <2>1, <2>5, LostBefore
  <2> QED BY <2>1, <2>2, <2>3, <2>4, <2>5
<1>6. CASE /\ accepted /\ job' = Lost(j, TRUE) /\ UNCHANGED <<tag, overlapped>>
           /\ releases' = Put(Id(j), WithAsset(releases[Id(j)], name, asset(None)))
  <2>1. Id(j) \in Live
    BY <1>6 DEF Exists
  <2> HIDE DEF asset
  <2> QED BY <1>1, <1>4, <1>6, <2>1, UploadLost
<1> QED BY <1>5, <1>6 DEF UploadAsset, Put, WithAsset

LEMMA DeleteExtraMoves ==
    ASSUME TypeOK, NEW j \in Jobs, DeleteExtra(j) PROVE Moves(j)
<1>1. job[j].pc = "delete_extra" /\ job[j].pc # "new" /\ Running(j)
  BY DEF DeleteExtra, Running
<1> DEFINE next(name) == IF job[j].extras = {name} THEN "verify" ELSE "delete_extra"
           served(name) == With(Put(Id(j), WithAsset(releases[Id(j)], name, None)))
<1>2. PICK name \in job[j].extras :
          Call(j, AssetPresent(j, name), served(name),
               WithoutExtra(j, next(name), name), Failed(j), TRUE)
  BY DEF DeleteExtra, Put, WithAsset, WithoutExtra
<1> DEFINE accepted == AssetPresent(j, name)
           pc == next(name)
           onward == WithoutExtra(j, pc, name)
<1>3. /\ overlapped' = overlapped
      /\ \/ accepted /\ releases' = served(name).releases /\ tag' = served(name).tag
            /\ (job' = onward \/ job' = Lost(j, TRUE))
         \/ ~accepted /\ UNCHANGED <<releases, tag>> /\ job' = Failed(j)
         \/ UNCHANGED <<releases, tag>> /\ job' = Lost(j, TRUE)
  <2>1. Call(j, accepted, served(name), onward, Failed(j), TRUE)
    BY <1>2
  <2> HIDE DEF served, accepted, onward
  <2> QED BY <2>1, CallOutcomes
<1>4. name \in Names /\ name \in ExtraNames /\ ExtraNames \subseteq Names
  BY <1>1, JobTypes, Assumptions DEF JobType
<1>5. pc \in Steps /\ pc # "new" /\ pc \notin Syncing /\ pc \in {"verify", "delete_extra"}
      /\ (pc = "verify" => job[j].extras = {name})
  BY DEF Steps, Syncing
<1> HIDE DEF pc
<1>6. Phase(j) => Drafts /\ TagFree(j) /\ Pinned(j) /\ AllMatched(j) /\ ExtrasListed(j)
  BY <1>1 DEF Phase, Preparing, Filled
<1>7. CASE accepted /\ releases' = served(name).releases /\ tag' = served(name).tag
  <2>1. Id(j) \in Live /\ tag' = tag
        /\ releases' = Put(Id(j), WithAsset(releases[Id(j)], name, None))
    BY <1>7 DEF AssetPresent, Exists, With
  <2>2. ASSUME Frame(j), job'[j].pc # "publish", job'[j].pc = "failed" => ~job'[j].clean,
               Running(j)' => /\ job'[j].release = job[j].release
                              /\ job'[j].listed = job[j].listed
                              /\ \/ job'[j].pc = pc /\ job'[j].extras = job[j].extras \ {name}
                                 \/ /\ job'[j].pc = "delete_extra" /\ ~job'[j].clean
                                    /\ job'[j].extras = job[j].extras
        PROVE  Moves(j)
    <3>1. /\ TagMove(j) /\ (Drafts => Effect(j)) /\ releases'[Id(j)].assets[name] = None
          /\ \A n \in Names : n # name =>
                releases'[Id(j)].assets[n] = releases[Id(j)].assets[n]
          /\ job'[j].release = job[j].release =>
                /\ Id(j)' = Id(j)
                /\ Drafts /\ TagFree(j) /\ Pinned(j) => (Drafts /\ TagFree(j) /\ Pinned(j))'
      BY <1>4, <2>1, <2>2, AssetPut
    <3>2. ASSUME Phase(j), Running(j)' PROVE Phase(j)'
      <4>1. Id(j)' = Id(j) /\ (Drafts /\ TagFree(j) /\ Pinned(j))'
        BY <1>6, <2>2, <3>1, <3>2
      <4>2. AllMatched(j)'
        <5>1. \A i \in DOMAIN AssetNames : AssetNames[i] \in Names /\ AssetNames[i] # name
          BY <1>4, Assumptions
        <5>2. \A asset : AssetMatches(asset, j) <=> AssetMatches(asset, j)'
          BY <2>2, SameBuild DEF Frame
        <5> QED BY <1>6, <3>1, <3>2, <4>1, <5>1, <5>2 DEF AllMatched, Matched
      <4>3. \A n \in ExtraNames \ (job[j].extras \ {name}) :
                releases'[Id(j)].assets[n] = None
        <5> SUFFICES ASSUME NEW n \in ExtraNames, n \notin job[j].extras \ {name}
                     PROVE  releases'[Id(j)].assets[n] = None
          OBVIOUS
        <5>1. CASE n = name
          BY <3>1, <5>1
        <5>2. CASE n # name
          BY <1>4, <1>6, <3>1, <3>2, <5>2 DEF ExtrasListed
        <5> QED BY <5>1, <5>2
      <4>4. CASE job'[j].pc = pc /\ job'[j].extras = job[j].extras \ {name}
        <5>1. ExtrasListed(j)'
          <6>1. job'[j].listed # None
            BY <1>6, <2>2, <3>2 DEF ExtrasListed
          <6>2. ASSUME job'[j].clean, NEW n \in job[j].extras \ {name}
                PROVE  /\ releases'[Id(j)].assets[n] # None
                       /\ releases'[Id(j)].assets[n] = job[j].listed[n]
            <7>1. n \in Names /\ n # name
              BY <1>1, <1>4, <6>2, JobTypes DEF JobType
            <7>2. /\ releases[Id(j)].assets[n] # None
                  /\ releases[Id(j)].assets[n] = job[j].listed[n]
              BY <1>6, <2>2, <3>2, <6>2 DEF ExtrasListed, Frame
            <7> QED BY <3>1, <7>1, <7>2
          <6> QED BY <2>2, <3>2, <4>1, <4>3, <4>4, <6>1, <6>2 DEF ExtrasListed
        <5>2. pc = "verify" => \A n \in ExtraNames : releases'[Id(j)].assets[n] = None
          BY <1>5, <4>3
        <5> QED BY <1>5, <4>1, <4>2, <4>4, <5>1, <5>2 DEF Phase, Preparing, Filled, Verified
      <4>5. CASE /\ job'[j].pc = "delete_extra" /\ ~job'[j].clean
                 /\ job'[j].extras = job[j].extras
        <5>1. ExtrasListed(j)'
          BY <1>6, <2>2, <3>2, <4>1, <4>3, <4>5 DEF ExtrasListed
        <5> QED BY <4>1, <4>2, <4>5, <5>1 DEF Phase, Preparing, Filled, Verified
      <4> QED BY <2>2, <3>2, <4>4, <4>5
    <3>3. SoloMove(j)
      BY <1>6, <2>2, <3>1, <3>2 DEF SoloMove
    <3> QED BY <2>2, <3>1, <3>3 DEF Moves
  <2>3. CASE job' = onward
    <3>1. /\ \A k \in Jobs \ {j} : job'[k] = job[k]
          /\ KeepsBuild(job[j], job'[j]) /\ job'[j].pc = pc
          /\ job'[j].release = job[j].release /\ job'[j].listed = job[j].listed
          /\ job'[j].extras = job[j].extras \ {name}
      BY <1>1, <1>5, <2>3, JobTypes, DeletedJob
    <3>2. Frame(j)
      BY <1>1, <1>3, <1>5, <3>1 DEF Frame, KeepsBuild
    <3> QED BY <1>5, <2>2, <3>1, <3>2
  <2>4. CASE job' = Lost(j, TRUE)
    <3>1. /\ Frame(j) /\ ~job'[j].clean /\ job'[j].pc # "publish"
          /\ Running(j)' => /\ job'[j].pc = "delete_extra" /\ job'[j].release = job[j].release
                            /\ job'[j].listed = job[j].listed
                            /\ job'[j].extras = job[j].extras
      BY <1>1, <1>3, <2>4, LostFrame
    <3> QED BY <2>2, <3>1
  <2> QED BY <1>3, <1>7, <2>3, <2>4
<1>8. CASE ~accepted /\ UNCHANGED <<releases, tag>> /\ job' = Failed(j)
  <2>1. Phase(j) => ~job[j].clean
    BY <1>6, <1>8 DEF AssetPresent, Exists, Pinned, ExtrasListed
  <2> QED BY <1>1, <1>3, <1>8, <2>1, RejectedMoves
<1>9. CASE UNCHANGED <<releases, tag>> /\ job' = Lost(j, TRUE)
  BY <1>1, <1>3, <1>9, LostBefore
<1> QED BY <1>3, <1>7, <1>8, <1>9

LEMMA CreateTagRefMoves ==
    ASSUME TypeOK, NEW j \in Jobs, CreateTagRef(j) PROVE Moves(j)
<1> DEFINE served == [releases |-> releases, tag |-> job[j].commit]
           accepted == tag = None
           onward == At(j, "confirm_tag")
<1>1. /\ job[j].pc = "create_tag" /\ job[j].pc # "new" /\ Running(j)
      /\ Call(j, accepted, served, onward, onward, FALSE)
  BY DEF CreateTagRef, Running
<1>2. /\ overlapped' = overlapped
      /\ \/ /\ accepted /\ releases' = served.releases /\ tag' = served.tag
            /\ job' = onward \/ job' = Lost(j, FALSE)
         \/ ~accepted /\ UNCHANGED <<releases, tag>> /\ job' = onward
         \/ UNCHANGED <<releases, tag>> /\ job' = Lost(j, FALSE)
  <2>1. Call(j, accepted, served, onward, onward, FALSE)
    BY <1>1
  <2> HIDE DEF served, accepted, onward
  <2>2. /\ overlapped' = overlapped
        /\ \/ accepted /\ releases' = served.releases /\ tag' = served.tag /\ job' = onward
           \/ ~accepted /\ UNCHANGED <<releases, tag>> /\ job' = onward
           \/ /\ accepted /\ releases' = served.releases /\ tag' = served.tag
              /\ job' = Lost(j, FALSE)
           \/ UNCHANGED <<releases, tag>> /\ job' = Lost(j, FALSE)
    BY <2>1, CallOutcomes
  <2> QED BY <2>2
<1>3. CASE UNCHANGED <<releases, tag>> /\ job' = Lost(j, FALSE)
  BY <1>1, <1>2, <1>3, LostBefore
<1>4. CASE /\ releases' = releases
           /\ \/ tag = None /\ tag' = job[j].commit
              \/ tag # None /\ tag' = tag
           /\ job' = onward \/ (job' = Lost(j, FALSE) /\ tag = None)
  <2>1. /\ Frame(j) /\ job'[j].pc # "publish" /\ (job'[j].pc = "failed" => ~job'[j].clean)
        /\ job'[j].build = job[j].build /\ job'[j].commit = job[j].commit
        /\ Running(j)' => /\ job'[j].release = job[j].release
                          /\ \/ job'[j].pc = "confirm_tag"
                             \/ job'[j].pc = "create_tag" /\ tag = None
    <3>1. CASE job' = onward
      BY <1>1, <1>2, <3>1, AtFrame DEF Steps, Syncing, KeepsBuild
    <3>2. CASE job' = Lost(j, FALSE) /\ tag = None
      BY <1>1, <1>2, <3>2, LostFrame
    <3> QED BY <1>4, <3>1, <3>2
  <2>2. Live' = Live
    BY <1>4 DEF Live
  <2>3. TagMove(j)
    BY <1>4, <2>1, <2>2 DEF TagMove, Published, Ours
  <2>4. Effect(j)
    BY <1>1, <1>4, JobTypes DEF Effect
  <2>5. ASSUME Phase(j), Running(j)' PROVE Phase(j)'
    <3>1. Drafts /\ TagFree(j) /\ Pinned(j) /\ VerifyRemoteAssets(releases[Id(j)].assets, j)
      BY <1>1, <2>5 DEF Phase, Preparing, Verified
    <3>2. Id(j)' = Id(j)
      BY <2>1, <2>5 DEF Id
    <3>3. tag' = job'[j].commit
      BY <1>4, <2>1, <3>1 DEF TagFree
    <3>4. Drafts' /\ Pinned(j)' /\ TagFree(j)'
      BY <1>4, <2>1, <2>2, <3>1, <3>2, <3>3 DEF Drafts, Pinned, TagFree
    <3>5. VerifyRemoteAssets(releases[Id(j)].assets, j)'
      BY <1>4, <2>1, <3>1, <3>2, SameBuild
    <3> QED BY <2>1, <2>5, <3>3, <3>4, <3>5 DEF Phase, Preparing, Filled, Verified
  <2>6. SoloMove(j)
    BY <2>1, <2>4, <2>5 DEF SoloMove
  <2> QED BY <2>1, <2>3, <2>6 DEF Moves
<1>5. CASE accepted /\ releases' = served.releases /\ tag' = served.tag
  <2>1. tag = None /\ tag' = job[j].commit /\ releases' = releases
    BY <1>5
  <2>2. job' = onward \/ job' = Lost(j, FALSE)
    BY <1>2, <2>1
  <2> HIDE DEF onward
  <2> QED BY <1>4, <2>1, <2>2
<1>6. CASE ~accepted /\ UNCHANGED <<releases, tag>> /\ job' = onward
  BY <1>4, <1>6
<1> HIDE DEF served, accepted, onward
<1> QED BY <1>2, <1>3, <1>5, <1>6

\* A complete draft is published; if the answer to an earlier request was lost,
\* the release is published already, and stays as it is.
LEMMA PublishMoves ==
    ASSUME TypeOK, NEW j \in Jobs, Publish(j) PROVE Moves(j)
<1> DEFINE old == releases[Id(j)]
           r == PublishedBy(old, job[j].commit, j)
           served == With(Put(Id(j), r))
           accepted == Exists(j) /\ \A id \in Live \ {Id(j)} : ~Published(id)
<1>1. /\ job[j].pc = "publish" /\ job[j].pc # "new" /\ Running(j)
      /\ Call(j, accepted, served, At(j, "check_tag"), Failed(j), TRUE)
  BY DEF Publish, Put, PublishedBy, Running
<1>2. /\ overlapped' = overlapped
      /\ \/ /\ accepted /\ releases' = served.releases /\ tag' = served.tag
            /\ job' = At(j, "check_tag") \/ job' = Lost(j, TRUE)
         \/ /\ ~accepted /\ UNCHANGED <<releases, tag>> /\ job' = Failed(j)
         \/ UNCHANGED <<releases, tag>> /\ job' = Lost(j, TRUE)
  <2> HIDE DEF served, accepted
  <2> QED BY <1>1, CallOutcomes
<1>3. CASE accepted /\ releases' = served.releases /\ tag' = served.tag
  <2>1. Id(j) \in Live /\ releases' = Put(Id(j), r) /\ tag' = tag
    BY <1>3 DEF Exists, With
  <2>2. /\ job[j].commit \in Commits
        /\ job[j].build \in Builds /\ job[j].commit = job[j].build[1]
        /\ old \in Release
    BY <1>1, <2>1, JobTypes, LiveTypes
  <2>3. /\ r \in Release /\ ~r.draft /\ ~r.prerelease /\ r.target = job[j].commit
        /\ r.assets = old.assets /\ r.publisher = j
        /\ ~old.draft /\ ~old.prerelease /\ old.target = job[j].commit
              /\ old.publisher = j => r = old
    BY <2>2, PublishedRelease
  <2> HIDE DEF r
  <2>4. /\ Live' = Live /\ releases'[Id(j)] = r
        /\ \A id \in Live : id # Id(j) => releases'[id] = releases[id]
    BY <2>1, <2>3, PutLive
  <2>5. ASSUME Phase(j) PROVE Effect(j)
    <3>1. /\ tag = job[j].commit /\ Pinned(j) /\ VerifyRemoteAssets(old.assets, j)
          /\ old.draft \/ old.publisher = j
      BY <1>1, <2>5 DEF Phase, Verified
    <3>2. CASE old.draft
      <4>1. VerifyRemoteAssets(releases'[Id(j)].assets, j)
        BY <2>3, <2>4, <3>1
      <4>2. PICK x, build : x = Id(j) /\ build = job[j].build
        OBVIOUS
      <4>3. /\ x \in Live /\ build \in Builds /\ releases[x].draft
            /\ releases' = Put(x, r) /\ tag' = tag
        BY <2>1, <2>2, <3>2, <4>2
      <4>4. /\ \A i \in DOMAIN AssetNames :
                  /\ releases'[x].assets[AssetNames[i]] # None
                  /\ releases'[x].assets[AssetNames[i]].digest = build
            /\ \A n \in ExtraNames : releases'[x].assets[n] = None
        BY <4>1, <4>2 DEF VerifyRemoteAssets, AssetMatches
      <4>5. /\ x \in Live' /\ ~releases'[x].draft /\ ~releases'[x].prerelease
            /\ releases'[x].target = build[1] /\ tag' = build[1]
        BY <2>1, <2>2, <2>3, <2>4, <3>1, <4>2
      <4>6. Complete(x, build)'
        BY <4>4, <4>5 DEF Complete, Published
      <4> QED BY <2>3, <4>3, <4>6 DEF Effect
    <3>3. CASE ~old.draft
      <4>1. r = old
        BY <2>3, <3>1, <3>3 DEF Pinned
      <4>2. releases' = releases
        BY <2>1, <4>1, LiveTypes DEF Put
      <4> QED BY <2>1, <4>2 DEF Effect
    <3> QED BY <3>2, <3>3
  <2>6. ASSUME Phase(j), Running(j)', Id(j)' = Id(j),
               job'[j].build = job[j].build, job'[j].commit = job[j].commit,
               job'[j].pc \in {"publish", "check_tag"}
        PROVE  Phase(j)'
    <3>1. /\ tag = job[j].commit /\ VerifyRemoteAssets(old.assets, j)
          /\ \A id \in Live \ {Id(j)} : releases[id].draft
      BY <1>1, <2>6 DEF Phase, Verified
    <3>2. VerifyRemoteAssets(releases[Id(j)].assets, j)'
      BY <2>3, <2>4, <2>6, <3>1, SameBuild
    <3>3. tag' = job'[j].commit /\ Published(Id(j))' /\ Pinned(j)'
      BY <2>1, <2>3, <2>4, <2>6, <3>1 DEF Published, Pinned
    <3>4. \A id \in Live' \ {Id(j)'} : releases'[id].draft
      BY <2>4, <2>6, <3>1
    <3>5. releases'[Id(j)'].publisher = j
      BY <2>3, <2>4, <2>6
    <3> QED BY <2>6, <3>2, <3>3, <3>4, <3>5 DEF Phase, Preparing, Filled, Verified
  <2>7. CASE job' = At(j, "check_tag")
    <3>1. /\ Frame(j) /\ KeepsBuild(job[j], job'[j]) /\ job'[j].pc = "check_tag"
          /\ job'[j].release = job[j].release
      BY <1>1, <1>2, <2>7, AtFrame DEF Steps, Syncing
    <3>2. TagMove(j)
      BY <1>1, <2>1, <2>3, <2>4, <3>1 DEF TagMove, Published, Ours
    <3>3. Phase(j) => Phase(j)'
      BY <2>6, <3>1 DEF KeepsBuild, Running, Id
    <3> QED BY <2>5, <3>1, <3>2, <3>3 DEF Moves, SoloMove
  <2>8. CASE job' = Lost(j, TRUE)
    <3>1. /\ Frame(j) /\ ~job'[j].clean
          /\ job'[j].commit = job[j].commit /\ job'[j].build = job[j].build
          /\ Running(j)' => job'[j].pc = "publish" /\ job'[j].release = job[j].release
      BY <1>1, <1>2, <2>8, LostFrame
    <3>2. TagMove(j)
      BY <1>1, <2>1, <2>3, <2>4, <3>1 DEF TagMove, Published, Ours
    <3>3. Phase(j) /\ Running(j)' => Phase(j)'
      BY <2>6, <3>1 DEF Id
    <3> QED BY <2>5, <3>1, <3>2, <3>3 DEF Moves, SoloMove
  <2> QED BY <1>2, <1>3, <2>7, <2>8
<1>4. CASE ~accepted /\ UNCHANGED <<releases, tag>> /\ job' = Failed(j)
  <2>1. ~Phase(j)
    BY <1>1, <1>4 DEF Phase, Exists, Pinned, Published
  <2> QED BY <1>1, <1>2, <1>4, <2>1, RejectedMoves
<1>5. CASE UNCHANGED <<releases, tag>> /\ job' = Lost(j, TRUE)
  BY <1>1, <1>2, <1>5, LostBefore
<1> HIDE DEF served, accepted
<1> QED BY <1>2, <1>3, <1>4, <1>5

LEMMA CrashMoves ==
    ASSUME TypeOK, NEW j \in Jobs, Crash(j) PROVE Moves(j)
BY LostBefore DEF Crash

\* What every step of a job does.
LEMMA StepMoves ==
    ASSUME TypeOK, NEW j \in Jobs, Step(j) PROVE Moves(j)
BY FindReleaseMoves, InspectMoves, DeleteReleaseMoves, CreateDraftMoves, RetargetMoves,
   ListAssetsMoves, DeleteAssetMoves, UploadAssetMoves, ListExtrasMoves, DeleteExtraMoves,
   VerifyMoves, EnsureTagMoves, CreateTagRefMoves, PublishMoves, CheckMoves, CrashMoves
   DEF Step
-----------------------------------------------------------------------------
(* What is kept.                                                            *)

\* However jobs overlap: the tag is created once and never moved, and nobody
\* publishes who has not seen it at his commit.
LEMMA TagKept ==
    ASSUME TypeOK, TagOK, NEW j \in Jobs, Moves(j) PROVE TagOK'
<1>1. Frame(j) /\ TagMove(j)
  BY DEF Moves
<1>2. \A k \in Jobs : job[k].pc = "publish" => job[k].commit # None
  BY JobTypes, Assumptions
<1>3. ASSUME NEW k \in Jobs, job'[k].pc = "publish" PROVE tag' = job'[k].commit
  <2>1. CASE k = j
    BY <1>1, <1>3, <2>1 DEF TagOK, TagMove, Frame
  <2>2. CASE k # j
    BY <1>1, <1>2, <1>3, <2>2 DEF TagOK, TagMove, Frame
  <2> QED BY <2>1, <2>2
<1>4. ASSUME NEW id \in Live', Published(id)', Ours(id)'
      PROVE  releases'[id].target = tag' /\ tag' # None
  <2>1. CASE /\ id \in Live /\ Published(id) /\ Ours(id)
             /\ releases'[id].target = releases[id].target
    BY <1>1, <2>1 DEF TagOK, TagMove
  <2>2. CASE job[j].pc = "publish" /\ releases'[id].target = job[j].commit
    BY <1>1, <1>2, <2>2 DEF TagOK, TagMove
  <2> QED BY <1>1, <1>4, <2>1, <2>2 DEF TagMove
<1> QED BY <1>3, <1>4 DEF TagOK

\* A release that no step touched is as complete as before.
LEMMA CompleteStays ==
    ASSUME NEW id \in Live', id \in Live, NEW build, Complete(id, build),
           tag' = tag, releases'[id] = releases[id]
    PROVE  Complete(id, build)'
BY DEF Complete, Published

\* A job that runs alone does not touch a complete release.
LEMMA CompleteKept ==
    ASSUME TypeOK, NEW j \in Jobs, Effect(j), NEW id \in Live, NEW build \in Builds,
           Complete(id, build)
    PROVE  id \in Live' /\ releases'[id] = releases[id] /\ tag' = tag
<1>1. tag # None /\ ~releases[id].draft
  BY Assumptions DEF Complete, Published, Builds
<1>2. CASE UNCHANGED <<releases, tag>>
  BY <1>2, SameStore
<1>3. CASE (\E r \in Release : releases' = Append(releases, r)) /\ UNCHANGED tag
  BY <1>3, AppendLive
<1>4. ASSUME NEW x \in Live, NEW r \in Release, releases[x].draft, releases' = Put(x, r)
      PROVE  id \in Live' /\ releases'[id] = releases[id]
  BY <1>1, <1>4, PutLive
<1> QED BY <1>1, <1>2, <1>3, <1>4 DEF Effect

\* Only a complete release becomes published.
LEMMA PublishedKept ==
    ASSUME TypeOK, NEW j \in Jobs, Effect(j),
           \A id \in Live : Published(id) /\ Ours(id) => \E build \in Builds : Complete(id, build),
           NEW id \in Live', Published(id)', Ours(id)'
    PROVE  \E build \in Builds : Complete(id, build)'
<1>1. ASSUME id \in Live, releases'[id] = releases[id]
      PROVE  \E build \in Builds : Complete(id, build)'
  <2>1. Published(id) /\ Ours(id)
    BY <1>1 DEF Published, Ours
  <2>2. PICK build \in Builds : Complete(id, build)
    BY <1>1, <2>1
  <2> QED BY <1>1, <2>2, CompleteKept, CompleteStays
<1>2. CASE UNCHANGED releases
  <2>1. Live' = Live
    BY <1>2 DEF Live
  <2> QED BY <1>1, <1>2, <2>1
<1>3. ASSUME NEW r \in Release, r.draft, releases' = Append(releases, r)
      PROVE  \E build \in Builds : Complete(id, build)'
  BY <1>1, <1>3, AppendLive DEF Published
<1>4. ASSUME Id(j) \in Live, releases' = Put(Id(j), None)
      PROVE  \E build \in Builds : Complete(id, build)'
  BY <1>1, <1>4, DeleteLive
<1>5. ASSUME NEW x \in Live, NEW r \in Release, releases' = Put(x, r),
             r.draft \/ \E build \in Builds : Complete(x, build)'
      PROVE  \E build \in Builds : Complete(id, build)'
  <2>1. /\ Live' = Live /\ releases'[x] = r
        /\ \A y \in Live : y # x => releases'[y] = releases[y]
    BY <1>5, PutLive
  <2>2. id = x => ~r.draft
    BY <2>1 DEF Published
  <2> QED BY <1>1, <1>5, <2>1, <2>2
<1> QED BY <1>2, <1>3, <1>4, <1>5 DEF Effect

\* A version that is taken stays taken.
LEMMA TakenKept ==
    ASSUME TypeOK, NEW j \in Jobs, Effect(j), NEW c \in Commits, Taken(c)
    PROVE  Taken(c)'
<1>1. c # None
  BY Assumptions
<1>2. CASE UNCHANGED <<releases, tag>>
  BY <1>2, SameStore
<1>3. ASSUME tag = None PROVE Cardinality(Live) > 1
  BY <1>1, <1>3 DEF Taken
<1>4. CASE tag = None /\ UNCHANGED releases
  <2>1. Live' = Live
    BY <1>4 DEF Live
  <2> QED BY <1>3, <1>4, <2>1 DEF Taken
<1>5. ASSUME NEW r \in Release, releases' = Append(releases, r), tag' = tag
      PROVE  Taken(c)'
  <2>1. /\ Live' = Live \cup {Len(releases) + 1} /\ Len(releases) + 1 \notin Live
        /\ \A id \in Live : releases'[id] = releases[id]
    BY <1>5, AppendLive
  <2>2. Cardinality(Live') = Cardinality(Live) + 1 /\ Cardinality(Live) \in Nat
    BY <2>1, LiveFinite, FS_AddElement
  <2>3. \A id \in Live : Published(id) => id \in Live' /\ Published(id)'
    BY <2>1 DEF Published
  <2>4. Cardinality(Live) > 1 => Cardinality(Live') > 1
    BY <2>2
  <2> QED BY <1>5, <2>3, <2>4 DEF Taken
<1>6. ASSUME tag = None, Live \subseteq {Id(j)} PROVE FALSE
  <2>1. Cardinality(Live) \in Nat /\ Cardinality(Live) <= 1
    BY <1>6, LiveFinite
  <2> QED BY <1>3, <1>6, <2>1
<1>7. ASSUME NEW x \in Live, NEW r \in Release, releases[x].draft, releases' = Put(x, r),
             tag' = tag
      PROVE  Taken(c)'
  <2>1. Live' = Live /\ \A id \in Live : id # x => releases'[id] = releases[id]
    BY <1>7, PutLive
  <2>2. \A id \in Live : Published(id) => id \in Live' /\ Published(id)'
    BY <1>7, <2>1 DEF Published
  <2> QED BY <1>7, <2>1, <2>2 DEF Taken
<1> QED BY <1>2, <1>4, <1>5, <1>6, <1>7 DEF Effect

LEMMA SoloKept ==
    ASSUME TypeOK, SoloOK, NEW j \in Jobs, Moves(j) PROVE SoloOK'
<1> SUFFICES ASSUME ~overlapped'
             PROVE  /\ Alone'
                    /\ \A k \in Jobs : Running(k)' => Phase(k)'
                    /\ \A k \in Jobs : job'[k].pc = "failed" /\ job'[k].clean
                          => Taken(job[k].commit)'
  BY DEF SoloOK
<1>1. /\ ~overlapped /\ Running(j) /\ Frame(j) /\ SoloMove(j)
      /\ \A k \in Jobs \ {j} : job'[k] = job[k]
  BY DEF Moves, Frame
<1>2. Alone /\ Phase(j)
  BY <1>1 DEF SoloOK
<1>3. /\ Effect(j) /\ (Running(j)' => Phase(j)')
      /\ job'[j].pc = "failed" /\ job'[j].clean => Taken(job[j].commit)'
  BY <1>1, <1>2 DEF SoloMove
<1>4. \A k \in Jobs : Running(k)' => k = j
  BY <1>1, <1>2 DEF Alone, Running
<1>5. ASSUME NEW k \in Jobs \ {j}, job'[k].pc = "failed", job'[k].clean
      PROVE  Taken(job[k].commit)'
  <2>1. PICK c : c = job[k].commit /\ job'[k].commit = c
    BY <1>1
  <2>2. job[k].pc = "failed" /\ job[k].clean /\ c \in Commits
    BY <1>1, <1>5, <2>1, JobTypes
  <2>3. Taken(c)
    BY <1>1, <2>1, <2>2 DEF SoloOK
  <2>4. Taken(c)'
    BY <1>3, <2>2, <2>3, TakenKept
  <2> QED BY <2>1, <2>4
<1> QED BY <1>3, <1>4, <1>5 DEF Alone

\* A job that starts has read nothing yet, so that it relies on nothing.
LEMMA StartKept ==
    ASSUME IInv, NEW j \in Jobs, NEW build \in Builds, Start(j, build) PROVE IInv'
<1>1. /\ TypeOK' /\ job'[j].pc = "find" /\ \A k \in Jobs \ {j} : job'[k] = job[k]
      /\ UNCHANGED <<releases, tag>>
      /\ overlapped' = (overlapped \/ \E k \in Jobs : Running(k))
  BY StartJob DEF Start, IInv
<1>2. Live' = Live /\ \A c : Taken(c) <=> Taken(c)'
  BY <1>1, SameStore
<1>3. TagOK'
  BY <1>1, <1>2 DEF IInv, TagOK, Published, Ours
<1>4. ASSUME ~overlapped' PROVE SoloOK'
  <2>1. ~overlapped /\ (\A k \in Jobs : ~Running(k)) /\ \A k \in Jobs : Running(k)' => k = j
    BY <1>1, <1>4 DEF Running
  <2>2. Phase(j)'
    BY <1>1 DEF Phase, Preparing, Filled, Verified
  <2>3. ASSUME NEW k \in Jobs, job'[k].pc = "failed", job'[k].clean
        PROVE  Taken(job[k].commit)'
    <3>1. k # j /\ job'[k] = job[k]
      BY <1>1, <2>3
    <3>2. Taken(job[k].commit)
      BY <2>1, <2>3, <3>1 DEF IInv, SoloOK
    <3> QED BY <1>1, <1>2, <3>1, <3>2 DEF Taken, Published
  <2> QED BY <2>1, <2>2, <2>3 DEF SoloOK, Alone
<1>5. SoloOK'
  BY <1>4 DEF SoloOK
<1>6. PublishedIsComplete'
  <2> SUFFICES ASSUME ~overlapped', NEW id \in Live', Published(id)', Ours(id)'
               PROVE  \E b \in Builds : Complete(id, b)'
    BY DEF PublishedIsComplete
  <2>1. ~overlapped /\ id \in Live /\ Published(id) /\ Ours(id)
    BY <1>1, <1>2 DEF Published, Ours
  <2>2. PICK b \in Builds : Complete(id, b)
    BY <2>1 DEF IInv, PublishedIsComplete
  <2> QED BY <1>1, <2>1, <2>2, CompleteStays
<1> QED BY <1>1, <1>3, <1>5, <1>6 DEF IInv

LEMMA StepKept ==
    ASSUME IInv, NEW j \in Jobs, Step(j) PROVE IInv'
<1>1. TypeOK /\ TagOK /\ SoloOK /\ PublishedIsComplete /\ Moves(j)
  BY StepMoves DEF IInv
<1>2. TypeOK'
  BY <1>1, NextTypes DEF Next
<1>3. PublishedIsComplete'
  <2> SUFFICES ASSUME ~overlapped', NEW id \in Live', Published(id)', Ours(id)'
               PROVE  \E build \in Builds : Complete(id, build)'
    BY DEF PublishedIsComplete
  <2>1. ~overlapped /\ Running(j)
    BY <1>1 DEF Moves, Frame
  <2>2. Effect(j)
    BY <1>1, <2>1 DEF SoloOK, Moves, SoloMove
  <2> QED BY <1>1, <2>1, <2>2, PublishedKept DEF PublishedIsComplete
<1> QED BY <1>1, <1>2, <1>3, TagKept, SoloKept DEF IInv
-----------------------------------------------------------------------------
(* The theorems.                                                            *)

\* At first no job runs, and what is published is not of these jobs.
LEMMA InitHolds == Init => IInv
<1> SUFFICES ASSUME Init PROVE IInv
  OBVIOUS
<1>1. TypeOK
  BY InitTypes
<1>2. \A j \in Jobs : job[j].pc = "new"
  BY DEF Init, NewJob
<1>3. \A id \in Live : ~Ours(id)
  <2>1. CASE releases = <<>>
    BY <2>1 DEF Live
  <2>2. ASSUME NEW r \in OldReleases, releases = <<r>> PROVE \A id \in Live : ~Ours(id)
    BY <2>2, PublisherAssumption DEF Live, Ours
  <2> QED BY <2>1, <2>2 DEF Init
<1>4. TagOK
  BY <1>2, <1>3 DEF TagOK
<1>5. SoloOK
  BY <1>2 DEF SoloOK, Alone, Running
<1>6. PublishedIsComplete
  BY <1>3 DEF PublishedIsComplete
<1> QED BY <1>1, <1>4, <1>5, <1>6 DEF IInv

LEMMA NextHolds == IInv /\ [Next]_vars => IInv'
<1> SUFFICES ASSUME IInv, [Next]_vars PROVE IInv'
  OBVIOUS
<1>1. CASE UNCHANGED vars
  <2>1. TypeOK'
    BY NextTypes DEF IInv
  <2>2. \A id : Published(id) <=> Published(id)'
    BY <1>1, SameStore DEF vars
  <2>3. TagOK'
    BY <1>1, <2>2 DEF vars, IInv, TagOK, Live, Ours
  <2>4. SoloOK'
    <3>1. /\ Live' = Live /\ (Drafts <=> Drafts') /\ \A c : Taken(c) <=> Taken(c)'
          /\ UNCHANGED <<releases, tag, job, overlapped>>
      BY <1>1, SameStore DEF vars
    <3>2. ASSUME NEW j \in Jobs, Phase(j) PROVE Phase(j)'
      <4>1. /\ Id(j)' = Id(j) /\ (TagFree(j) <=> TagFree(j)') /\ (Pinned(j) <=> Pinned(j)')
            /\ (Seen(j) <=> Seen(j)') /\ (ExtrasListed(j) <=> ExtrasListed(j)')
        BY <3>1 DEF Id, TagFree, Pinned, Seen, ExtrasListed
      <4>2. /\ \A asset : AssetMatches(asset, j) <=> AssetMatches(asset, j)'
            /\ \A assets : VerifyRemoteAssets(assets, j) <=> VerifyRemoteAssets(assets, j)'
        BY <3>1, SameBuild
      <4>3. (AllMatched(j) <=> AllMatched(j)') /\ (Synced(j) <=> Synced(j)')
        BY <3>1, <4>1, <4>2 DEF AllMatched, Synced, Matched
      <4>4. VerifyRemoteAssets(releases[Id(j)].assets, j)
               <=> VerifyRemoteAssets(releases[Id(j)].assets, j)'
        BY <3>1, <4>1, <4>2
      <4> QED BY <2>2, <3>1, <3>2, <4>1, <4>3, <4>4 DEF Phase, NextIs
    <3>3. \A j \in Jobs : Taken(job[j].commit) => Taken(job[j].commit)'
      BY <3>1 DEF Taken, Published
    <3> QED BY <3>1, <3>2, <3>3 DEF IInv, SoloOK, Alone, Running
  <2>5. PublishedIsComplete'
    BY <1>1 DEF vars, IInv, PublishedIsComplete, Live, Published, Ours, Complete
  <2> QED BY <2>1, <2>3, <2>4, <2>5 DEF IInv
<1>2. ASSUME NEW j \in Jobs, Step(j) PROVE IInv'
  BY <1>2, StepKept
<1>3. ASSUME NEW j \in Jobs, NEW build \in Builds, Start(j, build) PROVE IInv'
  BY <1>3, StartKept
<1> QED BY <1>1, <1>2, <1>3 DEF Next

\* Every reachable state of the publisher keeps the inductive invariant: what
\* publish has established at each of its steps, for a job that runs alone, and
\* what it has established of the tag however jobs overlap.
THEOREM PublisherInvariant == Spec => []IInv
BY InitHolds, NextHolds, PTL DEF Spec

\* update_release with draft false comes only after ensure_exact_tag has seen the
\* tag at the job's commit, and nobody moves a tag: what a job published is at
\* its tag, whatever requests were lost and however jobs overlap.
THEOREM TagOfPublished == Spec => []PublishedAtTag
<1>1. IInv => PublishedAtTag
  BY DEF IInv, TagOK, PublishedAtTag
<1> QED BY <1>1, PublisherInvariant, PTL

\* verify_remote_assets comes before the tag, and a job that sends a request
\* again sends the same: as long as jobs do not overlap, what was published holds
\* exactly the files of one build, even if the job died over it.
THEOREM WholeReleases == Spec => []PublishedIsComplete
<1>1. IInv => PublishedIsComplete
  BY DEF IInv
<1> QED BY <1>1, PublisherInvariant, PTL

\* A job that lost nothing itself gives up only where find_release,
\* prepare_release_for_publication or ensure_exact_tag finds the version taken;
\* whatever else failed jobs have left it repairs.
THEOREM Repaired == Spec => []FailedJobsAreRepaired
<1>1. IInv => FailedJobsAreRepaired
  BY DEF IInv, SoloOK, Taken, FailedJobsAreRepaired
<1> QED BY <1>1, PublisherInvariant, PTL

\* prepare_release_for_publication never deletes or rewrites a release whose tag
\* is there, so that a complete release is not changed by a later job.
THEOREM CompleteForGood == Spec => CompleteIsFinal
<1> DEFINE Kept == \A id \in Live :
              (\E build \in Builds : Complete(id, build)) /\ ~overlapped' =>
                 releases'[id] = releases[id]
<1>1. IInv /\ [Next]_vars => [Kept]_vars
  <2> SUFFICES ASSUME IInv, Next, NEW id \in Live, NEW build \in Builds,
                      Complete(id, build), ~overlapped'
               PROVE  releases'[id] = releases[id]
    OBVIOUS
  <2>1. ASSUME NEW j \in Jobs, Step(j) PROVE releases'[id] = releases[id]
    <3>1. TypeOK /\ SoloOK /\ Moves(j)
      BY <2>1, StepMoves DEF IInv
    <3>2. Effect(j)
      BY <3>1 DEF SoloOK, Moves, SoloMove, Frame
    <3> QED BY <3>1, <3>2, CompleteKept
  <2>2. ASSUME NEW j \in Jobs, NEW b \in Builds, Start(j, b) PROVE releases'[id] = releases[id]
    BY <2>2 DEF Start
  <2> QED BY <2>1, <2>2 DEF Next
<1> HIDE DEF Kept
<1>2. Spec => [][Kept]_vars
  BY <1>1, PublisherInvariant, PTL DEF Spec
<1> QED BY <1>2 DEF CompleteIsFinal, Kept
=============================================================================
