-------------------------- MODULE ReleasePublisher --------------------------
(***************************************************************************)
(* ops/release/publish_release.py: jobs that publish one version, each     *)
(* from its own commit and build, against the releases and the tag of that *)
(* version on GitHub.  A mutating request may be lost before or after it   *)
(* took effect; the client then sends it again, or the job fails.  A job   *)
(* may die at any moment.  A lost read is repeated without effect, or ends *)
(* the job like a crash.  Nothing keeps two jobs from running at once.     *)
(***************************************************************************)
EXTENDS Naturals, Sequences, FiniteSets

CONSTANTS
    Jobs,           \* runs of the publisher
    Commits,        \* commits they may run for
    Variants,       \* builds of one commit need not be equal
    AssetNames,     \* the files of a release, in the order of uploading
    ExtraNames,     \* other files a draft may hold
    OldReleases,    \* what earlier publishers may have left of this version
    MaxAttempts,    \* requests per call
    MaxReleases,    \* bound: releases ever created
    MaxFaults,      \* bound: lost requests and crashes
    None

Names == {AssetNames[i] : i \in DOMAIN AssetNames} \cup ExtraNames

Builds == Commits \X Variants

\* An asset is known by who uploaded it; a broken upload has no digest.
Asset == [digest: Builds \cup {None}, by: Jobs \cup {None}]

\* publisher is the job that published it, if one of these did.
Release == [draft: BOOLEAN, prerelease: BOOLEAN, target: Commits,
            assets: [Names -> Asset \cup {None}], publisher: Jobs \cup {None}]

\* What a job remembers of the release it found.
Found == [id: Nat, draft: BOOLEAN, prerelease: BOOLEAN, target: Commits]

\* Where a job stands, in the order of the script.
Steps == {"new", "find", "inspect", "delete", "create", "retarget", "list",
          "delete_asset", "upload", "extras", "delete_extra", "verify", "ensure_tag",
          "create_tag", "confirm_tag", "publish", "check_tag", "verify_published",
          "done", "failed"}

ASSUME PublisherAssumption ==
    /\ AssetNames \in Seq(Names) /\ MaxAttempts \in 1..20
    /\ \A i \in DOMAIN AssetNames : AssetNames[i] \notin ExtraNames
    /\ \A i, j \in DOMAIN AssetNames : AssetNames[i] = AssetNames[j] => i = j
    /\ OldReleases \subseteq {r \in Release : r.publisher = None}
    /\ MaxReleases \in Nat /\ MaxFaults \in Nat
    /\ None \notin Commits \cup Builds \cup Jobs
    /\ None \notin Asset \cup Release \cup Found \cup [Names -> Asset \cup {None}]

VARIABLES
    releases,   \* the releases of the version by id; None once deleted
    tag,        \* the commit the version tag points to
    job,        \* what each job is doing and has read
    faults,     \* faults so far
    overlapped  \* two jobs have been running at once

vars == <<releases, tag, job, faults, overlapped>>

Live == {id \in DOMAIN releases : releases[id] # None}

Published(id) == id \in Live /\ ~releases[id].draft

Running(j) == job[j].pc \notin {"new", "done", "failed"}

-----------------------------------------------------------------------------
(* Calls.                                                                   *)

At(j, pc) == [job EXCEPT ![j].pc = pc, ![j].attempt = 1]

Failed(j) == At(j, "failed")

\* A lost request is sent again if it may be and attempts are left.
Lost(j, retry) ==
    IF retry /\ job[j].attempt < MaxAttempts
    THEN [job EXCEPT ![j].attempt = @ + 1, ![j].clean = FALSE]
    ELSE [Failed(j) EXCEPT ![j].clean = FALSE]

\* A mutating request of GitHubClient.request.  A request the server rejects is
\* an ApiError; others may be lost before or after they were served.
Call(j, accepted, served, onward, rejected, retry) ==
    LET serve == IF accepted THEN releases' = served.releases /\ tag' = served.tag
                             ELSE UNCHANGED <<releases, tag>>
    IN  /\ \/ /\ serve
              /\ job' = IF accepted THEN onward ELSE rejected
              /\ UNCHANGED faults
           \/ /\ faults < MaxFaults /\ faults' = faults + 1
              /\ serve \/ UNCHANGED <<releases, tag>>
              /\ job' = Lost(j, retry)
        /\ UNCHANGED overlapped

\* A read and what the job does with it.
Read(j, pc, onward) ==
    /\ job[j].pc = pc
    /\ job' = onward
    /\ UNCHANGED <<releases, tag, faults, overlapped>>

With(rs) == [releases |-> rs, tag |-> tag]

\* Mutant: a file of the right name will do.
AssetMatches_NameOnly(asset, j) == asset # None

\* asset_matches: name, size and digest.
AssetMatches(asset, j) == asset # None /\ asset.digest = job[j].build

\* verify_remote_assets: exactly the expected files, with the right digests.
VerifyRemoteAssets(assets, j) ==
    /\ \A i \in DOMAIN AssetNames : AssetMatches(assets[AssetNames[i]], j)
    /\ \A n \in ExtraNames : assets[n] = None

\* The release the job works on, which another job may have deleted.
Id(j) == job[j].release.id

Exists(j) == Id(j) \in Live

-----------------------------------------------------------------------------
NewJob == [pc |-> "new", attempt |-> 1, commit |-> None, build |-> None,
           release |-> None, listed |-> None, next |-> 0, extras |-> {}, clean |-> TRUE]

Init ==
    /\ releases \in {<<>>} \cup {<<r>> : r \in OldReleases}
    /\ tag \in Commits \cup {None}
    /\ job = [j \in Jobs |-> NewJob]
    /\ faults = 0
    /\ overlapped = FALSE

\* publish up to load_local_assets, which checks the files of the build.
Start(j, build) ==
    /\ job[j].pc = "new"
    /\ job' = [job EXCEPT ![j].pc = "find", ![j].commit = build[1], ![j].build = build]
    /\ overlapped' = (overlapped \/ \E k \in Jobs : Running(k))
    /\ UNCHANGED <<releases, tag, faults>>

\* find_release: more than one release of the version is an error.
FindRelease(j) ==
    Read(j, "find",
         IF Cardinality(Live) > 1 THEN Failed(j)
         ELSE [At(j, "inspect") EXCEPT ![j].release =
                  IF Live = {} THEN None
                  ELSE LET id == CHOOSE id \in Live : TRUE
                       IN  [id |-> id, draft |-> releases[id].draft,
                            prerelease |-> releases[id].prerelease,
                            target |-> releases[id].target]])

\* Mutant: a published release is rebuilt even if its tag is there.
Incomplete_Always(j) == TRUE

\* A published release is left alone only if its tag is the job's commit.
Incomplete(j) == tag # job[j].commit

\* prepare_release_for_publication: reads the tag and decides by the release
\* found before.
Inspect(j) ==
    LET r == job[j].release
        c == job[j].commit
    IN  Read(j, "inspect",
             IF tag \notin {None, c} THEN Failed(j)
             ELSE IF r = None THEN At(j, "create")
             ELSE IF ~r.draft
                  THEN IF Incomplete(j) THEN At(j, "delete")
                       ELSE IF r.prerelease \/ r.target # c THEN Failed(j)
                       ELSE At(j, "verify_published")
             ELSE IF r.target # c \/ r.prerelease THEN At(j, "retarget")
             ELSE At(j, "list"))

DeleteRelease(j) ==
    /\ job[j].pc = "delete"
    /\ Call(j, Exists(j), With([releases EXCEPT ![Id(j)] = None]),
            At(j, "create"), Failed(j), TRUE)

\* create_draft: GitHub allows any number of drafts, but no second release of a
\* version that is published.
CreateDraft(j) ==
    LET draft == [draft |-> TRUE, prerelease |-> FALSE, target |-> job[j].commit,
                  assets |-> [n \in Names |-> None], publisher |-> None]
        id == Len(releases) + 1
    IN  /\ job[j].pc = "create" /\ id <= MaxReleases
        /\ Call(j, ~\E k \in Live : Published(k), With(Append(releases, draft)),
                [At(j, "list") EXCEPT ![j].release =
                    [id |-> id, draft |-> TRUE, prerelease |-> FALSE,
                     target |-> job[j].commit]],
                Failed(j), TRUE)

\* prepare_draft_release: a draft of another commit is pinned to this one.
Retarget(j) ==
    /\ job[j].pc = "retarget"
    /\ Call(j, Exists(j),
            With([releases EXCEPT ![Id(j)].draft = TRUE, ![Id(j)].prerelease = FALSE,
                                  ![Id(j)].target = job[j].commit,
                                  ![Id(j)].publisher = None]),
            At(j, "list"), Failed(j), TRUE)

-----------------------------------------------------------------------------
(* sync_draft_assets                                                        *)

\* Mutant: files in the way are not deleted.
Sync_KeepsOld(j, listed, i) ==
    LET open == {k \in i..Len(AssetNames) : ~AssetMatches(listed[AssetNames[k]], j)}
        k == CHOOSE k \in open : \A m \in open : k <= m
    IN  IF open = {} THEN [At(j, "extras") EXCEPT ![j].listed = listed]
        ELSE [At(j, "upload") EXCEPT ![j].listed = listed, ![j].next = k]

\* On to the first file from position i on that has to be uploaded; a file of
\* that name in the way is deleted first.
Sync(j, listed, i) ==
    LET open == {k \in i..Len(AssetNames) : ~AssetMatches(listed[AssetNames[k]], j)}
        k == CHOOSE k \in open : \A m \in open : k <= m
    IN  IF open = {} THEN [At(j, "extras") EXCEPT ![j].listed = listed]
        ELSE [At(j, IF listed[AssetNames[k]] = None THEN "upload" ELSE "delete_asset")
                 EXCEPT ![j].listed = listed, ![j].next = k]

ListAssets(j) ==
    Read(j, "list", IF Exists(j) THEN Sync(j, releases[Id(j)].assets, 1) ELSE Failed(j))

\* delete_asset, by the id that was listed.
AssetPresent(j, name) ==
    /\ Exists(j) /\ releases[Id(j)].assets[name] # None
    /\ releases[Id(j)].assets[name].by = job[j].listed[name].by

DeleteAsset(j) ==
    LET name == AssetNames[job[j].next]
    IN  /\ job[j].pc = "delete_asset"
        /\ Call(j, AssetPresent(j, name), With([releases EXCEPT ![Id(j)].assets[name] = None]),
                At(j, "upload"), Failed(j), TRUE)

\* upload_asset: a name can be used once.  An upload may break off half way.
UploadAsset(j) ==
    LET name == AssetNames[job[j].next]
        free == Exists(j) /\ releases[Id(j)].assets[name] = None
        uploaded(digest) ==
            [releases EXCEPT ![Id(j)].assets[name] = [digest |-> digest, by |-> j]]
    IN  /\ job[j].pc = "upload"
        /\ \/ Call(j, free, With(uploaded(job[j].build)),
                   Sync(j, job[j].listed, job[j].next + 1), Failed(j), TRUE)
           \/ /\ free /\ faults < MaxFaults /\ faults' = faults + 1
              /\ releases' = uploaded(None)
              /\ job' = Lost(j, TRUE)
              /\ UNCHANGED <<tag, overlapped>>

ListExtras(j) ==
    LET extras == {n \in ExtraNames : releases[Id(j)].assets[n] # None}
    IN  Read(j, "extras",
             IF ~Exists(j) THEN Failed(j)
             ELSE [At(j, IF extras = {} THEN "verify" ELSE "delete_extra") EXCEPT
                      ![j].listed = releases[Id(j)].assets, ![j].extras = extras])

DeleteExtra(j) ==
    /\ job[j].pc = "delete_extra"
    /\ \E name \in job[j].extras :
          Call(j, AssetPresent(j, name), With([releases EXCEPT ![Id(j)].assets[name] = None]),
               [At(j, IF job[j].extras = {name} THEN "verify" ELSE "delete_extra")
                   EXCEPT ![j].extras = @ \ {name}],
               Failed(j), TRUE)

Verify(j) ==
    Read(j, "verify",
         IF Exists(j) /\ VerifyRemoteAssets(releases[Id(j)].assets, j)
         THEN At(j, "ensure_tag") ELSE Failed(j))

-----------------------------------------------------------------------------
(* ensure_exact_tag and the end of publish                                  *)

\* Mutant: the draft is published whatever the tag.
TagStep_Publish(j) == "publish"

TagStep(j) ==
    IF tag = None THEN "create_tag" ELSE IF tag = job[j].commit THEN "publish" ELSE "failed"

EnsureTag(j) == Read(j, "ensure_tag", At(j, TagStep(j)))

\* create_tag_ref is sent once; if the tag exists already it may be right.
CreateTagRef(j) ==
    /\ job[j].pc = "create_tag"
    /\ Call(j, tag = None, [releases |-> releases, tag |-> job[j].commit],
            At(j, "confirm_tag"), At(j, "confirm_tag"), FALSE)

ConfirmTag(j) ==
    Read(j, "confirm_tag",
         IF tag = job[j].commit THEN At(j, "publish") ELSE Failed(j))

\* update_release with draft false.
Publish(j) ==
    /\ job[j].pc = "publish"
    /\ Call(j, Exists(j) /\ \A id \in Live \ {Id(j)} : ~Published(id),
            With([releases EXCEPT ![Id(j)].draft = FALSE, ![Id(j)].prerelease = FALSE,
                                  ![Id(j)].target = job[j].commit,
                                  ![Id(j)].publisher = j]),
            At(j, "check_tag"), Failed(j), TRUE)

CheckTag(j) ==
    Read(j, "check_tag",
         IF tag = job[j].commit THEN At(j, "verify_published") ELSE Failed(j))

VerifyPublished(j) ==
    Read(j, "verify_published",
         IF Exists(j) /\ VerifyRemoteAssets(releases[Id(j)].assets, j)
         THEN At(j, "done") ELSE Failed(j))

\* The job is cancelled, its runner dies, or a read fails for good.
Crash(j) ==
    /\ Running(j) /\ faults < MaxFaults
    /\ faults' = faults + 1
    /\ job' = Lost(j, FALSE)
    /\ UNCHANGED <<releases, tag, overlapped>>

Step(j) ==
    \/ FindRelease(j) \/ Inspect(j) \/ DeleteRelease(j) \/ CreateDraft(j) \/ Retarget(j)
    \/ ListAssets(j) \/ DeleteAsset(j) \/ UploadAsset(j) \/ ListExtras(j)
    \/ DeleteExtra(j) \/ Verify(j)
    \/ EnsureTag(j) \/ CreateTagRef(j) \/ ConfirmTag(j)
    \/ Publish(j) \/ CheckTag(j) \/ VerifyPublished(j)
    \/ Crash(j)

Next == \E j \in Jobs : Step(j) \/ \E build \in Builds : Start(j, build)

Spec == Init /\ [][Next]_vars

-----------------------------------------------------------------------------
(* Properties.                                                              *)

\* Releases that were published before are not this publisher's doing.
Ours(id) == releases[id].publisher # None

\* What a release holds once it is published by this publisher.
Complete(id, build) ==
    /\ Published(id) /\ ~releases[id].prerelease
    /\ releases[id].target = build[1] /\ tag = build[1]
    /\ \A i \in DOMAIN AssetNames :
          releases[id].assets[AssetNames[i]] # None
          /\ releases[id].assets[AssetNames[i]].digest = build
    /\ \A n \in ExtraNames : releases[id].assets[n] = None

\* Jobs and releases have the states of the script.
TypeOK ==
    /\ releases \in Seq(Release \cup {None})
    /\ tag \in Commits \cup {None}
    /\ job \in [Jobs -> [pc: Steps, attempt: 1..MaxAttempts, commit: Commits \cup {None},
                         build: Builds \cup {None}, release: Found \cup {None},
                         listed: [Names -> Asset \cup {None}] \cup {None}, next: Nat,
                         extras: SUBSET ExtraNames, clean: BOOLEAN]]
    /\ \A j \in Jobs : job[j].pc # "new" =>
          job[j].build \in Builds /\ job[j].commit = job[j].build[1]
    /\ \A j \in Jobs : job[j].pc \in {"delete_asset", "upload"} =>
          job[j].listed # None /\ job[j].next \in DOMAIN AssetNames
    /\ faults \in 0..MaxFaults
    /\ overlapped \in BOOLEAN

\* docs/operations.md: "publishes only after the tag resolves to the exact
\* release SHA": whatever fails and however jobs overlap, what they publish is
\* at its tag.
PublishedAtTag ==
    \A id \in Live : Published(id) /\ Ours(id) => releases[id].target = tag

\* A published release holds exactly the files of one build of its commit, even
\* if the job that published it did not live to see it.
PublishedIsComplete ==
    ~overlapped => \A id \in Live :
        Published(id) /\ Ours(id) => \E build \in Builds : Complete(id, build)

\* A complete release is not touched again, by jobs of other commits and builds
\* included.
CompleteIsFinal ==
    [][\A id \in Live : (\E build \in Builds : Complete(id, build)) /\ ~overlapped' =>
          releases'[id] = releases[id]]_vars

\* After any failed jobs a job without faults of its own succeeds, unless the
\* version is taken: its tag is at another commit, it is published already, or
\* the answer to a create was lost and there are two releases of it.
FailedJobsAreRepaired ==
    ~overlapped => \A j \in Jobs :
        job[j].pc = "failed" /\ job[j].clean =>
            \/ tag \notin {None, job[j].commit}
            \/ Cardinality(Live) > 1
            \/ \E id \in Live : Published(id) /\ tag = job[j].commit
=============================================================================
