------------------------- MODULE MCReleasePublisher -------------------------
(* ReleasePublisher for TLC.  Left of the version may be nothing, a draft   *)
(* full of broken files, or a published release with the files of a build,  *)
(* with or without another file, and with or without its tag.               *)
EXTENDS ReleasePublisher

MCAssetNames == <<"sums", "wheel">>

Old(draft, pre, commit, digest, names) ==
    [draft |-> draft, prerelease |-> pre, target |-> commit, publisher |-> None,
     assets |-> [n \in {"sums", "wheel", "notes"} |->
                    IF n \in names THEN [digest |-> digest, by |-> None] ELSE None]]

MCOldReleases ==
    {Old(TRUE, pre, c, None, {"sums", "wheel", "notes"}) : pre \in BOOLEAN, c \in Commits}
    \cup {Old(FALSE, pre, c, <<c, 1>>, {"sums", "wheel"} \cup extra) :
              pre \in BOOLEAN, c \in Commits, extra \in {{}, {"notes"}}}
=============================================================================
