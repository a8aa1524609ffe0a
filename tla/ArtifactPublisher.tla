------------------------- MODULE ArtifactPublisher -------------------------
(***************************************************************************)
(* How mcc makes an artifact and its .mcmeta sidecar visible:              *)
(* src/src/artifact_publisher.zig.                                         *)
(*                                                                         *)
(* Both files are written to sibling temporaries and renamed into place,   *)
(* the sidecar first, the artifact (the commit point) last; a failed       *)
(* artifact rename restores the sidecar from a snapshot.  Every call to    *)
(* the file system may fail and the process may be killed between any two  *)
(* of them.  A publisher is one mcc process at a time; after it ended or   *)
(* was killed the same model value stands for the next process that builds *)
(* the same output path.  Nothing in the code keeps two processes from     *)
(* doing so at the same time.                                              *)
(*                                                                         *)
(* Abstracted: the bytes of an artifact are the number of the build that   *)
(* produced them, the bytes of a sidecar the build it describes (its       *)
(* artifact digest); a strict consumer accepts a pair exactly when they    *)
(* agree.  writeStdout publishes no file and is left out.                  *)
(***************************************************************************)
EXTENDS Naturals

CONSTANTS Publishers,   \* processes that may publish to the output path
          MaxBuilds     \* bound on the number of builds

ASSUME PublisherAssumption == MaxBuilds \in Nat \ {0}

Builds == 1 .. MaxBuilds
Absent == 0               \* no such file
Partial == MaxBuilds + 1  \* a file whose write has not completed
Contents == Builds \cup {Absent, Partial}

\* emit: writeArtifactWithMetadata; link: publishExistingFileWithMetadata
\* (the temporary artifact was linked by clang); plain: writeArtifact.
Modes == {"emit", "link", "plain"}

VARIABLES
    artifact,   \* the file at output_path
    sidecar,    \* the file at output_path.mcmeta
    builds,     \* builds started so far
    pc,         \* where each publisher is
    mode,       \* which entry point it runs
    build,      \* the build it publishes
    snapshot,   \* metadata_snapshot: the sidecar it found
    metaTmp,    \* its temporary sidecar
    artTmp,     \* its temporary artifact
    before,     \* history: artifact and sidecar when the publish began
    torn        \* history: the two files were left apart by a kill, by a
                \* failed rollback or by a publish without metadata

local == <<mode, build, snapshot, metaTmp, artTmp, before>>
vars == <<artifact, sidecar, builds, pc, local, torn>>

Init ==
    /\ artifact = Absent
    /\ sidecar = Absent
    /\ builds = 0
    /\ pc = [p \in Publishers |-> "idle"]
    /\ mode = [p \in Publishers |-> "emit"]
    /\ build = [p \in Publishers |-> Absent]
    /\ snapshot = [p \in Publishers |-> Absent]
    /\ metaTmp = [p \in Publishers |-> Absent]
    /\ artTmp = [p \in Publishers |-> Absent]
    /\ before = [p \in Publishers |-> <<Absent, Absent>>]
    /\ torn = FALSE

\* The labels of a publisher that is not publishing.
Over == {"idle", "done", "failed", "unrestored", "killed"}

Goto(p, label) == pc' = [pc EXCEPT ![p] = label]

\* A build starts: its bytes are final (the linked executable of a link is
\* already in a temporary of its own).
Begin(p, m) ==
    /\ pc[p] \in Over
    /\ builds < MaxBuilds
    /\ builds' = builds + 1
    /\ mode' = [mode EXCEPT ![p] = m]
    /\ build' = [build EXCEPT ![p] = builds + 1]
    /\ metaTmp' = [metaTmp EXCEPT ![p] = Absent]
    /\ artTmp' = [artTmp EXCEPT ![p] = IF m = "link" THEN builds + 1 ELSE Absent]
    /\ before' = [before EXCEPT ![p] = <<artifact, sidecar>>]
    /\ Goto(p, IF m = "plain" THEN "artifact" ELSE "snapshot")
    /\ UNCHANGED <<artifact, sidecar, snapshot, torn>>

\* prepareMetadataSidecar, the two directory checks and
\* snapshotMetadataSidecar.
Snapshot(p) ==
    /\ pc[p] = "snapshot"
    /\ snapshot' = [snapshot EXCEPT ![p] = sidecar]
    /\ Goto(p, "metadata")
    /\ UNCHANGED <<artifact, sidecar, builds, mode, build, metaTmp, artTmp, before, torn>>

\* Mutant of WriteMetadata: appends to what the temporary holds.
WriteMetadataAppends(p) ==
    /\ pc[p] = "metadata"
    /\ IF metaTmp[p] = Absent
       THEN metaTmp' = [metaTmp EXCEPT ![p] = Partial] /\ pc' = pc
       ELSE /\ metaTmp' = [metaTmp EXCEPT ![p] = @ + build[p]]
            /\ Goto(p, IF mode[p] = "link" THEN "commitMeta" ELSE "artifact")
    /\ UNCHANGED <<artifact, sidecar, builds, mode, build, snapshot, artTmp, before, torn>>

\* createFileAtomic and writeStreamingAll of the sidecar: the temporary
\* exists before its bytes are complete.
WriteMetadata(p) ==
    /\ pc[p] = "metadata"
    /\ IF metaTmp[p] = Absent
       THEN metaTmp' = [metaTmp EXCEPT ![p] = Partial] /\ pc' = pc
       ELSE /\ metaTmp' = [metaTmp EXCEPT ![p] = build[p]]
            /\ Goto(p, IF mode[p] = "link" THEN "commitMeta" ELSE "artifact")
    /\ UNCHANGED <<artifact, sidecar, builds, mode, build, snapshot, artTmp, before, torn>>

\* Mutant of WriteArtifact: writes at the output path itself.
WriteArtifactInPlace(p) ==
    /\ pc[p] = "artifact"
    /\ artTmp' = [artTmp EXCEPT ![p] = build[p]]
    /\ IF artifact = Partial
       THEN artifact' = build[p] /\ Goto(p, "commitMeta")
       ELSE artifact' = Partial /\ pc' = pc
    /\ UNCHANGED <<sidecar, builds, mode, build, snapshot, metaTmp, before, torn>>

\* The same for the artifact.
WriteArtifact(p) ==
    /\ pc[p] = "artifact"
    /\ IF artTmp[p] = Absent
       THEN artTmp' = [artTmp EXCEPT ![p] = Partial] /\ pc' = pc
       ELSE /\ artTmp' = [artTmp EXCEPT ![p] = build[p]]
            /\ Goto(p, IF mode[p] = "plain" THEN "commitArtifact" ELSE "commitMeta")
    /\ UNCHANGED <<artifact, sidecar, builds, mode, build, snapshot, metaTmp, before, torn>>

\* Mutant of CommitMetadata: the artifact is renamed first.
CommitMetadataLast(p) ==
    /\ pc[p] = "commitMeta"
    /\ artifact' = artTmp[p]
    /\ Goto(p, "commitArtifact")
    /\ UNCHANGED <<sidecar, builds, local, torn>>

\* metadata_file.replace.
CommitMetadata(p) ==
    /\ pc[p] = "commitMeta"
    /\ sidecar' = metaTmp[p]
    /\ metaTmp' = [metaTmp EXCEPT ![p] = Absent]
    /\ Goto(p, "commitArtifact")
    /\ UNCHANGED <<artifact, builds, mode, build, snapshot, artTmp, before, torn>>

\* artifact_file.replace, or the rename of the linked temporary: the commit
\* point.
CommitArtifact(p) ==
    /\ pc[p] = "commitArtifact"
    /\ artifact' = artTmp[p]
    /\ artTmp' = [artTmp EXCEPT ![p] = Absent]
    /\ torn' = (mode[p] = "plain")
    /\ Goto(p, "done")
    /\ UNCHANGED <<sidecar, builds, mode, build, snapshot, metaTmp, before>>

\* A call before the commit of the sidecar fails: the temporaries are
\* removed (defer) and the publish reports OutputWriteFailed.
FailBeforeCommit(p) ==
    /\ pc[p] \in {"snapshot", "metadata", "artifact", "commitMeta"}
    /\ metaTmp' = [metaTmp EXCEPT ![p] = Absent]
    /\ artTmp' = [artTmp EXCEPT ![p] = Absent]
    /\ Goto(p, "failed")
    /\ UNCHANGED <<artifact, sidecar, builds, mode, build, snapshot, before, torn>>

\* Mutant of ArtifactCommitFails: no rollback.
NoRollback(p) ==
    /\ pc[p] = "commitArtifact"
    /\ artTmp' = [artTmp EXCEPT ![p] = Absent]
    /\ Goto(p, "failed")
    /\ UNCHANGED <<artifact, sidecar, builds, mode, build, snapshot, metaTmp, before, torn>>

\* The artifact's rename fails: with metadata, restoreMetadataSidecar next.
ArtifactCommitFails(p) ==
    /\ pc[p] = "commitArtifact"
    /\ artTmp' = [artTmp EXCEPT ![p] = Absent]
    /\ Goto(p, IF mode[p] = "plain" THEN "failed" ELSE "restore")
    /\ UNCHANGED <<artifact, sidecar, builds, mode, build, snapshot, metaTmp, before, torn>>

\* Mutant of RestoreMetadata: a sidecar that was absent is left in place.
RestoreOnlyPresent(p) ==
    /\ pc[p] = "restore"
    /\ IF snapshot[p] = Absent
       THEN Goto(p, "failed") /\ UNCHANGED <<sidecar, metaTmp>>
       ELSE sidecar' = snapshot[p] /\ Goto(p, "failed") /\ UNCHANGED metaTmp
    /\ UNCHANGED <<artifact, builds, mode, build, snapshot, artTmp, before, torn>>

\* restoreMetadataSidecar: delete the sidecar, or write the snapshot through
\* a temporary (writeOutputPath).
RestoreMetadata(p) ==
    /\ pc[p] = "restore"
    /\ \/ /\ snapshot[p] = Absent
          /\ sidecar' = Absent
          /\ Goto(p, "failed")
          /\ UNCHANGED metaTmp
       \/ /\ snapshot[p] # Absent
          /\ metaTmp[p] # snapshot[p]
          /\ metaTmp' = [metaTmp EXCEPT ![p] =
                            IF metaTmp[p] = Partial THEN snapshot[p] ELSE Partial]
          /\ UNCHANGED <<sidecar, pc>>
       \/ /\ snapshot[p] # Absent
          /\ metaTmp[p] = snapshot[p]
          /\ sidecar' = snapshot[p]
          /\ metaTmp' = [metaTmp EXCEPT ![p] = Absent]
          /\ Goto(p, "failed")
    /\ UNCHANGED <<artifact, builds, mode, build, snapshot, artTmp, before, torn>>

\* The rollback fails: it is only reported.
RestoreFails(p) ==
    /\ pc[p] = "restore"
    /\ metaTmp' = [metaTmp EXCEPT ![p] = Absent]
    /\ torn' = TRUE
    /\ Goto(p, "unrestored")
    /\ UNCHANGED <<artifact, sidecar, builds, mode, build, snapshot, artTmp, before>>

\* The process is killed; its temporaries stay behind under their own names.
Kill(p) ==
    /\ pc[p] \notin Over
    /\ torn' = (torn \/ (pc[p] = "restore") \/ (pc[p] = "commitArtifact" /\ mode[p] # "plain"))
    /\ Goto(p, "killed")
    /\ UNCHANGED <<artifact, sidecar, builds, local>>

Finished ==
    /\ builds = MaxBuilds
    /\ \A p \in Publishers : pc[p] \in Over
    /\ UNCHANGED vars

Step(p) ==
    \/ \E m \in Modes : Begin(p, m)
    \/ Snapshot(p) \/ WriteMetadata(p) \/ WriteArtifact(p)
    \/ CommitMetadata(p) \/ CommitArtifact(p)
    \/ FailBeforeCommit(p) \/ ArtifactCommitFails(p)
    \/ RestoreMetadata(p) \/ RestoreFails(p)
    \/ Kill(p)

Next == (\E p \in Publishers : Step(p)) \/ Finished

Spec == Init /\ [][Next]_vars

----------------------------------------------------------------------------
(* Properties.                                                             *)

Labels == {"idle", "snapshot", "metadata", "artifact", "commitMeta",
           "commitArtifact", "restore", "done", "failed", "unrestored", "killed"}

TypeOK ==
    /\ artifact \in Contents /\ sidecar \in Contents
    /\ builds \in 0 .. MaxBuilds
    /\ pc \in [Publishers -> Labels]
    /\ mode \in [Publishers -> Modes]
    /\ build \in [Publishers -> Contents]
    /\ snapshot \in [Publishers -> Contents]
    /\ metaTmp \in [Publishers -> Contents]
    /\ artTmp \in [Publishers -> Contents]
    /\ before \in [Publishers -> Contents \X Contents]
    /\ torn \in BOOLEAN

(***************************************************************************)
(* "A failed or killed compilation therefore cannot truncate a previously  *)
(* valid artifact or expose a partially written one" (writeOutputPath), of *)
(* both files, whatever fails and whoever else is publishing.              *)
(***************************************************************************)
NeverPartial == artifact # Partial /\ sidecar # Partial

(***************************************************************************)
(* A newly visible artifact has its matching metadata in place             *)
(* (writeArtifactWithMetadata): a step that changes the artifact of a      *)
(* publish with metadata happens when the sidecar already describes it.    *)
(***************************************************************************)
ArtifactAppearsDescribed ==
    [][\A p \in Publishers :
          (artifact' # artifact /\ pc[p] # pc'[p] /\ mode[p] # "plain") =>
              sidecar' = artifact']_vars

\* A publisher is between the two commits or is rolling the first one back.
InWindow(p) == pc[p] \in {"commitArtifact", "restore"} /\ mode[p] # "plain"

(***************************************************************************)
(* The artifact and the sidecar agree, so that a strict consumer accepts   *)
(* them, except between the two commits of a publish and after a kill      *)
(* there, a failed rollback or a publish without metadata.                 *)
(***************************************************************************)
PairAgrees ==
    (~torn /\ \A p \in Publishers : ~InWindow(p)) => artifact = sidecar

(***************************************************************************)
(* A publish that reports a failure, and whose rollback did not fail too,  *)
(* leaves both files as it found them.                                     *)
(***************************************************************************)
FailureLeavesNoTrace ==
    \A p \in Publishers :
        pc[p] = "failed" => <<artifact, sidecar>> = before[p]
============================================================================
