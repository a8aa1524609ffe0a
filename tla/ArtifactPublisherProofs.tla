---------------------- MODULE ArtifactPublisherProofs ----------------------
(***************************************************************************)
(* What a publish leaves behind: for any set of processes, complete files; *)
(* for one process at a time, files that agree.                            *)
(***************************************************************************)
EXTENDS ArtifactPublisher, TLAPS

USE PublisherAssumption

(***************************************************************************)
(* The files, the temporaries and the labels of every publisher keep their *)
(* types.                                                                  *)
(***************************************************************************)
THEOREM TypeCorrect == Spec => []TypeOK
<1>1. Init => TypeOK
  <2> SUFFICES ASSUME Init PROVE TypeOK
    OBVIOUS
  <2>1. Absent \in Contents
    BY DEF Contents
  <2>2. artifact \in Contents /\ sidecar \in Contents /\ torn \in BOOLEAN
    BY <2>1 DEF Init
  <2>3. builds \in 0 .. MaxBuilds
    BY DEF Init
  <2>4. pc \in [Publishers -> Labels] /\ mode \in [Publishers -> Modes]
    BY DEF Init, Labels, Modes
  <2>5. /\ build \in [Publishers -> Contents]
        /\ snapshot \in [Publishers -> Contents]
        /\ metaTmp \in [Publishers -> Contents]
        /\ artTmp \in [Publishers -> Contents]
    BY <2>1 DEF Init
  <2>6. before \in [Publishers -> Contents \X Contents]
    BY <2>1 DEF Init
  <2> QED
    BY <2>2, <2>3, <2>4, <2>5, <2>6 DEF TypeOK
<1>2. TypeOK /\ [Next]_vars => TypeOK'
  <2> SUFFICES ASSUME TypeOK, [Next]_vars PROVE TypeOK'
    OBVIOUS
  <2> USE DEF TypeOK, Contents, Builds, Labels, Modes, Goto, local
  <2>1. ASSUME NEW p \in Publishers, NEW m \in Modes, Begin(p, m) PROVE TypeOK'
    <3>1. builds + 1 \in Contents /\ builds + 1 \in 0 .. MaxBuilds
      BY <2>1 DEF Begin
    <3>2. Absent \in Contents /\ artifact \in Contents /\ sidecar \in Contents
      BY DEF Absent
    <3>3. before' \in [Publishers -> Contents \X Contents]
      BY <2>1, <3>2 DEF Begin
    <3> QED
      BY <2>1, <3>1, <3>2, <3>3 DEF Begin
  <2>2. ASSUME NEW p \in Publishers, Snapshot(p) PROVE TypeOK'
    BY <2>2 DEF Snapshot
  <2>3. ASSUME NEW p \in Publishers, WriteMetadata(p) PROVE TypeOK'
    BY <2>3 DEF WriteMetadata
  <2>4. ASSUME NEW p \in Publishers, WriteArtifact(p) PROVE TypeOK'
    BY <2>4 DEF WriteArtifact
  <2>5. ASSUME NEW p \in Publishers, CommitMetadata(p) PROVE TypeOK'
    BY <2>5 DEF CommitMetadata
  <2>6. ASSUME NEW p \in Publishers, CommitArtifact(p) PROVE TypeOK'
    BY <2>6 DEF CommitArtifact
  <2>7. ASSUME NEW p \in Publishers, FailBeforeCommit(p) PROVE TypeOK'
    BY <2>7 DEF FailBeforeCommit
  <2>8. ASSUME NEW p \in Publishers, ArtifactCommitFails(p) PROVE TypeOK'
    BY <2>8 DEF ArtifactCommitFails
  <2>9. ASSUME NEW p \in Publishers, RestoreMetadata(p) PROVE TypeOK'
    BY <2>9 DEF RestoreMetadata
  <2>10. ASSUME NEW p \in Publishers, RestoreFails(p) PROVE TypeOK'
    BY <2>10 DEF RestoreFails
  <2>11. ASSUME NEW p \in Publishers, Kill(p) PROVE TypeOK'
    BY <2>11 DEF Kill
  <2>12. CASE UNCHANGED vars
    BY <2>12 DEF vars
  <2> QED
    BY <2>1, <2>2, <2>3, <2>4, <2>5, <2>6, <2>7, <2>8, <2>9, <2>10, <2>11, <2>12
       DEF Next, Step, Finished
<1> QED
  BY <1>1, <1>2, PTL DEF Spec

\* A temporary that is about to be renamed is complete, and so is the
\* sidecar a rollback would write.
Complete(p) ==
    /\ build[p] # Partial
    /\ snapshot[p] # Partial
    /\ pc[p] = "commitMeta" => metaTmp[p] # Partial /\ artTmp[p] # Partial
    /\ pc[p] = "commitArtifact" => artTmp[p] # Partial
    /\ pc[p] = "artifact" => metaTmp[p] # Partial /\ mode[p] # "link"
    /\ mode[p] = "link" => artTmp[p] # Partial

CompleteInv == NeverPartial /\ \A p \in Publishers : Complete(p)

(***************************************************************************)
(* No file is ever exposed half-written (writeOutputPath's promise), for   *)
(* any number of processes that publish to the same path and fail or are   *)
(* killed anywhere.                                                        *)
(***************************************************************************)
THEOREM NeverExposesPartial == Spec => []NeverPartial
<1>1. Init => CompleteInv
  BY DEF Init, CompleteInv, Complete, NeverPartial, Absent, Partial
<1>2. TypeOK /\ CompleteInv /\ [Next]_vars => CompleteInv'
  <2> SUFFICES ASSUME TypeOK, CompleteInv, [Next]_vars PROVE CompleteInv'
    OBVIOUS
  <2> USE DEF TypeOK, CompleteInv, Complete, NeverPartial, Goto, local
  <2>0. Absent # Partial /\ \A n \in Builds : n # Partial
    BY DEF Absent, Partial, Builds
  <2>1. ASSUME NEW p \in Publishers, NEW m \in Modes, Begin(p, m) PROVE CompleteInv'
    <3>1. builds + 1 \in Builds
      BY <2>1 DEF Begin, Builds
    <3> QED
      BY <2>0, <2>1, <3>1 DEF Begin, Modes
  <2>2. ASSUME NEW p \in Publishers, Snapshot(p) PROVE CompleteInv'
    BY <2>0, <2>2 DEF Snapshot
  <2>3. ASSUME NEW p \in Publishers, WriteMetadata(p) PROVE CompleteInv'
    BY <2>0, <2>3 DEF WriteMetadata
  <2>4. ASSUME NEW p \in Publishers, WriteArtifact(p) PROVE CompleteInv'
    BY <2>0, <2>4 DEF WriteArtifact
  <2>5. ASSUME NEW p \in Publishers, CommitMetadata(p) PROVE CompleteInv'
    BY <2>0, <2>5 DEF CommitMetadata
  <2>6. ASSUME NEW p \in Publishers, CommitArtifact(p) PROVE CompleteInv'
    BY <2>0, <2>6 DEF CommitArtifact
  <2>7. ASSUME NEW p \in Publishers, FailBeforeCommit(p) PROVE CompleteInv'
    BY <2>0, <2>7 DEF FailBeforeCommit
  <2>8. ASSUME NEW p \in Publishers, ArtifactCommitFails(p) PROVE CompleteInv'
    BY <2>0, <2>8 DEF ArtifactCommitFails
  <2>9. ASSUME NEW p \in Publishers, RestoreMetadata(p) PROVE CompleteInv'
    BY <2>0, <2>9 DEF RestoreMetadata
  <2>10. ASSUME NEW p \in Publishers, RestoreFails(p) PROVE CompleteInv'
    BY <2>0, <2>10 DEF RestoreFails
  <2>11. ASSUME NEW p \in Publishers, Kill(p) PROVE CompleteInv'
    BY <2>0, <2>11 DEF Kill
  <2>12. CASE UNCHANGED vars
    BY <2>12 DEF vars
  <2> QED
    BY <2>1, <2>2, <2>3, <2>4, <2>5, <2>6, <2>7, <2>8, <2>9, <2>10, <2>11, <2>12
       DEF Next, Step, Finished
<1> QED
  BY <1>1, <1>2, TypeCorrect, PTL DEF Spec, CompleteInv

\* What a publish of p has done so far, when nobody else is publishing: the
\* rollback would restore the sidecar it found, and the sidecar it committed
\* describes the artifact it is about to commit.
Described(p) ==
    /\ pc[p] = "artifact" => mode[p] # "link"
    /\ pc[p] \in {"snapshot", "metadata", "commitMeta", "restore"} => mode[p] # "plain"
    /\ pc[p] \in {"snapshot", "metadata"} /\ mode[p] = "link" => artTmp[p] = build[p]
    /\ pc[p] = "artifact" /\ mode[p] # "plain" => metaTmp[p] = build[p]
    /\ pc[p] = "commitMeta" => metaTmp[p] = build[p] /\ artTmp[p] = build[p]
    /\ pc[p] = "commitArtifact" /\ mode[p] # "plain" => sidecar = artTmp[p]

Reversible(p) ==
    /\ pc[p] \in {"metadata", "commitMeta"} => snapshot[p] = sidecar
    /\ pc[p] = "artifact" /\ mode[p] # "plain" => snapshot[p] = sidecar
    /\ pc[p] \in {"snapshot", "metadata", "artifact", "commitMeta", "failed"} =>
          before[p] = <<artifact, sidecar>>
    /\ pc[p] = "commitArtifact" /\ mode[p] = "plain" => before[p] = <<artifact, sidecar>>
    /\ InWindow(p) => before[p] = <<artifact, snapshot[p]>>
    /\ ~torn /\ InWindow(p) => artifact = snapshot[p]
    /\ ~torn /\ ~InWindow(p) => artifact = sidecar

PublishInv(p) == Described(p) /\ Reversible(p)

(***************************************************************************)
(* PublishInv is an invariant when one process at a time publishes.        *)
(***************************************************************************)
LEMMA PublishInvariant ==
    ASSUME NEW p0, Publishers = {p0}
    PROVE  Spec => []PublishInv(p0)
<1>1. Init => PublishInv(p0)
  BY DEF Init, PublishInv, Described, Reversible, InWindow
<1>2. TypeOK /\ PublishInv(p0) /\ [Next]_vars => PublishInv(p0)'
  <2> SUFFICES ASSUME TypeOK, PublishInv(p0), [Next]_vars PROVE PublishInv(p0)'
    OBVIOUS
  <2> USE DEF TypeOK, PublishInv, Described, Reversible, InWindow, Goto, local
  <2>1. ASSUME NEW m \in Modes, Begin(p0, m) PROVE PublishInv(p0)'
    BY <2>1 DEF Begin, Modes, Over
  <2>2. CASE Snapshot(p0)
    BY <2>2 DEF Snapshot
  <2>3. CASE WriteMetadata(p0)
    BY <2>3 DEF WriteMetadata
  <2>4. CASE WriteArtifact(p0)
    BY <2>4 DEF WriteArtifact
  <2>5. CASE CommitMetadata(p0)
    BY <2>5 DEF CommitMetadata
  <2>6. CASE CommitArtifact(p0)
    BY <2>6 DEF CommitArtifact
  <2>7. CASE FailBeforeCommit(p0)
    BY <2>7 DEF FailBeforeCommit
  <2>8. CASE ArtifactCommitFails(p0)
    BY <2>8 DEF ArtifactCommitFails
  <2>9. CASE RestoreMetadata(p0)
    BY <2>9 DEF RestoreMetadata
  <2>10. CASE RestoreFails(p0)
    BY <2>10 DEF RestoreFails
  <2>11. CASE Kill(p0)
    BY <2>11 DEF Kill, Over
  <2>12. CASE UNCHANGED vars
    BY <2>12 DEF vars
  <2> QED
    BY <2>1, <2>2, <2>3, <2>4, <2>5, <2>6, <2>7, <2>8, <2>9, <2>10, <2>11, <2>12
       DEF Next, Step, Finished
<1> QED
  BY <1>1, <1>2, TypeCorrect, PTL DEF Spec

(***************************************************************************)
(* When one process at a time publishes to a path, the artifact and the    *)
(* sidecar agree outside the window between the two renames, unless a kill *)
(* there, a failed rollback or a publish without metadata has separated    *)
(* them.                                                                   *)
(***************************************************************************)
THEOREM OneAtATime ==
    ASSUME NEW p0, Publishers = {p0}
    PROVE  Spec => []PairAgrees
<1>1. PublishInv(p0) => PairAgrees
  BY DEF PublishInv, Reversible, PairAgrees
<1> QED
  BY <1>1, PublishInvariant, PTL

(***************************************************************************)
(* When one process at a time publishes to a path, a publish that reports  *)
(* a failure has left both files as it found them, wherever it failed: the *)
(* rollback of writeArtifactWithMetadata restores exactly what was there.  *)
(***************************************************************************)
THEOREM FailureUndone ==
    ASSUME NEW p0, Publishers = {p0}
    PROVE  Spec => []FailureLeavesNoTrace
<1>1. PublishInv(p0) => FailureLeavesNoTrace
  BY DEF PublishInv, Reversible, FailureLeavesNoTrace
<1> QED
  BY <1>1, PublishInvariant, PTL

(***************************************************************************)
(* When one process at a time publishes to a path, an artifact that        *)
(* becomes visible has its matching sidecar in place already.              *)
(***************************************************************************)
THEOREM AppearsDescribed ==
    ASSUME NEW p0, Publishers = {p0}
    PROVE  Spec => ArtifactAppearsDescribed
<1> DEFINE Appears ==
      \A p \in Publishers :
          (artifact' # artifact /\ pc[p] # pc'[p] /\ mode[p] # "plain") =>
              sidecar' = artifact'
<1>1. PublishInv(p0) /\ [Next]_vars => [Appears]_vars
  <2> SUFFICES ASSUME PublishInv(p0), [Next]_vars PROVE [Appears]_vars
    OBVIOUS
  <2>1. CASE CommitArtifact(p0)
    BY <2>1 DEF CommitArtifact, PublishInv, Described
  <2>2. CASE UNCHANGED artifact
    BY <2>2
  <2>3. CASE UNCHANGED vars
    BY <2>3
  <2> QED
    BY <2>1, <2>2, <2>3
       DEF Next, Step, Finished, Begin, Snapshot, WriteMetadata, WriteArtifact,
           CommitMetadata, FailBeforeCommit, ArtifactCommitFails,
           RestoreMetadata, RestoreFails, Kill
<1> QED
  BY <1>1, PublishInvariant, PTL DEF Spec, ArtifactAppearsDescribed
============================================================================
