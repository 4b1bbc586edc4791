SPECIFICATION OwnershipSpec
CONSTANTS
    a = a  b = b  r1 = r1  r2 = r2
    crd = crd  class = class  deploy = deploy
    git = git  oci = oci
    Runs = {a}
    Objects = {crd, class, deploy}
    Revisions = {r1, r2}
    Sources = {git}
    GitRepositories = {git}
    SourceOf <- FromGit
    NamespacedRefs = {a}
    DependsOn <- NoOne
    HealthRefs <- NoOne
    Manifest <- OneManifest
    StageOf <- StageOfKind
    PruneDisabled = {class}
    SpecChoices <- PruneSpecs
    NoRevision = NoRevision
    NoArtifact = NoArtifact
    NoOwner = NoOwner  Drifted = Drifted
    MaxEdits = 2
    MaxFaults = 2
INVARIANTS TypeOK FinalizerBeforeApply ReadyIsCurrent LastAppliedSound ProgressReported NeverForgotten NoOrphans
PROPERTY DeletionPrunes
CHECK_DEADLOCK FALSE
