SPECIFICATION OwnershipSpec
CONSTANTS
    a = a  b = b  r1 = r1  r2 = r2
    crd = crd  class = class  deploy = deploy
    git = git  oci = oci
    Runs = {a, b}
    Objects = {class, deploy}
    Revisions = {r1, r2}
    Sources = {git}
    GitRepositories = {git}
    SourceOf <- FromGit
    NamespacedRefs = {}
    DependsOn <- NoOne
    HealthRefs <- NoOne
    Manifest <- SwapManifest
    StageOf <- StageOfKind
    PruneDisabled = {}
    SpecChoices <- AwaitedSpecs
    NoRevision = NoRevision
    NoArtifact = NoArtifact
    NoOwner = NoOwner  Drifted = Drifted
    MaxEdits = 2
    MaxFaults = 0
INVARIANTS NoOrphans SettledDeployed
CHECK_DEADLOCK FALSE
