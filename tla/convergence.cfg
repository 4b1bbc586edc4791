SPECIFICATION FairSpec
CONSTANTS
    a = a  b = b  r1 = r1  r2 = r2
    crd = crd  class = class  deploy = deploy
    git = git  oci = oci
    Runs = {a}
    Objects = {class, deploy}
    Revisions = {r1, r2}
    Sources = {oci}
    GitRepositories = {}
    SourceOf <- FromOCI
    NamespacedRefs = {a}
    DependsOn <- NoOne
    HealthRefs <- OnSelf
    Manifest <- ShrinkManifest
    StageOf <- StageOfKind
    PruneDisabled = {}
    SpecChoices <- SuspendSpecs
    NoRevision = NoRevision
    NoArtifact = NoArtifact
    NoOwner = NoOwner  Drifted = Drifted
    MaxEdits = 2
    MaxFaults = 1
PROPERTIES Converges RequestHandled DeletionCompletes Delivers
CHECK_DEADLOCK FALSE
