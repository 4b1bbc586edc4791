SPECIFICATION Spec
CONSTANTS
    a = a  b = b  r1 = r1  r2 = r2
    crd = crd  class = class  deploy = deploy
    git = git  oci = oci
    Runs = {a}
    Objects = {deploy}
    Revisions = {r1, r2}
    Sources = {oci}
    GitRepositories = {}
    SourceOf <- FromOCI
    NamespacedRefs = {a}
    DependsOn <- NoOne
    HealthRefs <- NoOne
    Manifest <- SameManifest
    StageOf <- StageOfKind
    PruneDisabled = {}
    SpecChoices <- PlainSpecs
    NoRevision = NoRevision
    NoArtifact = NoArtifact
    NoOwner = NoOwner  Drifted = Drifted
    MaxEdits = 1
    MaxFaults = 0
PROPERTY OCIRevisionRequests
CHECK_DEADLOCK FALSE
