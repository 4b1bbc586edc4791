SPECIFICATION FairSpec
CONSTANTS
    a = a  src = src
    main = main  tag = tag  d1 = d1  d2 = d2
    Runs = {a}
    Sources = {src}
    SourceOf <- OfSrc
    Revisions <- TwoRevisions
    Missing = Missing  NoArtifact = NoArtifact  Nothing = Nothing
    MaxEdits = 3
    MaxFaults = 2
INVARIANTS TypeOK RevisionsNoticed PredicatesDetect
PROPERTY CatchesUp
