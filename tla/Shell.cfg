CONSTANTS
    Sizes <- TwoSizes
    Codes <- SomeCodes
SPECIFICATION FairSpec
INVARIANTS
    ExitRestores
    ResizesSettle
    RemoteUsable
    ExitTruthful
PROPERTY ClientEnds
