SPECIFICATION Spec
CONSTANTS
  Texts <- MCTexts
  Trees <- MCTrees
INVARIANTS TypeOK TokensInOrder TokensAreExact NothingIsSkipped LinesAreTrue ColumnsAreTrue OverrunsAreKnown ReadsBack ExpressionsAreNested
PROPERTY ScanningEnds
CHECK_DEADLOCK FALSE
