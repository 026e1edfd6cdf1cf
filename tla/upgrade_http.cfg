SPECIFICATION LiveSpec
CONSTANTS
  Imports <- MCImports
  NoEndpoint = NoEndpoint
  Programs = {"lib"}
  Endpoints = {"e1"}
  MaxTx = 3
  MaxEdition = 2
  Shared = {}
  FlakyReads = FALSE
  NetType = "http"
  Ephemeral = FALSE
  Order <- MCOrderLib
  Tasks = {"deploy", "upgrade"}
  Modes = {"deploy"}
  ConfirmModes = {TRUE}
  SkipModes = {TRUE}
  ExportModes = {FALSE}
  MaxCrashes = 1
INVARIANT CompleteMeansAccepted
INVARIANT NeverAheadOfChain
INVARIANT SnapshotOfRecord
PROPERTY MarkersResolved
