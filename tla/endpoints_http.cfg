SPECIFICATION Spec
CONSTANTS
  Imports <- MCImports
  NoEndpoint = NoEndpoint
  Programs = {"lib"}
  Endpoints = {"e1", "e2"}
  MaxTx = 2
  MaxEdition = 1
  Shared = {}
  FlakyReads = TRUE
  NetType = "http"
  Ephemeral = FALSE
  Order <- MCOrderLib
  Tasks = {"deploy", "upgrade", "export"}
  Modes = {"deploy"}
  ConfirmModes = {TRUE}
  SkipModes = {TRUE}
  ExportModes = {TRUE, FALSE}
  MaxCrashes = 1
INVARIANT RecordsMatchMetadata
INVARIANT BundleFromItsChain
