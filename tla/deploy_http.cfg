SPECIFICATION Spec
CONSTANTS
  Imports <- MCImports
  NoEndpoint = NoEndpoint
  Programs = {"ext", "lib", "app"}
  Endpoints = {"e1"}
  MaxTx = 2
  MaxEdition = 0
  Shared = {"ext"}
  FlakyReads = TRUE
  NetType = "http"
  Ephemeral = FALSE
  Order <- MCOrder
  Tasks = {"deploy"}
  Modes = {"deploy", "dry-run", "preflight"}
  ConfirmModes = {TRUE}
  SkipModes = {TRUE, FALSE}
  ExportModes = {FALSE}
  MaxCrashes = 1
PROPERTY ImportsBeforeBroadcast
PROPERTY DeployReturnsDeployed
