SPECIFICATION BackendSpec
CONSTANTS
  folderName <- MCFolderName
  kind <- MCKind
  aleo <- MCAleo
  importsOf <- MCImportsOf
  Undeclared = {"broken"}
  Reserved = {"credits.aleo"}
  Layouts <- MCLayouts
  Texts <- MCTexts
  Renames = {"mytoken.aleo"}
  Networks = {"devnode", "testnet"}
  LeoVersions = {"4.3", "4.4"}
  Foreign = {"credits.aleo", "token.aleo"}
  OnChain <- MCOnChain
  Requests <- MCRequests
  moduleStem <- MCModuleStem
  EditWhileCompiling = FALSE
  DeployRequests <- MCDeploys
  Substrings <- MCSubstrings
  Seeds <- MCSeeds
  MaxChanges = 1
  MaxCompiles = 3
INVARIANTS
  CompileOrderValid
  ResultsFresh
  ExecutionClosed
  BuiltAsRecorded
CHECK_DEADLOCK FALSE
