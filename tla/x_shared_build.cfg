SPECIFICATION BackendSpec
CONSTANTS
  folderName <- MCFolderName
  kind <- MCKind
  aleo <- MCAleo
  importsOf <- MCImportsOf
  Undeclared = {"broken"}
  Reserved = {"credits.aleo"}
  Layouts <- MCLayouts
  Texts <- MCTexts
  Renames = {"mytoken.aleo"}
  Networks = {"devnode", "testnet"}
  LeoVersions = {"4.3", "4.4"}
  Foreign = {"credits.aleo", "token.aleo"}
  OnChain <- MCOnChain
  Requests <- MCRenameRequests
  moduleStem <- MCModuleStem
  EditWhileCompiling = FALSE
  DeployRequests = {}
  Substrings <- MCSubstrings
  Seeds <- MCSeeds
  MaxChanges = 0
  MaxCompiles = 3
INVARIANT BuildsKeptApart
CHECK_DEADLOCK FALSE
