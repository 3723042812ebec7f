\* A dependency's install hooks next to an importer's script, reported in
\* each of the three reporter modes.
CONSTANTS
  d = d
  r = r
  Deps <- MCDeps
  ImporterIds <- MCImporters
  Keys <- MCKeys
  Modes = {"tty", "append", "aggregate"}
  HideLifecyclePrefix = FALSE
  Manifests <- MCManifests
  ImporterStages <- MCImporterStages
  LineCount <- MCLineCount
  ExitCodes = {0, 1}
SPECIFICATION Spec
INVARIANT FinalMessageMatchesRun
INVARIANT AggregatedOutputInBlocks
\* every actor returns or rejects
CHECK_DEADLOCK FALSE
