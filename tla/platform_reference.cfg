\* checkList and checkPlatform on every bounded input against the
\* reference meaning of os/cpu/libc lists.
CONSTANTS
  Undefined = Undefined
  Cancel = Cancel
  Names <- MCNames
  ListInputs <- MCListInputs
  PlatformInputs <- MCPlatformInputs
SPECIFICATION PolicySpec
INVARIANT CheckListMatchesNpm
INVARIANT PositiveListAdmitsAnySupported
INVARIANT PlatformMatchesNpm
INVARIANT ApprovalsRecorded
