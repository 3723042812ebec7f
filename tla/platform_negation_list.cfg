\* Does a list of negations admit several supported values it does not
\* name?
CONSTANTS
  Undefined = Undefined
  Cancel = Cancel
  Names <- MCNames
  ListInputs <- MCListInputs
  PlatformInputs <- MCPlatformInputs
SPECIFICATION Spec
INVARIANT NegationListAdmitsUnnamed
