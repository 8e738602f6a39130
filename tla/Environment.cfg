SPECIFICATION Spec
CONSTANTS
  Specs <- MCSpecs
  OwnSecret = "conduit"
  Words <- MCWords
  Supported = {"v0.13.2"}
  None = None
  MaxEdits = 3
  MaxChanges = 2
INVARIANT VariablesWhole
PROPERTIES WrittenFromOneSpec ReferencesDefined SourcesFollow Settles
