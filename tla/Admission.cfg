SPECIFICATION MCSpec
CONSTANTS
  Names <- MCNames
  Orgs <- MCOrgs
  PartOf <- MCPartOf
  MetaName = "conduit"
  DefaultImage = "image"
  DefaultVersion <- MCDefaultVersion
  NoVersion = NoVersion
  Unparsable = Unparsable
  Urls = {"module"}
  NoSecret = NoSecret
  Secrets <- MCSecrets
  Namespace = "team"
  Releases <- MCReleases
  Listings <- MCListings
  Inputs <- MCInputs
  None = None
  MaxRequests = 2
  MaxChanges = 1
INVARIANTS
  PackageFollowsPlugin
  OutageAdmits
  BuiltinParametersChecked
  ArgumentsFit
PROPERTIES
  WriteBackKeepsSpec
  DeletionSurvivesOutage
