SPECIFICATION Spec
CONSTANTS
  Names <- MCNames
  Orgs <- MCOrgs
  PartOf <- MCPartOf
  MetaName = "conduit"
  DefaultImage = "image"
  DefaultVersion <- MCDefaultVersion
  NoVersion = NoVersion
  Unparsable = Unparsable
  Urls = {"module"}
  NoSecret = NoSecret
  Secrets <- MCSecrets
  Namespace = "team"
  Releases <- MCReleases
  Listings <- MCListings
  Inputs <- StandaloneInputs
  None = None
  MaxRequests = 2
  MaxChanges = 2
INVARIANT AppropriatePluginChecked
CHECK_DEADLOCK FALSE
