SPECIFICATION MCSpec
CONSTANTS
  Requests = {r1, r2}
  Entries = {provider, auth}
  Providers = {provider}
  ByName = {provider}
  TopLevel = {auth}
  Foreign = {mine}
  Files = files
  None = None
  MaxRequests = 3
  Claws = {A, B}
  ModelProviders = {"openrouter", "google-vertex"}
  Typed <- MCTyped
  Made <- MCMade
  Absent = Absent
  Own = own
  Listings = {own, poll}
  MaxSaves = 2
  MaxActs = 2
SYMMETRY Symmetry
INVARIANT OwnSecrets
