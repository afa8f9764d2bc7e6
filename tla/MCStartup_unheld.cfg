SPECIFICATION Spec
CONSTANTS
  Replica = {r1}
  Deployment <- MCDeployment
  Descriptor <- MCDescriptor
  Catalogue <- MCCatalogue
  Path <- MCPath
INVARIANTS
  CallerKeysAreLoaded
