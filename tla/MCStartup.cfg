SPECIFICATION Spec
CONSTANTS
  Replica = {r1, r2}
  Deployment <- MCDeployment
  Descriptor <- MCDescriptor
  Catalogue <- MCCatalogue
  Path <- MCPath
SYMMETRY Symmetry
INVARIANTS
  RoutesByItsOwner
  LoopsFitTheMode
  SurfaceIsSeparated
  CredentialsAreInForce
PROPERTIES
  DestinationIsApproved
