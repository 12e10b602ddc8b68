SPECIFICATION DeploySpec
CONSTANTS
  Installer = {i1, i2}
  Latest = 2
INVARIANTS DeployTypeOK OneOwner AppliedOnceInOrder
PROPERTIES SchemaFirst RestoredIsBefore
SYMMETRY Symmetry
