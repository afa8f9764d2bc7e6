SPECIFICATION Spec
CONSTANTS
  Reference <- MCReference
  FileBacked <- MCFileBacked
  Extra <- MCExtra
  Value = {"old", "new"}
  Loader = {boot, refresh1}
  Boot = boot
  Caller = {c1}
  Serialised = TRUE
INVARIANTS
  TypeOK
  ResolvedIsComplete
  HeldIsAsReported
