\* Two vendors, four ways to type a handle, two admins, two requests at a time, five in all.
SPECIFICATION Spec
CONSTANTS
  Vendor = {v1, v2}
  Admin = {a1, a2}
  Req = {r1, r2}
  Raw <- RawHandles
  Handle = {"ann", "bea", ""}
  Normal <- Normals
  Blank = ""
  MaxCalls = 5
  None = None
SYMMETRY Symmetry
CHECK_DEADLOCK FALSE
INVARIANTS
  HandlesUnique
  RowFollowsHistory
  RecordsChainUnlessTogether
