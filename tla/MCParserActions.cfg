CONSTANTS
  Key = {k1, k2}
  Var = {"$X"}
  Scalar = {"kNumber"}
  Bounds <- MCBounds
SPECIFICATION Spec
INVARIANTS TypeOK KeysArePath ProtoScope DepthIsNesting NoInternalError EverythingKept ExpressionOwnsLookups
SYMMETRY KeySymmetry
