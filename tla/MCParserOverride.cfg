CONSTANTS
  Key = {k1, k2}
  Var = {"$X"}
  Scalar = {"kNumber"}
  Bounds <- OverrideBounds
SPECIFICATION Spec
INVARIANT OverridesTracked
