CONSTANTS
  Key = {k1, k2}
  Var = {"$X"}
  Scalar = {"kNumber"}
  Bounds <- MixedBounds
SPECIFICATION Spec
INVARIANT MixedFileRefused
