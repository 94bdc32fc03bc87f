SPECIFICATION Spec
CONSTANTS
  NoKey = NoKey
  Key = {k1, k2, k3}
  Val = {v1}
  Default = v1
  Lists <- MCLists
INVARIANTS TypeOK Consistent LoopExact IteratorFresh
PROPERTY Implements
SYMMETRY KeySymmetry
