\* Two injectors of any two atoms; either mem fault fits alone, two do not.
SPECIFICATION Spec
CONSTANTS
  Injectors = {"A", "B"}
  Sizes = {1, 2}
  Capacity = 2
INVARIANTS NothingElseLeft OvercommitIsARace
PROPERTIES CutShortByPeerOnly EffectEnds
