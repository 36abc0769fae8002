CONSTANTS
  Blocks = {b1, b2}
  INDEX_VALUES = 6
  MAX_MARKER_INDEX = 6
SYMMETRY Symmetry
SPECIFICATION MarkersSpec
INVARIANTS
  MarkersTypeOK
  LiveColorsDistinct
  FreshMarkerUnseen
  AtMostFourLive
PROPERTY ImplementsSets
\* The program ends at a failed assertion.
CHECK_DEADLOCK FALSE
