CONSTANTS
  Names = {"v3.2.0", "v3.1.98"}
  Heights <- MCHeights
  MaxEntries = 2
SPECIFICATION Spec
INVARIANT OnlyIllegalArgument
