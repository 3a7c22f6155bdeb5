CONSTANTS
  Names = {"v3.2.0", "v3.1.98", "v3.3.0", "null name"}
  Heights <- MCHeights
  MaxEntries = 3
SPECIFICATION Spec
INVARIANTS DecidesAsTheNetwork BindingsAgree
