SPECIFICATION AppliedSpec
CONSTANTS
  Kits = {{"dspark"}}
  MaxDrifted <- None
INVARIANT RevertRestores
