SPECIFICATION Spec
CONSTANTS
  MaxTiers = 3
INVARIANTS RolesApart FallbackIsBelow
