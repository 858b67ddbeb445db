SPECIFICATION Spec
CONSTANTS
  MaxSends = 2
  Uses = {"register_merging", "merging_on", "merging_off", "first_deposit", "spend"}
  Permissionless = TRUE
  MaxChanges = 1
PROPERTY RefusedIsDropped
