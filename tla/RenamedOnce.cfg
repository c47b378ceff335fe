CONSTANTS
  MaxFlatParams = 3
  MaxFlatResults = 1
  Features = {"cm_values", "cm_async", "cm_async_stackful", "shared_everything_threads"}
  Menus <- TwiceMenus
SPECIFICATION Spec
INVARIANT
  RenamedOnce
