CONSTANTS
  MaxFlatParams = 3
  MaxFlatResults = 1
  Features = {"cm_values", "cm_async", "cm_async_stackful", "shared_everything_threads"}
  Menus <- MCMenus
SPECIFICATION Spec
INVARIANTS
  NoForeignResources
  PathsLeadToResources
  
  NamedIsExplicit
  LoweringIsFlattening
