\* Sources of at most 7 nodes, or 5 with a syntax error; modules handed to the
\* translator of at most one entity and one function of 5 operators.
CONSTANTS
  Names = {"main"}
  SimpleTypes = {"i32"}
  Grammar <- const_Grammar
  MaxIds = 8
  MaxFaultyIds = 6
  MaxFaults = 1
  UzumakiTypes = {"i32", "i64"}
  Alphabet <- const_Alphabet
  MaxEntities = 1
  MaxBodies = 1
  MaxReads = 5
  EntityCost = 3
SPECIFICATION Spec
INVARIANTS
  BuildOkIsWhole
  RenderedIsWhole
  
