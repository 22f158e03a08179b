SPECIFICATION DescSpec
CONSTANTS
  Configurations <- StaleKinds
INVARIANTS
  JudgedByItself
