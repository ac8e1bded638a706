CONSTANTS
  MaxVars = 2
  MaxDepth = 2
  MaxWords = 2
  MaxPrompts = 3
  Goals <- GoalsDef
  Terms <- TermsDef
  Ground <- GroundDef
  Value <- ValueDef
SPECIFICATION Spec
PROPERTY NewIsNew
