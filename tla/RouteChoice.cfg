SPECIFICATION DecisionSpec
CONSTANTS
  Routes <- ThreeRoutes
  MaxCost = 4
  Unknown = 7
  DecisionEdge = 2
  DestinationEdge = 9
INVARIANTS ChoiceIsRoute DrawnAsProbable CheaperIsLikelier
CHECK_DEADLOCK FALSE
