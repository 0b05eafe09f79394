SPECIFICATION FairSpec
CONSTANTS
  east = east
  west = west
  Nodes = {east, west}
  Local = Local
  Patient <- Supervisors
  MaxId = 2
  MaxActs = 4
INVARIANTS Faithful OwnAnswers
PROPERTIES Answered
CHECK_DEADLOCK FALSE
