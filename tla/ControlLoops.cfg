CONSTANTS
  SensorNames = {"frienda_obstacle_431S", "GT_U7"}
  ControlNames = {"pilot", "obstacle_avoidance"}
  MaxSensors = 3
  MaxAlgorithms = 3
  MaxTasks = 1
SPECIFICATION FairSpec
INVARIANT IInv
PROPERTY NothingHangs
CHECK_DEADLOCK FALSE
