CONSTANTS
    goal = goal
    dashboard = dashboard
SPECIFICATION LiveSpec
CHECK_DEADLOCK FALSE
PROPERTIES SlotsMove DeliveryMoves  MediaReclaimed
