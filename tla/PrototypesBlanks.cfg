SPECIFICATION ProtoSpec
CONSTANTS
  MaxProto = 4
PROPERTIES
  BlanksIgnored
CHECK_DEADLOCK FALSE
