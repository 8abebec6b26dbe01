SPECIFICATION OutboundSpec
CHECK_DEADLOCK FALSE
CONSTANTS
  SinkZones = {"zone_1", "zone_2"}
  NoMessage = NoMessage
  MaxStates = 2
  MaxFaults = 2
  Nodes = {n1, n2}
  Zones = {z1, z2}
  EvictAfter = 1
  MaxVersion = 1
  MaxWay = 2
  MaxDrops = 1
  Sinks = 2
  MaxMessages = 2
INVARIANTS SinkInv GatewayInv ShutdownInv
PROPERTIES OutboundSteps Delivered ShutsDown
