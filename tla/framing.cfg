SPECIFICATION Spec
CONSTANTS
  NRequests = 2
  Shapes = {"length", "lengthClose", "chunked", "nobody", "untilClose", "malformed"}
  Engines = {"once", "multi"}
  Crashes = TRUE
  NoConn = NoConn
 
PROPERTIES CloseDelimited
CHECK_DEADLOCK FALSE
