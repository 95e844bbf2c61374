SPECIFICATION Spec
CONSTANTS
  MaxTarget = 2
  MaxManual = 2
PROPERTIES
  StoppedLoadStaysStopped
