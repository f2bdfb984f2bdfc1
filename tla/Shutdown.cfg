\* Start, serve, stop: three requests, signals at any time.
SPECIFICATION FairSpec
CONSTANTS
  q1 = q1
  q2 = q2
  q3 = q3
  Requests <- MCRequests
 
PROPERTIES StopIsBounded ListenFailureStops
CHECK_DEADLOCK FALSE
