---------------------------- MODULE MCRemoteFile ----------------------------
EXTENDS RemoteFile
\* each user with everything that it handles, and with threads that do not come back
FourSettings ==
  {[mode |-> "http", faults |-> AllFaults \ {"wedge"}],
   [mode |-> "http", faults |-> {"wedge", "cancel", "drop"}],
   [mode |-> "device", faults |-> AllFaults],
   [mode |-> "upload", faults |-> AllFaults]}
=============================================================================
