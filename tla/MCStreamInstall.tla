--------------------------- MODULE MCStreamInstall ---------------------------
EXTENDS StreamInstall

Files(mtp, ftp) == [t \in Transports |-> IF t = "mtp" THEN mtp ELSE ftp]
Titles(load, faults) == [load |-> load, kind |-> "title", faults |-> faults]

\* one client that sends two files, with faults, or two clients that send one file each, or
\* one that sends a homebrew and may go away
OneOrTwo ==
  {Titles(Files(2, 0), {"cancel", "interrupt"}), Titles(Files(2, 0), {"busy", "start", "interrupt"}),
   Titles(Files(0, 2), {"cancel", "install"}), Titles(Files(0, 2), {"web", "start"}),
   Titles(Files(1, 1), {}),
   [load |-> Files(1, 0), kind |-> "nro", faults |-> {"interrupt"}]}
==============================================================================
