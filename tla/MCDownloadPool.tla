--------------------------- MODULE MCDownloadPool ---------------------------
EXTENDS DownloadPool
All(n, kind) == [r \in 1 .. n |-> kind]
\* a queue longer than the pool; threads that do not start, with stops; two requests for one
\* path; and one with every fault, that may resume or start over
SixSettings ==
  {[kind |-> All(3, "memory"), faults |-> {}],
   [kind |-> All(2, "memory"), faults |-> {"start", "stop"}],
   [kind |-> All(2, "cached"), faults |-> {"storage"}],
   [kind |-> <<"file", "cached">>, faults |-> {}],
   [kind |-> <<"file">>, faults |-> AllFaults],
   [kind |-> <<"cached">>, faults |-> {"drop", "change"}]}
=============================================================================
