--------------------------- MODULE MCDeferredSync ---------------------------
\* DeferredSync with small sets of items, requests, threads and workers.
EXTENDS DeferredSync
=============================================================================
