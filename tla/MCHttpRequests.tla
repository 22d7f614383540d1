--------------------------- MODULE MCHttpRequests ---------------------------
EXTENDS HttpRequests
=============================================================================
