--------------------------- MODULE MCWebDashboard ---------------------------
EXTENDS WebDashboard
=============================================================================
