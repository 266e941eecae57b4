------------------------------ MODULE MCEpgMonitor ------------------------------
EXTENDS EpgMonitor
================================================================================
