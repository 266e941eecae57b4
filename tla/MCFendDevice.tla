------------------------------ MODULE MCFendDevice ------------------------------
EXTENDS FendDevice
================================================================================
