------------------------------ MODULE MCAvDevice ------------------------------
EXTENDS AvDevice
================================================================================
