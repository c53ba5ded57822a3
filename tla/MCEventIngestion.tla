-------------------------- MODULE MCEventIngestion --------------------------
EXTENDS EventIngestion
=============================================================================
