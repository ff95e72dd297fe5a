------------------------ MODULE MC_TimeMeasurement ------------------------
EXTENDS TimeMeasurement

CONSTANTS csv, sql, unknown
=============================================================================
