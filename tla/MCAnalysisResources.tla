-------------------------- MODULE MCAnalysisResources --------------------------
\* One execution: nothing but the sweep's order joins one to another.  Three failing writes
\* and a crash at any step; a record is put off twice before it is quarantined.
EXTENDS AnalysisResources
================================================================================
