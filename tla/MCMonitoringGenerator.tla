----------------------- MODULE MCMonitoringGenerator -----------------------
(* Small instances of MonitoringGenerator for TLC.                         *)
EXTENDS MonitoringGenerator

EveryOrOne == {{}, {1}}
=============================================================================
