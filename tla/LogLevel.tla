------------------------------ MODULE LogLevel ------------------------------
(* LogLevel of src/log.h: the levels, whose numbers are compared, and their *)
(* names in configurations and in log lines.                                *)
EXTENDS Naturals, Sequences

UNKNOW == 0
Names  == <<"DEBUG", "INFO", "WARN", "ERROR", "FATAL">>
lower  == <<"debug", "info", "warn", "error", "fatal">>
Levels == {UNKNOW} \cup DOMAIN Names

ToText(level) == IF level \in DOMAIN Names THEN Names[level] ELSE "UNKNOW"

\* Of any other text the level is UNKNOW.
FromString(str) ==
  IF \E l \in DOMAIN Names : str \in {Names[l], lower[l]}
  THEN CHOOSE l \in DOMAIN Names : str \in {Names[l], lower[l]}
  ELSE UNKNOW
=============================================================================
