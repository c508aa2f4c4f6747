---- MODULE MCConfigFile ----
(* Three runs, so that a file of an earlier run meets two later ones; two   *)
(* failing calls, so that the second may hit the save that would repair the *)
(* first; every third frame saves.                                          *)
EXTENDS ConfigFile
====
