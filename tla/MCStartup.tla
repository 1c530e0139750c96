------------------------------- MODULE MCStartup -------------------------------
(* The start of the program for TLC; the constants are given in the .cfg.  *)
EXTENDS Startup

================================================================================
