---------------------------- MODULE CrashReporterMC ----------------------------
(* What a crash looks like: a bug in the game, the noise of a caught         *)
(* exception, a jump into nowhere, and a C++ throw.                          *)
EXTENDS CrashReporter

MCEip == [bug |-> "game", noise |-> "windows", wild |-> "nowhere", throw |-> "windows"]
MCCaller == [bug |-> "game", noise |-> "windows", wild |-> "windows", throw |-> "windows"]
=============================================================================
