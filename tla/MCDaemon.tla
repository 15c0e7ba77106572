------------------------------- MODULE MCDaemon -------------------------------
(* One Daemon object on each platform, and every text of a few symbols cut  *)
(* in every way.                                                            *)
EXTENDS DaemonStartup
==============================================================================
