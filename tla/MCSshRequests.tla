---------------------------- MODULE MCSshRequests ----------------------------
(* SshRequests with two open channels and a listener of one place: every    *)
(* call but process startup, whose program is that of setenv, and           *)
(* direct-tcpip, whose program is that of open.                             *)
EXTENDS SshRequests

AllOps == (ChannelOps \ {"process"}) \cup AuthOps \cup {"open", "listen", "accept", "cancel"}
==============================================================================
