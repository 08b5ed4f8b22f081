--------------------------- MODULE MCDashboardFan ---------------------------
(* Small instances of DashboardFan.                                         *)
EXTENDS DashboardFan
MCChannels == <<"c1", "c2">>
=============================================================================
