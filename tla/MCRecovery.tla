----------------------------- MODULE MCRecovery -----------------------------
EXTENDS Recovery

TwoTunnels == <<"t", "u">>
Waits == <<1, 2>>
RebuildWaits == <<1>>
=============================================================================
