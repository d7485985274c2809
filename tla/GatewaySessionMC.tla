-------------------------- MODULE GatewaySessionMC --------------------------
EXTENDS GatewaySession
=============================================================================
