-------------------------- MODULE AccountRuntimeMC --------------------------
EXTENDS AccountRuntime
=============================================================================
