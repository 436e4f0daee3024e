------------------------------ MODULE MCCalls --------------------------------
EXTENDS Calls, MCWorlds
==============================================================================
