-------------------------------- MODULE MCGC ---------------------------------
EXTENDS GC, TLC

CONSTANTS o1, o2, o3

MCObj == {o1, o2, o3}

MCPlainKinds == {"string", "bytes", "bound", "closure"}
MCDictKinds == {"list", "dict"}
MCSharedKinds == {"string", "function", "closure"}
==============================================================================
