--------------------- MODULE MC_TabletAllocatorLifecycle ---------------------
(* The lifecycle model for TLC.                                            *)
EXTENDS TabletAllocatorLifecycle

CONSTANTS s1, s2, s3, s4, s5, s6
==============================================================================
