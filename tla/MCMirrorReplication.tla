------------------------ MODULE MCMirrorReplication ------------------------
(***************************************************************************)
(* MirrorReplication on tables of a few rows, with both scopes of a mirror *)
(* that was created without naming any.                                    *)
(***************************************************************************)
EXTENDS MirrorReplication

DefaultScopes == Tables
EveryFault    == AllFaults
=============================================================================
