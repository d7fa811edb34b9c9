-------------------------- MODULE ScanEngineLease --------------------------
(***************************************************************************)
(* ScanEngine implements DongleLease.                                      *)
(***************************************************************************)
EXTENDS ScanEngine

Some(s) == \E h \in Handles : handle[h] = s

\* who answers for the dongle
holder ==
    CASE Some("opened")     -> "thread"
      [] Some("engine")     -> "engine"
      [] Some("lateOpened") -> "guard"
      [] Some("leaked")     -> "lost"
      [] OTHER              -> "nobody"

Lease == INSTANCE DongleLease WITH holder <- holder

\* Whatever overlaps and whatever fails, the dongle changes hands only as
\* DongleLease allows: the engine never replaces a handle it has not closed,
\* and a handle that a thread has claimed goes to self.device, to the leak
\* guard, or is lost with the cancelled await (start_async, preview_open,
\* _recover_preview_device, _release_device, _open_device_with_timeout).
LeaseKept == Lease!Spec
=============================================================================
