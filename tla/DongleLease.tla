---------------------------- MODULE DongleLease ----------------------------
(***************************************************************************)
(* What ScanEngine promises about the one SDR dongle, whatever its callers *)
(* do: at every moment exactly one party answers for it, and it changes    *)
(* hands only in the ways below.                                           *)
(*   nobody   not claimed                                                  *)
(*   thread   claimed by a controller.open whose caller still waits        *)
(*   engine   self.device                                                  *)
(*   guard    claimed after the wait was given up: the leak guard closes it*)
(*   lost     claimed after the wait was cancelled: until the process ends *)
(***************************************************************************)
VARIABLE holder

Holder == {"nobody", "thread", "engine", "guard", "lost"}

Init == holder = "nobody"

\* only a free dongle can be opened, whoever is left to wait for it
Claim == holder = "nobody" /\ holder' \in {"thread", "guard", "lost"}

Deliver == holder = "thread" /\ holder' = "engine"

GiveUp == holder = "thread" /\ holder' \in {"guard", "lost"}

\* the engine lets go of the dongle only by closing it
Release == holder = "engine" /\ holder' = "nobody"

CloseLate == holder = "guard" /\ holder' = "nobody"

Next == Claim \/ Deliver \/ GiveUp \/ Release \/ CloseLate

Spec == Init /\ [][Next]_holder
=============================================================================
