------------------------------ MODULE OtaService ------------------------------
(***************************************************************************)
(* What the firmware promises of over-the-air updates, as README.md and    *)
(* connectivity.c's flag s_ota_in_progress have it: one update at a time,  *)
(* and an image that was installed is booted before another one is taken.  *)
(***************************************************************************)
EXTENDS Naturals

VARIABLES
  phase,    \* "idle", "accepted", "updating", "applied"
  job,      \* the number of the last command accepted
  slot,     \* the job whose image boots next
  running   \* the job whose image is running

vars == <<phase, job, slot, running>>

Init == phase = "idle" /\ job = 0 /\ slot = 0 /\ running = 0

Accept == phase = "idle" /\ phase' = "accepted" /\ job' = job + 1 /\ UNCHANGED <<slot, running>>

Start == phase = "accepted" /\ phase' = "updating" /\ UNCHANGED <<job, slot, running>>

\* The update's task cannot be created, or its download fails.
GiveUp == phase \in {"accepted", "updating"} /\ phase' = "idle" /\ UNCHANGED <<job, slot, running>>

\* Only the job accepted last is installed, over the image that is running.
Apply ==
  /\ phase = "updating" /\ phase' = "applied"
  /\ slot = running /\ slot' = job
  /\ UNCHANGED <<job, running>>

\* By the update or by a loss of power.
Reboot == phase' = "idle" /\ running' = slot /\ UNCHANGED <<job, slot>>

Next == Accept \/ Start \/ GiveUp \/ Apply \/ Reboot

Spec == Init /\ [][Next]_vars
===============================================================================
