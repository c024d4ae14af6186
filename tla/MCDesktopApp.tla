---------------------------- MODULE MCDesktopApp ---------------------------
(* DesktopApp on small instances. *)
EXTENDS DesktopApp, TLC

CONSTANTS one, two

Machine(system, ram) ==
    [system |-> system, silicon |-> TRUE, ram |-> ram, vram |-> 0, psutil |-> FALSE]
\* One that is good enough, and one whose memory cannot be asked for yet.
MCMachines == {Machine("Darwin", 32), Machine("Linux", 64)}

=============================================================================
