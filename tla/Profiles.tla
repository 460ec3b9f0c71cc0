-------------------------------- MODULE Profiles --------------------------------
(***************************************************************************)
(* The profiles of proxy servers and of monitors, side by side: what both  *)
(* kinds promise to whoever saves one and starts it.  They share no state. *)
(***************************************************************************)
EXTENDS ServerProfile, MonitorProfile

(* What the rules of the services let be saved, the processes of servers and *)
(* monitors accept from their command lines, as it was saved.                *)
LaunchesAsSaved == ServerStartsAsSaved /\ MonitorStartsAsSaved
=============================================================================
