-------------------------------- MODULE MCMemory --------------------------------
(* The short-term memory and what is kept of it: the zones in Redis, and    *)
(* the debates there with the archiver that saves them; one of the two per  *)
(* behaviour, as neither reads the state of the other.                      *)
EXTENDS ZoneRegistry, DebateArchive

VARIABLE part    \* the component that runs in this behaviour

allVars == <<zoneVars, archiveVars, part>>

(* Two zones of one type, one of them near the price, and two coroutines.   *)
MCZones == {"z1", "z2"}
MCTypeOf == [z \in MCZones |-> "OB_BULL"]
MCNear == {"z1"}
MCPHolds == {1, 2}
MCWeights == {3}
MCGiven == {1}
MCStatuses == {"UNMITIGATED", "MITIGATED"}

MCInit == ZonesInit /\ ArchiveInit /\ part \in {"zones", "archive"}

MCNext ==
    /\ UNCHANGED part
    /\ \/ part = "zones" /\ ZonesNext /\ UNCHANGED archiveVars
       \/ part = "archive" /\ ArchiveNext /\ UNCHANGED zoneVars

(* The fairness of both.  In a behaviour of the zones the archiver's loop   *)
(* stands still, and owes nothing.                                          *)
MCSpec ==
    /\ MCInit /\ [][MCNext]_allVars
    /\ ZonesFairness
    /\ WF_archiveVars(part = "archive" /\ BeginCycle)
    /\ ArchiveWorks
=============================================================================
