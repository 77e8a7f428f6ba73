------------------------------ MODULE SingleVm ------------------------------
(***************************************************************************)
(* What the runtime promises of its Lua VMs (INV-010): there is at most    *)
(* one, it is built by one session, may then serve, and is taken down by   *)
(* that same session before anybody builds another.                        *)
(***************************************************************************)
CONSTANTS Sessions, Nobody   \* Nobody is not a session

VARIABLES owner, stage

vmVars == <<owner, stage>>

VmInit == owner = Nobody /\ stage = "none"

Create(s) ==
    /\ owner = Nobody
    /\ owner' = s
    /\ stage' = "building"

Serve ==
    /\ stage = "building"
    /\ stage' = "serving"
    /\ UNCHANGED owner

TakeDown ==
    /\ stage \in {"building", "serving"}
    /\ stage' = "closing"
    /\ UNCHANGED owner

Destroy ==
    /\ stage = "closing"
    /\ owner' = Nobody
    /\ stage' = "none"

VmNext == (\E s \in Sessions : Create(s)) \/ Serve \/ TakeDown \/ Destroy

VmSpec == VmInit /\ [][VmNext]_vmVars
=============================================================================
