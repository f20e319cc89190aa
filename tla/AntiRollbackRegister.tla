------------------------ MODULE AntiRollbackRegister ------------------------
(***************************************************************************)
(* What the rollback journal promises its callers: one register per        *)
(* namespace that is created once, enrolled once, only ever advances to a  *)
(* higher revision, and is retired for good; every result a caller gets is *)
(* a value the register has had.  Crashes, lost writes, leases and the     *)
(* state of the database are not visible here.                             *)
(***************************************************************************)
EXTENDS Naturals

CONSTANTS Values, NoValue

VARIABLES phase, value, had, results

registerVars == <<phase, value, had, results>>

RegisterInit ==
    /\ phase = "absent"
    /\ value = NoValue
    /\ had = {}
    /\ results = {}

Create ==
    /\ phase = "absent"
    /\ phase' = "marker"
    /\ UNCHANGED <<value, had, results>>

Activate ==
    /\ phase = "marker"
    /\ phase' = "live"
    /\ value' \in Values
    /\ had' = {value'}
    /\ UNCHANGED results

Advance ==
    /\ phase = "live"
    /\ value' \in Values
    /\ value'.revision > value.revision
    /\ had' = had \union {value'}
    /\ UNCHANGED <<phase, results>>

Close ==
    /\ phase = "live"
    /\ phase' = "retired"
    /\ UNCHANGED <<value, had, results>>

Deliver ==
    /\ \E v \in had : results' = results \union {v}
    /\ UNCHANGED <<phase, value, had>>

RegisterNext ==
    \/ Create
    \/ Activate
    \/ Advance
    \/ Close
    \/ Deliver

RegisterSpec == RegisterInit /\ [][RegisterNext]_registerVars
=============================================================================
