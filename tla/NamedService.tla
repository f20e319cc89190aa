---------------------------- MODULE NamedService ----------------------------
(***************************************************************************)
(* What one complete, validated HRM manifest of a name says about a named  *)
(* service: the rollback rule of hns-hrm's validation.rs and the           *)
(* generation rules of hns-service-authority's hrm.rs.                     *)
(*                                                                         *)
(* A manifest is what the resolver returned: whether its name state,       *)
(* commitment, hash and signature hold (authentic), the validity interval  *)
(* of its payload, the root it was found at, the reorganization its chain  *)
(* claims to have accepted, and per service NoVal (no resource, or no      *)
(* delegation with the right to operate), Unusable (a resource or          *)
(* delegation that fails its checks, or two delegations) or the one        *)
(* delegation: its generation, identifier and interval.                    *)
(*                                                                         *)
(* A root has a sequence, an envelope and a chain point.  The point's      *)
(* height goes with its anchor and is left out.  Network and subject are   *)
(* those of the one name modelled.                                         *)
(***************************************************************************)
EXTENDS Naturals

CONSTANTS
    Services,           \* resource identifiers of the name's services
    NoVal, Unusable,
    MaxCacheLifetime    \* ValidationLimits::maximum_cache_lifetime

Least(a, b) == IF a < b THEN a ELSE b

\* AcceptedReorganization::matches
Matches(reorg, previous, current) ==
    /\ reorg # NoVal
    /\ reorg.previous = previous.point
    /\ reorg.current = current.point
    /\ reorg.previous.anchor # reorg.current.anchor

ActuallyRollsBack(previous, current) ==
    \/ current.sequence < previous.sequence
    \/ current.sequence = previous.sequence /\ current.envelope # previous.envelope
    \/ current.point.work < previous.point.work

ValidateRollback(previous, current, reorg) ==
    ActuallyRollsBack(previous, current) => Matches(reorg, previous, current)

Active(item, now) == item.notBefore <= now /\ now < item.expires

\* validate_current_manifest: accepted or refused as a whole.
ValidateCurrentManifest(manifest, previous, now) ==
    /\ manifest.authentic
    /\ Active(manifest, now)
    /\ previous # NoVal => ValidateRollback(previous, manifest.root, manifest.reorg)

ManifestExpires(manifest, now) == Least(manifest.expires, now + MaxCacheLifetime)

-----------------------------------------------------------------------------
\* ServiceGenerationObservation.

Observation(highest, highWater, active, root) ==
    [highest |-> highest, highWater |-> highWater, active |-> active, root |-> root]

IsWithdrawn(observation) == observation.active = NoVal

WithdrawnObservation(previous, root, reorganization) ==
    IF reorganization \/ previous = NoVal
    THEN Observation(0, NoVal, NoVal, root)
    ELSE Observation(previous.highest, previous.highWater, NoVal, root)

\* Mutant: a withdrawn service may come back with its last generation.
WithdrawnMayReturn(previous, delegation, reorganization) ==
    previous = NoVal \/ reorganization \/
    /\ delegation.generation >= previous.highest
    /\ delegation.generation = previous.highest => delegation.id = previous.highWater

\* apply_generation_rule
GenerationAllowed(previous, delegation, reorganization) ==
    previous = NoVal \/ reorganization \/
    /\ delegation.generation >= previous.highest
    /\ IsWithdrawn(previous) => delegation.generation > previous.highest
    /\ delegation.generation = previous.highest => delegation.id = previous.highWater

\* ObservedNamedService: the observation and, if active, until when the
\* service may be cached.
Observed(observation, cacheUntil) ==
    [observation |-> observation, cacheUntil |-> cacheUntil]

\* observe_named_service: the set of its results, empty on an error.  The
\* manifest passed ValidateCurrentManifest at `now`.
ObserveNamedService(manifest, service, previous, now) ==
    LET item == manifest.services[service]
        root == manifest.root
        reorganization ==
            /\ previous # NoVal
            /\ ActuallyRollsBack(previous.root, root)
            /\ Matches(manifest.reorg, previous.root, root)
    IN  IF previous # NoVal /\ ~ValidateRollback(previous.root, root, manifest.reorg)
        THEN {}
        ELSE IF item = NoVal
        THEN {Observed(WithdrawnObservation(previous, root, reorganization), NoVal)}
        ELSE IF item = Unusable \/ ~Active(item, now)
                \/ ~GenerationAllowed(previous, item, reorganization)
        THEN {}
        ELSE {Observed(Observation(item.generation, item.id, item.id, root),
                       Least(ManifestExpires(manifest, now), item.expires))}
=============================================================================
