SPECIFICATION EndpointsSpec
CONSTANTS
    None = None
    Nobody = Nobody
    nobody = nobody
    alice = alice
    bob = bob
    admin = admin
    read = read
    write = write
    health = health
    tAlice = tAlice
    tAdmin = tAdmin
    tBob = tBob
    tNoSub = tNoSub
    Ids = {nobody, alice, bob}
    Roles <- RoleSets
    Skills = {read, write, health}
    Allowed <- ACL
    Gated <- Approvals
    Annotated = {read}
    System = {health}
    Callers = {r1, r2, r3}
    MaxCached = 1
    Tokens = {tAlice, tAdmin, tBob, tNoSub}
    claims <- Payloads
    require_claims <- SubClaim
    id_claim = "uid"
    roles_claim = "roles"
    Anonymous <- Roleless
    Headers <- Bearer
SYMMETRY Symmetry
INVARIANTS
    EndpointsTypeOK
    CacheBounded
    SteadyCallersSeeTheirCard
    AuditsAreMemoized
    
    ExtendedAsAdvertised
\* A bounded number of requests: they are all answered in the end.
CHECK_DEADLOCK FALSE
