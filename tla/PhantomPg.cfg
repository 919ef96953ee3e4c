SPECIFICATION Spec
CONSTANTS
    acme = acme
    ops = ops
    dev = dev
    openai = openai
    github = github
    s1 = s1
    repos = repos
    issues = issues
    orgs = orgs
    ka = ka
    kr = kr
    kx = kx
    Tenants <- TenantsBounded
    Services <- ServicesBounded
    Sids = {s1}
    Matches <- MatchesBounded
    Secrets = {k1}
    Seeds <- SeedsBounded
    EnvSecret = env
    ApiLines <- ApiLinesBounded
    Backends = {"postgres"}
    Creates <- CreatesBounded
    Puts <- PutsBounded
    Calls <- CallsBounded
    Handlers = {h1, h2}
    AuditCapacity = 1
    MaxRequests = 2
    MaxBoots = 1
    DevTenant = dev
    None = None
INVARIANT IssuedTokenKnown
CHECK_DEADLOCK FALSE
