SPECIFICATION Spec
CONSTANTS
    h1 = h1
    h2 = h2
    main = main
    botp = botp
    cli = cli
    PoolSize = 1
    Latest = 3
    Once = {3}
    Handlers <- MCHandlers
    Clients <- MCClients
    Main = main
    Bot = botp
    Cli = cli
    Migrators <- MCMigrators
    Configs <- MCConfigs
    Updates <- MCUpdates
INVARIANTS
    PoolConserved
    SchemaMatchesVersion
    ChangesKept
    Answered
    QueryAcked
    OwnerKnown
PROPERTIES
    UpdateHandled
