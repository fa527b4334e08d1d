CONSTANTS
    MaxInteger = 40000
    Digits10 = 4
    Files <- MCFiles
    Hosts <- MCHosts
    Services <- MCServices
    LocalEndpoints <- MCLocal
    Pids <- MCPids
    Random <- MCRandom
    Hash <- MCHash
    Swarms <- MCSwarms
SPECIFICATION Spec
CHECK_DEADLOCK FALSE
INVARIANTS MetainfoAsPublished AnswersAsSent
