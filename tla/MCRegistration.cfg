\* Three server scripts on one host, each started up to twice.
CONSTANTS
    proxySrv = proxySrv
    sidecarSrv = sidecarSrv
    plainSrv = plainSrv
    Servers = {proxySrv, sidecarSrv, plainSrv}
    NoProcess = NoProcess
    MaxLaunches = 2
    Script <- MCScript
SPECIFICATION Spec
\* Once every script has been started MaxLaunches times and has exited,
\* nothing runs on the host any more: the system really stops.
CHECK_DEADLOCK FALSE
INVARIANTS
    TypeOK
    StaleNodeHasCause
PROPERTIES
    RegistryLeasesSpec
