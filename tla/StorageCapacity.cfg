\* Two processes on one metadata file: uploads, archiving, a process that stops and
\* leases that expire, with a capacity that changes meanwhile.
SPECIFICATION StorageSpec
CONSTANTS
    Tenants = {t1}
    MaxUploads = 2
    Processes = {p1, p2}
    Limits = {0, 1}
    Unlimited = Unlimited
    MaxStops = 1
    World = {"library", "proof", "archive", "limit", "status"}
    Nobody = Nobody
SYMMETRY Symmetry
PROPERTIES
    CapacityIsRespected
