----------------------------- MODULE FileStorage -----------------------------
(***************************************************************************)
(* The files of the tenants: core's media library, which checks a tenant's *)
(* capacity and asks for an upload, and the file-storage service, which    *)
(* checks it again under a Redis lease, registers the file and takes its   *)
(* content over a signed URL.                                              *)
(*                                                                         *)
(* The service keeps the metadata of every tenant in one file on disk that *)
(* each change reads and rewrites whole. Within one process the two are    *)
(* one synchronous section (section[p]); several processes may share the   *)
(* file, as the lease provides for, and overtake one another's sections.   *)
(* Requests and uploads that a process serves are lost when it stops; the  *)
(* lease of a lost request stays until it expires.                         *)
(*                                                                         *)
(* All files have one size and limits are counted in files. An upload's    *)
(* file takes the upload's number for its random id. The S3 adapter keeps  *)
(* its metadata in the same local file; its content is not modelled. The   *)
(* route POST /files/metadata, which registers a file under no lease and   *)
(* no capacity, is left out: no service of the repository calls it.        *)
(***************************************************************************)
EXTENDS Integers, FiniteSets

CONSTANTS
    Tenants,
    MaxUploads,     \* bound: uploads that register a file
    Processes,      \* processes of the file-storage service
    Limits,         \* capacities an entitlement may grant, Unlimited included
    Unlimited,      \* a capacity of null
    MaxStops,       \* bound: processes stopped
    World,          \* what the tenant and others do in this instance
    Nobody          \* no tenant or process

ASSUME StorageAssumption ==
    /\ MaxUploads \in Nat /\ MaxStops \in Nat
    /\ Limits \subseteq Nat \cup {Unlimited}
    /\ Unlimited \notin Nat
    /\ Nobody \notin Tenants \cup Processes
    /\ World \subseteq {"library", "proof", "archive", "limit", "status"}

Uploads == 1..MaxUploads
Orphaned == MaxUploads + 1

VARIABLES
    file,       \* the metadata file: a record per registered file
    section,    \* per process: the rewrite of the metadata file under way
    lease,      \* per tenant: the upload whose token the Redis key holds, 0 without,
                \* Orphaned when the request that set it is gone
    upload,     \* per upload: its step and what it carries
    limit,      \* per tenant: the capacity its active period grants
    tenant,     \* per tenant: the status column of its row
    stops,      \* processes stopped
    disturbed   \* history: two processes rewrote the metadata at once, or a lease
                \* expired under an upload that still held it

storageVars == <<file, section, lease, upload, limit, tenant, stops, disturbed>>
-----------------------------------------------------------------------------
File == [status : {"none", "registered", "archived"}, tenant : Tenants \cup {Nobody},
         content : BOOLEAN]
NoFile == [status |-> "none", tenant |-> Nobody, content |-> FALSE]

\* A section: the metadata as read, and the record to put in.
Section == [active : BOOLEAN, seen : [Uploads -> File], u : Uploads \cup {0}, record : File]
NoSection == [active |-> FALSE, seen |-> [u \in Uploads |-> NoFile], u |-> 0, record |-> NoFile]

Kinds == {"library", "proof", "derived", "orphan"}
Upload == [step : {"idle", "usage", "row", "post", "check", "save", "saving", "release",
                   "content", "writing", "written", "closed", "refused"},
           kind : Kinds, tenant : Tenants \cup {Nobody}, limit : Limits \cup {Unlimited},
           may : BOOLEAN,                        \* the library's own check let it pass
           row : {"active", "suspended"},        \* the tenant row as loaded
           process : Processes \cup {Nobody},    \* the process that serves it
           kept : BOOLEAN]                       \* its file has been registered
NoUpload == [step |-> "idle", kind |-> "library", tenant |-> Nobody, limit |-> Unlimited,
             may |-> FALSE, row |-> "active", process |-> Nobody, kept |-> FALSE]

StorageInit ==
    /\ file = [u \in Uploads |-> NoFile]
    /\ section = [p \in Processes |-> NoSection]
    /\ lease = [t \in Tenants |-> 0]
    /\ upload = [u \in Uploads |-> NoUpload]
    /\ limit \in [Tenants -> Limits]
    /\ tenant = [t \in Tenants |-> "active"]
    /\ stops = 0
    /\ disturbed = FALSE
-----------------------------------------------------------------------------
Registered(f) == f.status = "registered"
Used(fs, t) == Cardinality({u \in Uploads : Registered(fs[u]) /\ fs[u].tenant = t})
Fits(n, cap) == cap = Unlimited \/ n + 1 =< cap

At(u, step) == upload[u].step = step
Go(u, step) == upload' = [upload EXCEPT ![u].step = step]
Free(p) == ~section[p].active

\* What becomes of an upload nobody works on any more. Its number is free again
\* if it never registered a file; a media job waits to hear of its own.
Ended(k) == IF k.kept THEN [NoUpload EXCEPT !.step = "closed", !.kept = TRUE]
            ELSE IF k.kind = "derived" THEN [NoUpload EXCEPT !.step = "refused", !.kind = "derived"]
            ELSE NoUpload
Written(k) == IF k.kind = "derived" THEN [NoUpload EXCEPT !.step = "written", !.kept = TRUE]
              ELSE Ended(k)
End(u) == upload' = [upload EXCEPT ![u] = Ended(upload[u])]

BeginUpload(u, t, kind, step, cap) ==
    /\ upload[u] = NoUpload /\ \A v \in 1..u - 1 : upload[v] # NoUpload
    /\ upload' = [upload EXCEPT ![u] =
          [NoUpload EXCEPT !.step = step, !.kind = kind, !.tenant = t, !.limit = cap]]
-----------------------------------------------------------------------------
\* createUpload: the entitlement's capacity is resolved first.
BeginLibraryUpload ==
    /\ "library" \in World
    /\ \E u \in Uploads, t \in Tenants :
          tenant[t] = "active" /\ BeginUpload(u, t, "library", "usage", limit[t])
    /\ UNCHANGED <<file, section, lease, limit, tenant, stops, disturbed>>

\* createBillingProofUpload: no capacity applies.
BeginProofUpload ==
    /\ "proof" \in World
    /\ \E u \in Uploads, t \in Tenants :
          tenant[t] = "active" /\ BeginUpload(u, t, "proof", "post", Unlimited)
    /\ UNCHANGED <<file, section, lease, limit, tenant, stops, disturbed>>

\* assertStorageLimit: the usage listed, the decision taken and the tenant row
\* loaded to report it.
ReadUsage(u) ==
    /\ At(u, "usage")
    /\ LET t == upload[u].tenant IN
       upload' = [upload EXCEPT ![u].step = "row", ![u].row = tenant[t],
                                ![u].may = Fits(Used(file, t), upload[u].limit)]
    /\ UNCHANGED <<file, section, lease, limit, tenant, stops, disturbed>>

\* persistStorageCapacityState saves the row it loaded, whole; then the refusal.
ReportUsage(u) ==
    /\ At(u, "row")
    /\ tenant' = [tenant EXCEPT ![upload[u].tenant] = upload[u].row]
    /\ IF upload[u].may THEN Go(u, "post") ELSE End(u)
    /\ UNCHANGED <<file, section, lease, limit, stops, disturbed>>

\* SET NX. Another holder, or Redis failing, refuses the request; in the second
\* case the key may have been set.
ReserveBlindly(u, p) ==
    /\ At(u, "post")
    /\ lease' = [lease EXCEPT ![upload[u].tenant] = u]
    /\ upload' = [upload EXCEPT ![u].step = "check", ![u].process = p]
    /\ UNCHANGED <<file, section, limit, tenant, stops, disturbed>>
Reserve(u, p) ==
    /\ At(u, "post")
    /\ lease[upload[u].tenant] = 0
    /\ lease' = [lease EXCEPT ![upload[u].tenant] = u]
    /\ upload' = [upload EXCEPT ![u].step = "check", ![u].process = p]
    /\ UNCHANGED <<file, section, limit, tenant, stops, disturbed>>
Busy(u) ==
    /\ At(u, "post")
    /\ lease[upload[u].tenant] # 0
    /\ End(u)
    /\ UNCHANGED <<file, section, lease, limit, tenant, stops, disturbed>>
ReserveFails(u) ==
    /\ At(u, "post")
    /\ lease[upload[u].tenant] = 0
    /\ \/ lease' = [lease EXCEPT ![upload[u].tenant] = Orphaned]
       \/ UNCHANGED lease
    /\ End(u)
    /\ UNCHANGED <<file, section, limit, tenant, stops, disturbed>>

\* assertStorageCapacity. assertLease reads its flag in the same breath, before
\* any renewal could have set it, so it never refuses.
Check(u) ==
    /\ At(u, "check") /\ Free(upload[u].process)
    /\ Go(u, IF Fits(Used(file, upload[u].tenant), upload[u].limit) THEN "save" ELSE "release")
    /\ UNCHANGED <<file, section, lease, limit, tenant, stops, disturbed>>
-----------------------------------------------------------------------------
\* A section begins by reading the metadata and ends by writing it.
Open(p, u, record) ==
    /\ Free(p)
    /\ section' = [section EXCEPT ![p] =
          [active |-> TRUE, seen |-> file, u |-> u, record |-> record]]
    /\ disturbed' = (disturbed \/ \E q \in Processes \ {p} : section[q].active)

\* registerFile, still under the lease.
Register(u) ==
    /\ At(u, "save")
    /\ Open(upload[u].process, u,
            [status |-> "registered", tenant |-> upload[u].tenant, content |-> FALSE])
    /\ Go(u, "saving")
    /\ UNCHANGED <<file, lease, limit, tenant, stops>>

\* writeFileContent over the signed URL: refused for a file that is not there, not
\* found by another process's rewrite, or archived.
PutContent(u, p) ==
    /\ At(u, "content")
    /\ IF Registered(file[u])
       THEN /\ Open(p, u, [file[u] EXCEPT !.content = TRUE])
            /\ upload' = [upload EXCEPT ![u].step = "writing", ![u].process = p]
       ELSE Free(p) /\ UNCHANGED <<section, disturbed>> /\ End(u)
    /\ UNCHANGED <<file, lease, limit, tenant, stops>>

\* archiveFile; archiving again rewrites the same record.
Archive(u, p) ==
    /\ "archive" \in World
    /\ Registered(file[u])
    /\ Open(p, u, [file[u] EXCEPT !.status = "archived"])
    /\ UNCHANGED <<file, lease, upload, limit, tenant, stops>>

\* The rewrite. It puts back what it read, whatever others wrote since.
Served(p, step, u) == At(u, step) /\ upload[u].process = p
Store(p) ==
    LET s == section[p] u == s.u IN
    /\ s.active
    /\ file' = [s.seen EXCEPT ![u] = s.record]
    /\ section' = [section EXCEPT ![p] = NoSection]
    /\ upload' = [upload EXCEPT ![u] =
          IF Served(p, "saving", u) THEN [@ EXCEPT !.step = "release", !.kept = TRUE]
          ELSE IF Served(p, "writing", u) THEN Written(@)
          ELSE @]
    /\ UNCHANGED <<lease, limit, tenant, stops, disturbed>>
-----------------------------------------------------------------------------
\* The key is deleted if it still holds the upload's token, unless Redis fails;
\* then the response. The caller of a kept upload holds a signed URL.
Orphan(gone) == [t \in Tenants |-> IF lease[t] \in gone THEN Orphaned ELSE lease[t]]
Released(u) == IF lease[upload[u].tenant] = u THEN [lease EXCEPT ![upload[u].tenant] = 0]
               ELSE lease
Release(u) ==
    /\ At(u, "release")
    /\ lease' \in {Orphan({u}), Released(u)}
    /\ IF upload[u].kept
       THEN upload' = [upload EXCEPT ![u].step = "content", ![u].process = Nobody] ELSE End(u)
    /\ UNCHANGED <<file, section, limit, tenant, stops, disturbed>>

\* The caller never heard of the URL or lets it expire.
Abandon(u) ==
    /\ At(u, "content")
    /\ End(u)
    /\ UNCHANGED <<file, section, lease, limit, tenant, stops, disturbed>>

\* STORAGE_CAPACITY_LOCK_TTL_MS passed without a renewal.
Held(t) == \E u \in Uploads : lease[t] = u /\ upload[u].step \in {"check", "save", "saving"}
LeaseExpires(t) ==
    /\ lease[t] # 0
    /\ lease' = [lease EXCEPT ![t] = 0]
    /\ disturbed' = (disturbed \/ Held(t))
    /\ UNCHANGED <<file, section, upload, limit, tenant, stops>>

\* A process stops: what it serves is answered with an error.
Stop(p) ==
    /\ stops < MaxStops
    /\ stops' = stops + 1
    /\ section' = [section EXCEPT ![p] = NoSection]
    /\ LET gone == {u \in Uploads : upload[u].process = p} IN
       /\ upload' = [u \in Uploads |-> IF u \in gone THEN Ended(upload[u]) ELSE upload[u]]
       /\ lease' = Orphan(gone)
    /\ UNCHANGED <<file, limit, tenant, disturbed>>
-----------------------------------------------------------------------------
\* Outside storage: a period starts or ends, an administrator suspends or
\* reactivates a tenant.
ChangeLimit(t) ==
    /\ "limit" \in World
    /\ \E cap \in Limits \ {limit[t]} : limit' = [limit EXCEPT ![t] = cap]
    /\ UNCHANGED <<file, section, lease, upload, tenant, stops, disturbed>>
SetStatus(t) ==
    /\ "status" \in World
    /\ tenant' = [tenant EXCEPT ![t] = IF @ = "active" THEN "suspended" ELSE "active"]
    /\ UNCHANGED <<file, section, lease, upload, limit, stops, disturbed>>

StorageNext ==
    \/ BeginLibraryUpload \/ BeginProofUpload
    \/ \E u \in Uploads :
          \/ ReadUsage(u) \/ ReportUsage(u) \/ Busy(u) \/ ReserveFails(u)
          \/ Check(u) \/ Register(u) \/ Release(u) \/ Abandon(u)
          \/ \E p \in Processes : Reserve(u, p) \/ PutContent(u, p) \/ Archive(u, p)
    \/ \E p \in Processes : Store(p) \/ Stop(p)
    \/ \E t \in Tenants : LeaseExpires(t) \/ ChangeLimit(t) \/ SetStatus(t)

StorageSpec == StorageInit /\ [][StorageNext]_storageVars
-----------------------------------------------------------------------------
\* The types of the variables.
StorageTypeOK ==
    /\ file \in [Uploads -> File]
    /\ section \in [Processes -> Section]
    /\ lease \in [Tenants -> 0..Orphaned]
    /\ upload \in [Uploads -> Upload]
    /\ limit \in [Tenants -> Limits]
    /\ tenant \in [Tenants -> {"active", "suspended"}]
    /\ stops \in 0..MaxStops
    /\ disturbed \in BOOLEAN

\* An upload that a capacity bounds never takes its tenant past that capacity,
\* whoever else uploads, archives or stops meanwhile, as long as no lease expired
\* under its holder and no two processes rewrote the metadata at once
\* (createSignedUpload, StorageCapacityReservation).
CapacityIsRespected ==
    [][\A u \in Uploads :
          (~upload[u].kept /\ upload'[u].kept /\ ~disturbed') =>
              LET k == upload'[u] IN
              k.limit = Unlimited \/ Used(file', k.tenant) =< k.limit]_storageVars
=============================================================================
