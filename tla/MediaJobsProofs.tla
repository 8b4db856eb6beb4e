--------------------------- MODULE MediaJobsProofs ---------------------------
(***************************************************************************)
(* Theorems of file storage and of the media jobs on top of it, for every  *)
(* number of tenants, uploads, processes, jobs and requests and any limits.*)
(*                                                                         *)
(* StorageInv holds whatever happens: types, and that an upload which      *)
(* registers its file or fills it has its process's section open. Calm is  *)
(* what holds until two processes rewrite the metadata at once or a lease  *)
(* expires under its holder: one section at a time, which puts back the    *)
(* metadata as they are but for its own record, a lease for each upload    *)
(* from its check of the capacity to its registration, and room for it     *)
(* once it passed the check. The capacity follows, for nobody else can     *)
(* register a file of the tenant meanwhile.                                *)
(*                                                                         *)
(* The jobs add what a run may rely on: the upload it waits for is its own *)
(* (Watched), the files that records name stay (Outputs), and the record   *)
(* of the only run of a job is the stored one (OneRun, Carries).           *)
(***************************************************************************)
EXTENDS MediaJobs, FiniteSetTheorems, TLAPS

Moving == {"usage", "row", "post", "check", "save", "saving", "release", "content", "writing"}
Hosted == {"check", "save", "saving", "release", "writing"}
Holding == {"check", "save", "saving"}

\* What an upload carries at each step.
Shape(k) ==
    /\ k.step \in Moving => k.tenant \in Tenants
    /\ k.process \in Processes => k.step \in Hosted
    /\ k.step \in {"check", "save", "saving", "writing"} => k.process \in Processes
    /\ k.step \in {"content", "writing", "written", "closed"} => k.kept
    /\ k.step \in {"idle", "usage", "row", "post", "check", "save", "saving", "refused"} => ~k.kept

\* An upload that registers its file or fills it has its process's section open.
Opened(u) ==
    upload[u].step \in {"saving", "writing"} =>
        LET s == section[upload[u].process] IN s.active /\ s.u = u

\* A file that was registered is somebody's.
Owned(f) == f.status # "none" => f.tenant \in Tenants

StorageInv ==
    /\ StorageTypeOK
    /\ \A u \in Uploads : Shape(upload[u]) /\ Opened(u) /\ Owned(file[u])
    /\ \A p \in Processes : section[p].active =>
          /\ section[p].u \in Uploads
          /\ Owned(section[p].record) /\ \A u \in Uploads : Owned(section[p].seen[u])
-----------------------------------------------------------------------------
OneSection == \A p, q \in Processes : section[p].active /\ section[q].active => p = q

New(t) == [status |-> "registered", tenant |-> t, content |-> FALSE]
Filled(f) == [f EXCEPT !.content = TRUE]
Shelved(f) == [f EXCEPT !.status = "archived"]

\* A section puts back the metadata as they are, but for one record: a new file's, or
\* a registered file filled or archived.
Fresh(p) ==
    section[p].active =>
        LET u == section[p].u r == section[p].record IN
        /\ section[p].seen = file
        /\ \/ Served(p, "saving", u) /\ r = New(upload[u].tenant)
           \/ Registered(file[u]) /\ r \in {Filled(file[u]), Shelved(file[u])}

\* An upload has its file once it was kept, and not before.
FileOf(u) ==
    LET k == upload[u] IN
    /\ k.kept \/ file[u] = NoFile
    /\ k.kept => file[u].status # "none"
    /\ (k.kept /\ k.step \in Moving) => file[u].tenant = k.tenant
    /\ k.step = "writing" => section[k.process].record = Filled(file[u])

Leased(u) == upload[u].step \in Holding => lease[upload[u].tenant] = u
Room(u) ==
    upload[u].step \in {"save", "saving"} => Fits(Used(file, upload[u].tenant), upload[u].limit)

Calm ==
    ~disturbed =>
        /\ OneSection
        /\ \A p \in Processes : Fresh(p)
        /\ \A u \in Uploads : FileOf(u) /\ Leased(u) /\ Room(u)
-----------------------------------------------------------------------------
(* The records. *)

\* Idle records have the types of records.
LEMMA NothingIsTyped == NoFile \in File /\ NoSection \in Section /\ NoUpload \in Upload
<1>1. NoFile \in File
  BY DEF NoFile, File
<1>2. NoSection \in Section
  BY <1>1 DEF NoSection, Section
<1>3. NoUpload \in Upload
  BY DEF NoUpload, Upload, Kinds
<1>4. QED
  BY <1>1, <1>2, <1>3

\* An upload that nobody works on any more: what it leaves behind.
LEMMA EndedIsTyped ==
    ASSUME NEW k \in Upload
    PROVE  /\ Ended(k) \in Upload /\ Shape(Ended(k)) /\ Ended(k).kept = k.kept
           /\ Ended(k).step = IF k.kept THEN "closed"
                              ELSE IF k.kind = "derived" THEN "refused" ELSE "idle"
           /\ Ended(k).process = Nobody
<1>1. Nobody \notin Processes
  BY StorageAssumption
<1>2. CASE k.kept
  BY <1>1, <1>2 DEF Ended, NoUpload, Upload, Kinds, Shape, Moving, Hosted
<1>3. CASE ~k.kept /\ k.kind = "derived"
  BY <1>1, <1>3 DEF Ended, NoUpload, Upload, Kinds, Shape, Moving, Hosted
<1>4. CASE ~k.kept /\ k.kind # "derived"
  BY <1>1, <1>4 DEF Ended, NoUpload, Upload, Kinds, Shape, Moving, Hosted
<1>5. QED
  BY <1>2, <1>3, <1>4

\* The number of a tenant's files is a number, for there are finitely many uploads.
LEMMA UsedIsNat ==
    ASSUME NEW fs, NEW t
    PROVE  /\ IsFiniteSet({u \in Uploads : Registered(fs[u]) /\ fs[u].tenant = t})
           /\ Used(fs, t) \in Nat
<1>1. IsFiniteSet(Uploads)
  BY FS_Interval, StorageAssumption DEF Uploads
<1>2. {u \in Uploads : Registered(fs[u]) /\ fs[u].tenant = t} \subseteq Uploads
  OBVIOUS
<1>3. IsFiniteSet({u \in Uploads : Registered(fs[u]) /\ fs[u].tenant = t})
  BY <1>1, <1>2, FS_Subset
<1>4. QED
  BY <1>3, FS_CardinalityType DEF Used

\* One record changed: a tenant has at most one more file, and no more where the
\* record was not registered, or was that tenant's before.
LEMMA OneRecord ==
    ASSUME NEW fs, NEW gs, NEW u \in Uploads, NEW t,
           \A v \in Uploads \ {u} : gs[v] = fs[v]
    PROVE  /\ Used(gs, t) =< Used(fs, t) + 1
           /\ (Registered(gs[u]) /\ gs[u].tenant = t => Registered(fs[u]) /\ fs[u].tenant = t)
                  => Used(gs, t) =< Used(fs, t)
<1> DEFINE A == {v \in Uploads : Registered(fs[v]) /\ fs[v].tenant = t}
           B == {v \in Uploads : Registered(gs[v]) /\ gs[v].tenant = t}
<1>1. IsFiniteSet(A) /\ IsFiniteSet(B) /\ Cardinality(A) \in Nat /\ Cardinality(B) \in Nat
  <2>1. IsFiniteSet(A) /\ IsFiniteSet(B)
    BY UsedIsNat
  <2> HIDE DEF A, B
  <2>2. QED
    BY <2>1, FS_CardinalityType
<1>2. B \subseteq A \cup {u}
  OBVIOUS
<1>3. IsFiniteSet(A \cup {u}) /\ Cardinality(A \cup {u}) =< Cardinality(A) + 1
      /\ Cardinality(A \cup {u}) \in Nat
  <2>1. IsFiniteSet(A \cup {u})
        /\ Cardinality(A \cup {u}) = IF u \in A THEN Cardinality(A) ELSE Cardinality(A) + 1
    <3> HIDE DEF A
    <3> QED BY <1>1, FS_AddElement
  <2>2. QED
    <3> HIDE DEF A
    <3> QED BY <1>1, <2>1
<1>4. Cardinality(B) =< Cardinality(A \cup {u})
  <2> HIDE DEF A, B
  <2> QED BY <1>2, <1>3, FS_Subset
<1>5. Cardinality(B) =< Cardinality(A) + 1
  <2> HIDE DEF A, B
  <2> QED BY <1>1, <1>3, <1>4
<1>6. ASSUME Registered(gs[u]) /\ gs[u].tenant = t => Registered(fs[u]) /\ fs[u].tenant = t
      PROVE  Cardinality(B) =< Cardinality(A)
  <2>1. B \subseteq A
    BY <1>6
  <2> HIDE DEF A, B
  <2>2. QED
    BY <1>1, <2>1, FS_Subset
<1>7. QED
  BY <1>5, <1>6 DEF Used
-----------------------------------------------------------------------------
(* Steps that leave the metadata and the sections alone. *)

\* What such a step may do to an upload: it may neither enter nor leave a section,
\* and passes the check of the capacity only if there is room.
Steady(k, l) ==
    /\ Shape(l) /\ l.kept = k.kept
    /\ \A step \in {"saving", "writing"} :
          (k.step = step \/ l.step = step) =>
              l.step = k.step /\ l.process = k.process /\ l.tenant = k.tenant
    /\ (l.kept /\ l.step \in Moving) => k.step \in Moving /\ l.tenant = k.tenant
    /\ l.step \in {"save", "saving"} =>
          \/ k.step \in {"save", "saving"} /\ l.tenant = k.tenant /\ l.limit = k.limit
          \/ Fits(Used(file, l.tenant), l.limit)

LEMMA SteadyIsReflexive ==
    ASSUME NEW k \in Upload, Shape(k)
    PROVE  Steady(k, k)
BY DEF Steady

\* Uploads that move steadily keep the invariant, if they keep their leases.
LEMMA UploadsMove ==
    ASSUME StorageInv, Calm, StorageTypeOK', UNCHANGED <<file, section, disturbed>>,
           \A u \in Uploads : Steady(upload[u], upload'[u]),
           ~disturbed => \A u \in Uploads : Leased(u)'
    PROVE  StorageInv' /\ Calm'
<1>1. ASSUME NEW u \in Uploads PROVE Shape(upload'[u]) /\ Opened(u)'
  <2>1. Opened(u) /\ Steady(upload[u], upload'[u])
    BY DEF StorageInv
  <2>2. QED
    BY <2>1 DEF Steady, Opened
<1>2. StorageInv'
  BY <1>1 DEF StorageInv, Owned
<1>3. ASSUME ~disturbed' PROVE OneSection' /\ (\A p \in Processes : Fresh(p)')
        /\ \A u \in Uploads : FileOf(u)' /\ Leased(u)' /\ Room(u)'
  <2>0. OneSection /\ (\A p \in Processes : Fresh(p))
        /\ \A u \in Uploads : FileOf(u) /\ Leased(u) /\ Room(u)
    BY <1>3 DEF Calm
  <2>1. OneSection'
    BY <2>0 DEF OneSection
  <2>2. ASSUME NEW p \in Processes PROVE Fresh(p)'
    <3>1. CASE section[p].active /\ Served(p, "saving", section[p].u)
                 /\ section[p].record = New(upload[section[p].u].tenant)
      <4>1. section[p].u \in Uploads
        BY <3>1 DEF StorageInv
      <4>2. Steady(upload[section[p].u], upload'[section[p].u])
        BY <4>1
      <4>3. Fresh(p)
        BY <2>0
      <4>4. QED
        BY <3>1, <4>2, <4>3 DEF Fresh, Served, At, Steady
    <3>2. CASE ~(section[p].active /\ Served(p, "saving", section[p].u)
                 /\ section[p].record = New(upload[section[p].u].tenant))
      BY <3>2, <2>0 DEF Fresh, Registered
    <3>3. QED
      BY <3>1, <3>2
  <2>3. ASSUME NEW u \in Uploads PROVE FileOf(u)' /\ Leased(u)' /\ Room(u)'
    <3>1. FileOf(u) /\ Room(u) /\ Steady(upload[u], upload'[u]) /\ Leased(u)'
      BY <1>3, <2>0
    <3>2. FileOf(u)'
      BY <3>1 DEF FileOf, Steady
    <3>3. Room(u)'
      BY <3>1 DEF Room, Steady, Fits, Used, Registered
    <3>4. QED
      BY <3>1, <3>2, <3>3
  <2>4. QED
    BY <2>1, <2>2, <2>3
<1>4. QED
  BY <1>2, <1>3 DEF Calm

\* The same for a step that moves one upload and may set, free or orphan its lease.
LEMMA OneUploadMoves ==
    ASSUME StorageInv, Calm, UNCHANGED <<file, section, limit, stops, disturbed>>,
           tenant' \in [Tenants -> {"active", "suspended"}],
           lease' \in [Tenants -> 0..Orphaned],
           NEW u \in Uploads, NEW l \in Upload, Steady(upload[u], l),
           upload' = [upload EXCEPT ![u] = l],
           \A t \in Tenants : lease'[t] = lease[t] \/ lease[t] \in {0, u},
           ~disturbed /\ l.step \in Holding => lease'[l.tenant] = u
    PROVE  StorageInv' /\ Calm'
<1>1. StorageTypeOK'
  BY DEF StorageInv, StorageTypeOK
<1>2. ASSUME NEW v \in Uploads PROVE Steady(upload[v], upload'[v])
  <2>1. CASE v = u
    BY <2>1 DEF StorageInv, StorageTypeOK
  <2>2. CASE v # u
    <3>1. upload[v] \in Upload /\ Shape(upload[v]) /\ upload'[v] = upload[v]
      BY <2>2 DEF StorageInv, StorageTypeOK
    <3>2. QED
      BY <3>1, SteadyIsReflexive
  <2>3. QED
    BY <2>1, <2>2
<1>3. ASSUME ~disturbed, NEW v \in Uploads PROVE Leased(v)'
  <2>1. CASE v = u
    BY <2>1, <1>3 DEF StorageInv, StorageTypeOK, Leased
  <2>2. CASE v # u
    <3>1. upload'[v] = upload[v] /\ Leased(v) /\ Shape(upload[v]) /\ v # 0
      BY <2>2, <1>3 DEF StorageInv, StorageTypeOK, Calm, Uploads
    <3>2. QED
      BY <3>1, <2>2 DEF Leased, Shape, Holding, Moving
  <2>3. QED
    BY <2>1, <2>2
<1>4. QED
  BY <1>1, <1>2, <1>3, UploadsMove
-----------------------------------------------------------------------------
(* The steps of storage, one by one. *)

LEMMA StorageStarts == StorageInit => StorageInv /\ Calm
<1> SUFFICES ASSUME StorageInit PROVE StorageInv /\ Calm
  OBVIOUS
<1>1. StorageTypeOK
  <2>1. 0 \in 0..Orphaned /\ 0 \in 0..MaxStops
    BY StorageAssumption DEF Orphaned
  <2>2. file \in [Uploads -> File] /\ upload \in [Uploads -> Upload]
    BY NothingIsTyped DEF StorageInit
  <2>3. section \in [Processes -> Section] /\ lease \in [Tenants -> 0..Orphaned]
    BY NothingIsTyped, <2>1 DEF StorageInit
  <2>4. QED
    BY <2>1, <2>2, <2>3 DEF StorageInit, StorageTypeOK
<1>2. \A u \in Uploads : upload[u] = NoUpload /\ file[u] = NoFile
  BY DEF StorageInit
<1>3. \A p \in Processes : ~section[p].active
  BY DEF StorageInit, NoSection
<1>4. \A u \in Uploads : Shape(upload[u]) /\ Opened(u) /\ Owned(file[u])
  BY <1>2, StorageAssumption
  DEF Shape, Opened, Owned, NoUpload, NoFile, Moving, Hosted
<1>5. StorageInv
  BY <1>1, <1>3, <1>4 DEF StorageInv
<1>6. OneSection /\ \A p \in Processes : Fresh(p)
  BY <1>3 DEF OneSection, Fresh
<1>7. \A u \in Uploads : FileOf(u) /\ Leased(u) /\ Room(u)
  BY <1>2 DEF FileOf, Leased, Room, NoUpload, Holding
<1>8. QED
  BY <1>5, <1>6, <1>7 DEF Calm

\* A step that only changes a limit or the status of a tenant.
LEMMA OthersMove ==
    ASSUME StorageInv, Calm, StorageTypeOK',
           UNCHANGED <<file, section, lease, upload, disturbed>>
    PROVE  StorageInv' /\ Calm'
<1>1. \A u \in Uploads : upload[u] \in Upload /\ Shape(upload[u])
  BY DEF StorageInv, StorageTypeOK
<1>2. \A u \in Uploads : Steady(upload[u], upload'[u])
  BY <1>1, SteadyIsReflexive
<1>3. ~disturbed => \A u \in Uploads : Leased(u)'
  BY DEF Calm, Leased
<1>4. QED
  BY <1>2, <1>3, UploadsMove

\* Whoever begins an upload for a tenant.
LEMMA UploadsBegin ==
    ASSUME StorageInv, Calm, UNCHANGED <<file, section, lease, limit, tenant, stops, disturbed>>,
           NEW u \in Uploads, NEW t \in Tenants, NEW kind \in Kinds, NEW step \in {"usage", "post"},
           NEW cap \in Limits \cup {Unlimited}, BeginUpload(u, t, kind, step, cap)
    PROVE  StorageInv' /\ Calm'
<1> DEFINE l == [NoUpload EXCEPT !.step = step, !.kind = kind, !.tenant = t, !.limit = cap]
<1>1. l \in Upload
  BY NothingIsTyped DEF Upload
<1>2. upload[u] = NoUpload /\ upload' = [upload EXCEPT ![u] = l]
  BY DEF BeginUpload
<1>3. Shape(l)
  BY StorageAssumption DEF Shape, NoUpload, Moving, Hosted
<1>4. Steady(upload[u], l)
  BY <1>2, <1>3 DEF Steady, NoUpload
<1>5. l.step \notin Holding
  BY DEF NoUpload, Holding
<1>6. QED
  <2> HIDE DEF l
  <2> QED BY <1>1, <1>2, <1>4, <1>5, OneUploadMoves DEF StorageInv, StorageTypeOK

\* An upload that ends outside a section.
LEMMA UploadsEnd ==
    ASSUME StorageInv, NEW u \in Uploads, upload[u].step \notin {"saving", "writing"}
    PROVE  /\ Ended(upload[u]) \in Upload /\ Steady(upload[u], Ended(upload[u]))
           /\ Ended(upload[u]).step \notin Holding
<1>1. upload[u] \in Upload
  BY DEF StorageInv, StorageTypeOK
<1>2. /\ Ended(upload[u]) \in Upload /\ Shape(Ended(upload[u]))
      /\ Ended(upload[u]).kept = upload[u].kept
      /\ Ended(upload[u]).step \in {"closed", "refused", "idle"}
  BY <1>1, EndedIsTyped
<1>3. QED
  BY <1>1, <1>2 DEF Steady, Moving, Holding

LEMMA BeginLibraryUploadKeeps ==
    ASSUME StorageInv, Calm, BeginLibraryUpload PROVE StorageInv' /\ Calm'
<1>1. PICK u \in Uploads, t \in Tenants : BeginUpload(u, t, "library", "usage", limit[t])
  BY DEF BeginLibraryUpload
<1>2. limit[t] \in Limits \cup {Unlimited} /\ "library" \in Kinds
  BY DEF StorageInv, StorageTypeOK, Kinds
<1>3. UNCHANGED <<file, section, lease, limit, tenant, stops, disturbed>>
  BY DEF BeginLibraryUpload
<1>4. QED
  BY <1>1, <1>2, <1>3, UploadsBegin

LEMMA BeginProofUploadKeeps ==
    ASSUME StorageInv, Calm, BeginProofUpload PROVE StorageInv' /\ Calm'
<1>1. PICK u \in Uploads, t \in Tenants : BeginUpload(u, t, "proof", "post", Unlimited)
  BY DEF BeginProofUpload
<1>2. Unlimited \in Limits \cup {Unlimited} /\ "proof" \in Kinds
  BY DEF Kinds
<1>3. UNCHANGED <<file, section, lease, limit, tenant, stops, disturbed>>
  BY DEF BeginProofUpload
<1>4. QED
  BY <1>1, <1>2, <1>3, UploadsBegin

LEMMA ReadUsageKeeps ==
    ASSUME StorageInv, Calm, NEW u \in Uploads, ReadUsage(u) PROVE StorageInv' /\ Calm'
<1> DEFINE k == upload[u]
           l == [k EXCEPT !.step = "row", !.row = tenant[k.tenant],
                          !.may = Fits(Used(file, k.tenant), k.limit)]
<1>1. k \in Upload /\ Shape(k) /\ k.step = "usage"
  BY DEF StorageInv, StorageTypeOK, ReadUsage, At
<1>2. k.tenant \in Tenants
  BY <1>1 DEF Shape, Moving
<1>3. tenant[k.tenant] \in {"active", "suspended"}
  BY <1>2 DEF StorageInv, StorageTypeOK
<1>4. Fits(Used(file, k.tenant), k.limit) \in BOOLEAN
  BY DEF Fits
<1>5. l \in Upload
  <2> DEFINE m == Fits(Used(file, k.tenant), k.limit)
  <2> HIDE DEF m
  <2>1. m \in BOOLEAN
    BY <1>4 DEF m
  <2>2. [k EXCEPT !.step = "row", !.row = tenant[k.tenant], !.may = m] \in Upload
    <3> HIDE DEF k
    <3> QED BY <1>1, <1>3, <2>1 DEF Upload
  <2>3. QED
    BY <2>2 DEF m
<1>6. upload' = [upload EXCEPT ![u] = l]
  BY DEF ReadUsage, StorageInv, StorageTypeOK
<1>7. l.step = "row" /\ l.kept = k.kept /\ l.tenant = k.tenant /\ l.process = k.process
  BY <1>1 DEF Upload
<1>8. Steady(k, l)
  <2> HIDE DEF l, k
  <2> QED BY <1>1, <1>7 DEF Steady, Shape, Moving, Hosted
<1>9. l.step \notin Holding
  BY <1>7 DEF Holding
<1>10. UNCHANGED <<file, section, lease, limit, tenant, stops, disturbed>>
  BY DEF ReadUsage
<1>11. QED
  <2> HIDE DEF l
  <2> QED BY <1>5, <1>6, <1>8, <1>9, <1>10, OneUploadMoves DEF StorageInv, StorageTypeOK

LEMMA ReportUsageKeeps ==
    ASSUME StorageInv, Calm, NEW u \in Uploads, ReportUsage(u) PROVE StorageInv' /\ Calm'
<1> DEFINE k == upload[u]
<1>1. k \in Upload /\ Shape(k) /\ k.step = "row"
  BY DEF StorageInv, StorageTypeOK, ReportUsage, At
<1>2. tenant' \in [Tenants -> {"active", "suspended"}]
  BY <1>1 DEF StorageInv, StorageTypeOK, ReportUsage, Upload
<1>3. UNCHANGED <<file, section, lease, limit, stops, disturbed>>
  BY DEF ReportUsage
<1>4. CASE k.may
  <2> DEFINE l == [k EXCEPT !.step = "post"]
  <2>1. l \in Upload /\ Steady(k, l) /\ l.step \notin Holding
    BY <1>1 DEF Upload, Steady, Shape, Moving, Hosted, Holding
  <2>2. upload' = [upload EXCEPT ![u] = l]
    BY <1>4 DEF ReportUsage, Go, StorageInv, StorageTypeOK
  <2>3. QED
    <3> HIDE DEF l
    <3> QED BY <1>2, <1>3, <2>1, <2>2, OneUploadMoves DEF StorageInv, StorageTypeOK
<1>5. CASE ~k.may
  <2>1. upload' = [upload EXCEPT ![u] = Ended(k)]
    BY <1>5 DEF ReportUsage, End
  <2>2. Ended(k) \in Upload /\ Steady(k, Ended(k)) /\ Ended(k).step \notin Holding
    BY <1>1, UploadsEnd
  <2>3. QED
    BY <1>2, <1>3, <2>1, <2>2, OneUploadMoves DEF StorageInv, StorageTypeOK
<1>6. QED
  BY <1>4, <1>5

LEMMA ReserveKeeps ==
    ASSUME StorageInv, Calm, NEW u \in Uploads, NEW p \in Processes, Reserve(u, p)
    PROVE  StorageInv' /\ Calm'
<1> DEFINE k == upload[u]
           l == [k EXCEPT !.step = "check", !.process = p]
<1>1. k \in Upload /\ Shape(k) /\ k.step = "post" /\ k.tenant \in Tenants
  BY DEF StorageInv, StorageTypeOK, Reserve, At, Shape, Moving
<1>2. l \in Upload /\ l.step = "check" /\ l.tenant = k.tenant /\ l.kept = k.kept
      /\ l.process = p
  BY <1>1 DEF Upload
<1>3. Steady(k, l)
  <2> HIDE DEF k, l
  <2> QED BY <1>1, <1>2 DEF Steady, Shape, Moving, Hosted
<1>4. upload' = [upload EXCEPT ![u] = l]
  BY DEF Reserve, StorageInv, StorageTypeOK
<1>5. u \in 0..Orphaned
  BY StorageAssumption DEF Uploads, Orphaned
<1>6. lease' \in [Tenants -> 0..Orphaned] /\ lease'[k.tenant] = u /\ lease[k.tenant] = 0
      /\ \A t \in Tenants : lease'[t] = lease[t] \/ lease[t] = 0
  BY <1>1, <1>5 DEF Reserve, StorageInv, StorageTypeOK
<1>7. UNCHANGED <<file, section, limit, tenant, stops, disturbed>>
  BY DEF Reserve
<1>8. QED
  <2> HIDE DEF l
  <2> QED BY <1>2, <1>3, <1>4, <1>6, <1>7, OneUploadMoves DEF StorageInv, StorageTypeOK

LEMMA BusyKeeps ==
    ASSUME StorageInv, Calm, NEW u \in Uploads, Busy(u) PROVE StorageInv' /\ Calm'
<1>1. Ended(upload[u]) \in Upload /\ Steady(upload[u], Ended(upload[u]))
      /\ Ended(upload[u]).step \notin Holding
  BY UploadsEnd DEF Busy, At
<1>2. upload' = [upload EXCEPT ![u] = Ended(upload[u])]
      /\ UNCHANGED <<file, section, lease, limit, tenant, stops, disturbed>>
  BY DEF Busy, End
<1>3. QED
  BY <1>1, <1>2, OneUploadMoves DEF StorageInv, StorageTypeOK

LEMMA ReserveFailsKeeps ==
    ASSUME StorageInv, Calm, NEW u \in Uploads, ReserveFails(u) PROVE StorageInv' /\ Calm'
<1>1. Ended(upload[u]) \in Upload /\ Steady(upload[u], Ended(upload[u]))
      /\ Ended(upload[u]).step \notin Holding
  BY UploadsEnd DEF ReserveFails, At
<1>2. upload' = [upload EXCEPT ![u] = Ended(upload[u])]
      /\ UNCHANGED <<file, section, limit, tenant, stops, disturbed>>
  BY DEF ReserveFails, End
<1>3. Orphaned \in 0..Orphaned
  BY StorageAssumption DEF Orphaned
<1>4. lease' \in [Tenants -> 0..Orphaned]
      /\ \A t \in Tenants : lease'[t] = lease[t] \/ lease[t] = 0
  BY <1>3 DEF ReserveFails, StorageInv, StorageTypeOK
<1>5. QED
  BY <1>1, <1>2, <1>4, OneUploadMoves DEF StorageInv, StorageTypeOK

LEMMA CheckKeeps ==
    ASSUME StorageInv, Calm, NEW u \in Uploads, Check(u) PROVE StorageInv' /\ Calm'
<1> DEFINE k == upload[u]
           fits == Fits(Used(file, k.tenant), k.limit)
           l == [k EXCEPT !.step = IF fits THEN "save" ELSE "release"]
<1>1. k \in Upload /\ Shape(k) /\ k.step = "check" /\ k.tenant \in Tenants
  BY DEF StorageInv, StorageTypeOK, Check, At, Shape, Moving
<1>2. l \in Upload /\ l.step = (IF fits THEN "save" ELSE "release")
      /\ l.tenant = k.tenant /\ l.kept = k.kept /\ l.process = k.process /\ l.limit = k.limit
  <2> HIDE DEF fits
  <2> QED BY <1>1 DEF Upload
<1>3. Steady(k, l)
  <2>1. l.step = "save" => Fits(Used(file, l.tenant), l.limit)
    BY <1>2
  <2> HIDE DEF k, l, fits
  <2>2. QED
    BY <1>1, <1>2, <2>1 DEF Steady, Shape, Moving, Hosted
<1>4. upload' = [upload EXCEPT ![u] = l]
  BY DEF Check, Go, StorageInv, StorageTypeOK
<1>5. UNCHANGED <<file, section, lease, limit, tenant, stops, disturbed>>
  BY DEF Check
<1>6. ~disturbed => lease'[l.tenant] = u
  BY <1>1, <1>2, <1>5 DEF Calm, Leased, Holding
<1>7. QED
  <2> HIDE DEF l
  <2> QED BY <1>2, <1>3, <1>4, <1>5, <1>6, OneUploadMoves DEF StorageInv, StorageTypeOK

LEMMA ReleaseKeeps ==
    ASSUME StorageInv, Calm, NEW u \in Uploads, Release(u) PROVE StorageInv' /\ Calm'
<1> DEFINE k == upload[u]
<1>1. k \in Upload /\ Shape(k) /\ k.step = "release" /\ k.tenant \in Tenants
  BY DEF StorageInv, StorageTypeOK, Release, At, Shape, Moving
<1>2. 0 \in 0..Orphaned /\ Orphaned \in 0..Orphaned /\ u # 0
  BY StorageAssumption DEF Uploads, Orphaned
<1>3. lease' \in [Tenants -> 0..Orphaned]
      /\ \A t \in Tenants : lease'[t] = lease[t] \/ lease[t] = u
  <2>1. CASE lease' = Orphan({u})
    BY <1>2, <2>1 DEF Orphan, StorageInv, StorageTypeOK
  <2>2. CASE lease' = Released(u)
    BY <1>1, <1>2, <2>2 DEF Released, StorageInv, StorageTypeOK
  <2>3. QED
    BY <2>1, <2>2 DEF Release
<1>4. UNCHANGED <<file, section, limit, tenant, stops, disturbed>>
  BY DEF Release
<1>5. CASE k.kept
  <2> DEFINE l == [k EXCEPT !.step = "content", !.process = Nobody]
  <2>1. l \in Upload /\ Steady(k, l) /\ l.step \notin Holding
    BY <1>1, <1>5, StorageAssumption DEF Upload, Steady, Shape, Moving, Hosted, Holding
  <2>2. upload' = [upload EXCEPT ![u] = l]
    BY <1>5 DEF Release, StorageInv, StorageTypeOK
  <2>3. QED
    <3> HIDE DEF l
    <3> QED BY <1>3, <1>4, <2>1, <2>2, OneUploadMoves DEF StorageInv, StorageTypeOK
<1>6. CASE ~k.kept
  <2>1. upload' = [upload EXCEPT ![u] = Ended(k)]
    BY <1>6 DEF Release, End
  <2>2. Ended(k) \in Upload /\ Steady(k, Ended(k)) /\ Ended(k).step \notin Holding
    BY <1>1, UploadsEnd
  <2>3. QED
    BY <1>3, <1>4, <2>1, <2>2, OneUploadMoves DEF StorageInv, StorageTypeOK
<1>7. QED
  BY <1>5, <1>6

LEMMA AbandonKeeps ==
    ASSUME StorageInv, Calm, NEW u \in Uploads, Abandon(u) PROVE StorageInv' /\ Calm'
<1>1. Ended(upload[u]) \in Upload /\ Steady(upload[u], Ended(upload[u]))
      /\ Ended(upload[u]).step \notin Holding
  BY UploadsEnd DEF Abandon, At
<1>2. upload' = [upload EXCEPT ![u] = Ended(upload[u])]
      /\ UNCHANGED <<file, section, lease, limit, tenant, stops, disturbed>>
  BY DEF Abandon, End
<1>3. QED
  BY <1>1, <1>2, OneUploadMoves DEF StorageInv, StorageTypeOK

LEMMA ChangesKeep ==
    ASSUME StorageInv, Calm, NEW t \in Tenants, ChangeLimit(t) \/ SetStatus(t)
    PROVE  StorageInv' /\ Calm'
<1>1. StorageTypeOK'
  BY DEF StorageInv, StorageTypeOK, ChangeLimit, SetStatus
<1>2. QED
  BY <1>1, OthersMove DEF ChangeLimit, SetStatus

\* A lease that expires under its holder disturbs; any other was nobody's.
LEMMA LeaseExpiresKeeps ==
    ASSUME StorageInv, Calm, NEW t \in Tenants, LeaseExpires(t)
    PROVE  StorageInv' /\ Calm'
<1>1. 0 \in 0..Orphaned
  BY StorageAssumption DEF Orphaned
<1>2. StorageTypeOK'
  BY <1>1 DEF StorageInv, StorageTypeOK, LeaseExpires, Held
<1>3. UNCHANGED <<file, section, upload>>
  BY DEF LeaseExpires
<1>4. StorageInv'
  BY <1>2, <1>3 DEF StorageInv, Opened, Owned
<1>5. ASSUME ~disturbed' PROVE Calm'
  <2>1. ~disturbed /\ ~Held(t) /\ UNCHANGED disturbed
    BY <1>5 DEF LeaseExpires, StorageInv, StorageTypeOK, Held
  <2>2. \A u \in Uploads : upload[u] \in Upload /\ Shape(upload[u]) /\ Leased(u)
    BY <2>1 DEF StorageInv, StorageTypeOK, Calm
  <2>3. \A u \in Uploads : Steady(upload[u], upload'[u])
    BY <2>2, <1>3, SteadyIsReflexive
  <2>4. ASSUME NEW u \in Uploads PROVE Leased(u)'
    <3>1. upload[u].step \in Holding => upload[u].tenant # t
      BY <2>1, <2>2 DEF Held, Leased, Holding
    <3>2. upload[u].step \in Holding => upload[u].tenant \in Tenants
      BY <2>2 DEF Shape, Holding, Moving
    <3>3. QED
      BY <1>3, <2>2, <3>1, <3>2 DEF LeaseExpires, Leased, StorageInv, StorageTypeOK
  <2>5. QED
    BY <1>2, <1>3, <2>1, <2>3, <2>4, UploadsMove
<1>6. QED
  BY <1>4, <1>5 DEF Calm

\* A section opens: it is the only one, or the step disturbs.
LEMMA SectionsOpen ==
    ASSUME StorageInv, Calm, UNCHANGED <<file, lease, limit, tenant, stops>>,
           NEW p \in Processes, NEW u \in Uploads, NEW r \in File, Owned(r), Open(p, u, r),
           NEW l \in Upload, Shape(l), upload' = [upload EXCEPT ![u] = l],
           l.kept = upload[u].kept,
           l.step \in {"saving", "writing"} => l.process = p \/ l = upload[u],
           ~disturbed =>
               /\ \/ l.step = "saving" /\ l.process = p /\ r = New(l.tenant)
                  \/ Registered(file[u]) /\ r \in {Filled(file[u]), Shelved(file[u])}
               /\ (l.step = "writing" /\ l.process = p) => r = Filled(file[u])
               /\ (l.kept /\ l.step \in Moving) => file[u].tenant = l.tenant
               /\ l.step \in Holding => upload[u].step \in Holding /\ l.tenant = upload[u].tenant
               /\ l.step \in {"save", "saving"} =>
                      upload[u].step \in {"save", "saving"} /\ l.limit = upload[u].limit
    PROVE  StorageInv' /\ Calm'
<1> DEFINE s == [active |-> TRUE, seen |-> file, u |-> u, record |-> r]
<1>1. s \in Section
  BY DEF Section, StorageInv, StorageTypeOK
<1>2. section' = [section EXCEPT ![p] = s] /\ ~section[p].active
      /\ disturbed' = (disturbed \/ \E q \in Processes \ {p} : section[q].active)
  BY DEF Open, Free
<1>3. /\ section' \in [Processes -> Section] /\ section'[p] = s
      /\ \A q \in Processes \ {p} : section'[q] = section[q]
  BY <1>1, <1>2 DEF StorageInv, StorageTypeOK
<1>4. /\ upload' \in [Uploads -> Upload] /\ upload'[u] = l
      /\ \A v \in Uploads \ {u} : upload'[v] = upload[v]
  BY DEF StorageInv, StorageTypeOK
<1>5. StorageTypeOK'
  BY <1>2, <1>3, <1>4 DEF StorageInv, StorageTypeOK
<1>6. \A v \in Uploads : (upload[v].step \in {"saving", "writing"}) => upload[v].process # p
  BY <1>2 DEF StorageInv, Opened
<1>7. ASSUME NEW v \in Uploads PROVE Shape(upload'[v]) /\ Opened(v)' /\ Owned(file'[v])
  <2>1. Shape(upload[v]) /\ Opened(v) /\ Owned(file[v])
    BY DEF StorageInv
  <2>2. CASE v # u \/ l = upload[u]
    <3>1. upload'[v] = upload[v]
      BY <1>4, <2>2
    <3>2. upload[v].step \in {"saving", "writing"} => upload[v].process \in Processes \ {p}
      BY <1>6, <2>1 DEF Shape
    <3>3. QED
      BY <1>3, <2>1, <3>1, <3>2 DEF Opened
  <2>3. CASE v = u /\ l # upload[u]
    BY <1>3, <1>4, <2>1, <2>3 DEF Opened
  <2>4. QED
    BY <2>2, <2>3
<1>8. StorageInv'
  <2>1. ASSUME NEW q \in Processes, section'[q].active
        PROVE  /\ section'[q].u \in Uploads
               /\ Owned(section'[q].record) /\ \A v \in Uploads : Owned(section'[q].seen[v])
    <3>1. CASE q = p
      BY <1>3, <3>1 DEF StorageInv
    <3>2. CASE q # p
      BY <1>3, <2>1, <3>2 DEF StorageInv
    <3>3. QED
      BY <3>1, <3>2
  <2>2. QED
    BY <1>5, <1>7, <2>1 DEF StorageInv
<1>9. ASSUME ~disturbed' PROVE Calm'
  <2>1. ~disturbed /\ \A q \in Processes : ~section[q].active
    BY <1>2, <1>9 DEF StorageInv, StorageTypeOK
  <2>2. \A q \in Processes \ {p} : ~section'[q].active
    BY <1>3, <2>1
  <2>3. OneSection'
    BY <2>2 DEF OneSection
  <2>4. \A v \in Uploads : upload[v].step \notin {"saving", "writing"}
    BY <2>1 DEF StorageInv, Opened, Shape
  <2>5. Fresh(p)'
    BY <1>3, <1>4, <2>1 DEF Fresh, Served, At, Registered
  <2>6. \A q \in Processes : Fresh(q)'
    BY <2>2, <2>5 DEF Fresh
  <2>7. ASSUME NEW v \in Uploads PROVE FileOf(v)' /\ Leased(v)' /\ Room(v)'
    <3>1. FileOf(v) /\ Leased(v) /\ Room(v)
      BY <2>1 DEF Calm
    <3>2. CASE v # u
      BY <1>4, <2>4, <3>1, <3>2 DEF FileOf, Leased, Room, Fits, Used, Registered
    <3>3. CASE v = u
      <4>1. l.step \in {"saving", "writing"} => l.process = p
        BY <2>4
      <4>2. FileOf(u)'
        BY <1>3, <1>4, <2>1, <3>1, <3>3, <4>1 DEF FileOf
      <4>3. Leased(u)'
        BY <1>4, <2>1, <3>1, <3>3 DEF Leased
      <4>4. Room(u)'
        <5>1. l.step \in {"save", "saving"} =>
                  l.tenant = upload[u].tenant /\ l.limit = upload[u].limit
          BY <2>1 DEF Holding
        <5>2. QED
          BY <1>4, <2>1, <3>1, <3>3, <5>1 DEF Room, Fits, Used, Registered
      <4>5. QED
        BY <3>3, <4>2, <4>3, <4>4
    <3>4. QED
      BY <3>2, <3>3
  <2>8. QED
    BY <2>3, <2>6, <2>7 DEF Calm
<1>10. QED
  BY <1>8, <1>9 DEF Calm

LEMMA RegisterKeeps ==
    ASSUME StorageInv, Calm, NEW u \in Uploads, Register(u) PROVE StorageInv' /\ Calm'
<1> DEFINE k == upload[u]
           l == [k EXCEPT !.step = "saving"]
<1>1. k \in Upload /\ Shape(k) /\ k.step = "save" /\ k.tenant \in Tenants
      /\ k.process \in Processes
  BY DEF StorageInv, StorageTypeOK, Register, At, Shape, Moving
<1>2. PICK p \in Processes : p = k.process
  BY <1>1
<1>3. l \in Upload /\ l.step = "saving" /\ l.tenant = k.tenant /\ l.kept = k.kept
      /\ l.process = p /\ l.limit = k.limit
  BY <1>1, <1>2 DEF Upload
<1>4. Shape(l) /\ ~l.kept
  <2> HIDE DEF k, l
  <2> QED BY <1>1, <1>2, <1>3 DEF Shape, Moving, Hosted
<1>5. PICK r \in File : r = New(k.tenant) /\ Owned(r)
  <2>1. New(k.tenant) \in File /\ Owned(New(k.tenant))
    BY <1>1 DEF New, File, Owned
  <2>2. QED
    BY <2>1
<1>6. upload' = [upload EXCEPT ![u] = l] /\ Open(p, u, r)
  BY <1>2, <1>5 DEF Register, Go, New, StorageInv, StorageTypeOK
<1>7. UNCHANGED <<file, lease, limit, tenant, stops>>
  BY DEF Register
<1>8. QED
  <2> HIDE DEF l
  <2>1. r = New(l.tenant)
    BY <1>3, <1>5
  <2>2. QED
    <3>1. ~disturbed =>
               /\ \/ l.step = "saving" /\ l.process = p /\ r = New(l.tenant)
                  \/ Registered(file[u]) /\ r \in {Filled(file[u]), Shelved(file[u])}
               /\ (l.step = "writing" /\ l.process = p) => r = Filled(file[u])
               /\ (l.kept /\ l.step \in Moving) => file[u].tenant = l.tenant
               /\ l.step \in Holding => upload[u].step \in Holding /\ l.tenant = upload[u].tenant
               /\ l.step \in {"save", "saving"} =>
                      upload[u].step \in {"save", "saving"} /\ l.limit = upload[u].limit
      BY <1>1, <1>3, <1>4, <2>1 DEF Holding
    <3>2. l.step \in {"saving", "writing"} => l.process = p \/ l = upload[u]
      BY <1>3
    <3>3. QED
      <4>1. p \in Processes /\ r \in File /\ Owned(r) /\ Open(p, u, r)
        BY <1>2, <1>5, <1>6
      <4>2. l \in Upload /\ Shape(l) /\ upload' = [upload EXCEPT ![u] = l]
            /\ l.kept = upload[u].kept
        BY <1>3, <1>4, <1>6
      <4> HIDE DEF k
      <4>3. QED
        BY <4>1, <4>2, <1>7, <3>1, <3>2, SectionsOpen

LEMMA PutContentKeeps ==
    ASSUME StorageInv, Calm, NEW u \in Uploads, NEW p \in Processes, PutContent(u, p)
    PROVE  StorageInv' /\ Calm'
<1> DEFINE k == upload[u]
<1>1. k \in Upload /\ Shape(k) /\ k.step = "content" /\ k.kept
  BY DEF StorageInv, StorageTypeOK, PutContent, At, Shape
<1>2. UNCHANGED <<file, lease, limit, tenant, stops>>
  BY DEF PutContent
<1>3. CASE Registered(file[u])
  <2> DEFINE l == [k EXCEPT !.step = "writing", !.process = p]
             r == Filled(file[u])
  <2>1. l \in Upload /\ l.step = "writing" /\ l.tenant = k.tenant /\ l.kept = k.kept
        /\ l.process = p
    BY <1>1 DEF Upload
  <2>2. Shape(l)
    <3> HIDE DEF k, l
    <3> QED BY <1>1, <2>1 DEF Shape, Moving, Hosted
  <2>3. r \in File /\ Owned(r)
    <3>1. file[u] \in File /\ Owned(file[u])
      BY DEF StorageInv, StorageTypeOK
    <3>2. QED
      BY <3>1 DEF Filled, File, Owned
  <2>4. upload' = [upload EXCEPT ![u] = l] /\ Open(p, u, r)
    BY <1>3 DEF PutContent, Filled, StorageInv, StorageTypeOK
  <2>5. ~disturbed => file[u].tenant = l.tenant
    BY <1>1, <2>1 DEF Calm, FileOf, Moving
  <2>6. QED
    <3> HIDE DEF l
    <3> QED BY <1>2, <1>3, <2>1, <2>2, <2>3, <2>4, <2>5, SectionsOpen DEF Holding
<1>4. CASE ~Registered(file[u])
  <2>1. upload' = [upload EXCEPT ![u] = Ended(k)] /\ UNCHANGED <<section, disturbed>>
    BY <1>4 DEF PutContent, End
  <2>2. Ended(k) \in Upload /\ Steady(k, Ended(k)) /\ Ended(k).step \notin Holding
    BY <1>1, UploadsEnd
  <2>3. QED
    BY <1>2, <2>1, <2>2, OneUploadMoves DEF StorageInv, StorageTypeOK
<1>5. QED
  BY <1>3, <1>4

LEMMA ArchiveKeeps ==
    ASSUME StorageInv, Calm, NEW u \in Uploads, NEW p \in Processes, Archive(u, p)
    PROVE  StorageInv' /\ Calm'
<1> DEFINE k == upload[u]
           r == Shelved(file[u])
<1>1. k \in Upload /\ Shape(k) /\ file[u] \in File /\ Owned(file[u])
  BY DEF StorageInv, StorageTypeOK
<1>2. r \in File /\ Owned(r)
  BY <1>1 DEF Shelved, File, Owned, Archive, Registered
<1>3. upload' = [upload EXCEPT ![u] = k] /\ Open(p, u, r) /\ Registered(file[u])
      /\ UNCHANGED <<file, lease, limit, tenant, stops>>
  BY DEF Archive, Shelved, StorageInv, StorageTypeOK
<1>4. (k.step \in {"saving", "writing"}) => k.process # p
  BY DEF Archive, Open, Free, StorageInv, Opened
<1>5. ~disturbed => ((k.kept /\ k.step \in Moving) => file[u].tenant = k.tenant)
  BY DEF Calm, FileOf
<1>6. QED
  <2> HIDE DEF k
  <2> QED BY <1>1, <1>2, <1>3, <1>4, <1>5, SectionsOpen DEF k
-----------------------------------------------------------------------------
(* The rewrite of the metadata. *)

\* A registered upload's record, and what a content put leaves of the upload.
LEMMA WrittenIsTyped ==
    ASSUME NEW k \in Upload, Shape(k), k.step = "writing"
    PROVE  /\ Written(k) \in Upload /\ Shape(Written(k)) /\ Written(k).kept
           /\ Written(k).step = IF k.kind = "derived" THEN "written" ELSE "closed"
<1>1. k.kept
  BY DEF Shape
<1>2. CASE k.kind = "derived"
  BY <1>2, StorageAssumption DEF Written, NoUpload, Upload, Kinds, Shape, Moving, Hosted
<1>3. CASE k.kind # "derived"
  BY <1>1, <1>3, EndedIsTyped DEF Written
<1>4. QED
  BY <1>2, <1>3

\* The rewrite changes the record of its own upload and the upload it served.
LEMMA StoreChanges ==
    ASSUME StorageInv, NEW p \in Processes, Store(p), NEW u \in Uploads, u = section[p].u
    PROVE  /\ section[p].active
           /\ file' = [section[p].seen EXCEPT ![u] = section[p].record]
           /\ file' \in [Uploads -> File] /\ file'[u] = section[p].record
           /\ \A v \in Uploads \ {u} : file'[v] = section[p].seen[v]
           /\ section' \in [Processes -> Section] /\ section'[p] = NoSection
           /\ \A q \in Processes \ {p} : section'[q] = section[q]
           /\ upload' \in [Uploads -> Upload] /\ \A v \in Uploads \ {u} : upload'[v] = upload[v]
           /\ Served(p, "saving", u) =>
                  upload'[u] = [upload[u] EXCEPT !.step = "release", !.kept = TRUE]
           /\ Served(p, "writing", u) => upload'[u] = Written(upload[u])
           /\ ~Served(p, "saving", u) /\ ~Served(p, "writing", u) => upload'[u] = upload[u]
<1>1. section[p] \in Section /\ upload \in [Uploads -> Upload] /\ Shape(upload[u])
  BY DEF StorageInv, StorageTypeOK
<1>2. section[p].active /\ section' = [section EXCEPT ![p] = NoSection]
      /\ file' = [section[p].seen EXCEPT ![u] = section[p].record]
  BY DEF Store
<1>3. section[p].seen \in [Uploads -> File] /\ section[p].record \in File
  BY <1>1 DEF Section
<1>4. section' \in [Processes -> Section]
  BY <1>2, NothingIsTyped DEF StorageInv, StorageTypeOK
<1> DEFINE l == IF Served(p, "saving", u)
                THEN [upload[u] EXCEPT !.step = "release", !.kept = TRUE]
                ELSE IF Served(p, "writing", u) THEN Written(upload[u]) ELSE upload[u]
<1>5. upload' = [upload EXCEPT ![u] = l]
  BY <1>1 DEF Store
<1>6. l \in Upload
  <2>1. CASE Served(p, "saving", u)
    <3> DEFINE k == upload[u]
    <3>1. k \in Upload
      BY <1>1
    <3>2. [k EXCEPT !.step = "release", !.kept = TRUE] \in Upload
      <4> HIDE DEF k
      <4> QED BY <3>1 DEF Upload
    <3>3. QED
      BY <2>1, <3>2
  <2>2. CASE ~Served(p, "saving", u) /\ Served(p, "writing", u)
    <3>1. Written(upload[u]) \in Upload
      BY <1>1, <2>2, WrittenIsTyped DEF Served, At
    <3>2. QED
      BY <2>2, <3>1
  <2>3. CASE ~Served(p, "saving", u) /\ ~Served(p, "writing", u)
    BY <1>1, <2>3
  <2>4. QED
    BY <2>1, <2>2, <2>3
<1>7. upload' \in [Uploads -> Upload] /\ upload'[u] = l
      /\ \A v \in Uploads \ {u} : upload'[v] = upload[v]
  <2> HIDE DEF l
  <2> QED BY <1>1, <1>5, <1>6
<1>8. ~(Served(p, "saving", u) /\ Served(p, "writing", u))
  BY DEF Served, At
<1>9. QED
  BY <1>2, <1>3, <1>4, <1>7, <1>8, <1>1 DEF StorageInv, StorageTypeOK

\* Undisturbed, the record is a new file's or that of a registered file, filled or
\* archived; and an upload that fills its file finds its own section.
LEMMA StoreIsFresh ==
    ASSUME StorageInv, Calm, ~disturbed, NEW p \in Processes, Store(p),
           NEW u \in Uploads, u = section[p].u
    PROVE  /\ section[p].seen = file /\ OneSection
           /\ \/ /\ Served(p, "saving", u) /\ file[u] = NoFile
                 /\ section[p].record = New(upload[u].tenant)
              \/ /\ ~Served(p, "saving", u) /\ Registered(file[u]) /\ upload[u].kept
                 /\ section[p].record \in {Filled(file[u]), Shelved(file[u])}
                 /\ Served(p, "writing", u) => section[p].record = Filled(file[u])
                 /\ ~Served(p, "writing", u) => upload[u].step \notin {"saving", "writing"}
<1>1. section[p].active
  BY DEF Store
<1>2. Fresh(p) /\ OneSection /\ FileOf(u) /\ Opened(u) /\ Shape(upload[u])
  BY DEF Calm, StorageInv
<1>3. Served(p, "saving", u) => file[u] = NoFile /\ ~Registered(file[u])
  BY <1>2 DEF Served, At, FileOf, Shape, Registered, NoFile
<1>4. Registered(file[u]) => upload[u].kept
  BY <1>2 DEF FileOf, Registered, NoFile
<1>5. upload[u].step \in {"saving", "writing"} => upload[u].process = p
  BY <1>1, <1>2 DEF Opened, Shape, OneSection
<1>6. Served(p, "writing", u) => section[p].record = Filled(file[u])
  BY <1>2 DEF Served, At, FileOf
<1>7. QED
  BY <1>1, <1>2, <1>3, <1>4, <1>5, <1>6 DEF Fresh, Served, At

LEMMA StoreKeeps ==
    ASSUME StorageInv, Calm, NEW p \in Processes, Store(p) PROVE StorageInv' /\ Calm'
<1>1. PICK u \in Uploads : u = section[p].u
  BY DEF Store, StorageInv
<1>2. /\ section[p].active
      /\ file' \in [Uploads -> File] /\ file'[u] = section[p].record
      /\ \A v \in Uploads \ {u} : file'[v] = section[p].seen[v]
      /\ section' \in [Processes -> Section] /\ section'[p] = NoSection
      /\ \A q \in Processes \ {p} : section'[q] = section[q]
      /\ upload' \in [Uploads -> Upload] /\ \A v \in Uploads \ {u} : upload'[v] = upload[v]
  BY <1>1, StoreChanges
<1>3. /\ Served(p, "saving", u) =>
             upload'[u] = [upload[u] EXCEPT !.step = "release", !.kept = TRUE]
      /\ Served(p, "writing", u) => upload'[u] = Written(upload[u])
      /\ ~Served(p, "saving", u) /\ ~Served(p, "writing", u) => upload'[u] = upload[u]
  BY <1>1, StoreChanges
<1>4. UNCHANGED <<lease, limit, tenant, stops, disturbed>>
  BY DEF Store
<1>5. upload[u] \in Upload /\ Shape(upload[u]) /\ Opened(u)
  BY DEF StorageInv, StorageTypeOK
<1>6. Shape(upload'[u]) /\ (upload'[u].step \in {"saving", "writing"} => upload[u] = upload'[u]
                                                     /\ upload[u].process # p)
  <2>1. CASE Served(p, "saving", u)
    <3> DEFINE l == [upload[u] EXCEPT !.step = "release", !.kept = TRUE]
    <3>1. l.step = "release" /\ l.tenant = upload[u].tenant
      BY <1>5 DEF Upload
    <3>2. Shape(l)
      <4>1. upload[u].step = "saving" /\ upload[u].tenant \in Tenants
        BY <1>5, <2>1 DEF Served, At, Shape, Moving
      <4>2. QED
        <5> HIDE DEF l
        <5> QED BY <3>1, <4>1 DEF Shape, Moving, Hosted
    <3>3. upload'[u] = l
      BY <1>3, <2>1
    <3> HIDE DEF l
    <3>4. QED
      BY <3>1, <3>2, <3>3
  <2>2. CASE Served(p, "writing", u)
    BY <1>3, <1>5, <2>2, WrittenIsTyped DEF Served, At
  <2>3. CASE ~Served(p, "saving", u) /\ ~Served(p, "writing", u)
    BY <1>3, <1>5, <2>3 DEF Served, At
  <2>4. QED
    BY <2>1, <2>2, <2>3
<1>7. ASSUME NEW v \in Uploads PROVE Shape(upload'[v]) /\ Opened(v)' /\ Owned(file'[v])
  <2>1. Shape(upload[v]) /\ Opened(v)
    BY DEF StorageInv
  <2>2. Owned(file'[v])
    BY <1>1, <1>2 DEF StorageInv
  <2>3. CASE v = u
    BY <1>2, <1>6, <2>1, <2>2, <2>3 DEF Opened, Shape
  <2>4. CASE v # u
    <3>1. upload[v].step \in {"saving", "writing"} => upload[v].process # p
      BY <1>1, <2>1, <2>4 DEF Opened
    <3>2. QED
      BY <1>2, <2>1, <2>2, <2>4, <3>1 DEF Opened, Shape
  <2>5. QED
    BY <2>3, <2>4
<1>8. StorageInv'
  <2>1. StorageTypeOK'
    BY <1>2, <1>4 DEF StorageInv, StorageTypeOK
  <2>2. ASSUME NEW q \in Processes, section'[q].active
        PROVE  /\ section'[q].u \in Uploads
               /\ Owned(section'[q].record) /\ \A v \in Uploads : Owned(section'[q].seen[v])
    BY <1>2, <2>2 DEF StorageInv, NoSection
  <2>3. QED
    BY <1>7, <2>1, <2>2 DEF StorageInv
<1>9. ASSUME ~disturbed PROVE Calm'
  <2>1. section[p].seen = file /\ OneSection
    BY <1>1, <1>9, StoreIsFresh
  <2>2. \/ /\ Served(p, "saving", u) /\ file[u] = NoFile
           /\ section[p].record = New(upload[u].tenant)
        \/ /\ ~Served(p, "saving", u) /\ Registered(file[u]) /\ upload[u].kept
           /\ section[p].record \in {Filled(file[u]), Shelved(file[u])}
           /\ Served(p, "writing", u) => section[p].record = Filled(file[u])
           /\ ~Served(p, "writing", u) => upload[u].step \notin {"saving", "writing"}
    BY <1>1, <1>9, StoreIsFresh
  <2>3. \A q \in Processes : ~section'[q].active
    BY <1>2, <2>1 DEF OneSection, NoSection
  <2>4. OneSection' /\ \A q \in Processes : Fresh(q)'
    BY <2>3 DEF OneSection, Fresh
  <2>5. \A v \in Uploads \ {u} : file'[v] = file[v]
    BY <1>2, <2>1
  <2>6. file[u] \in File /\ FileOf(u) /\ Leased(u)
    BY <1>9 DEF StorageInv, StorageTypeOK, Calm
  <2>7. FileOf(u)' /\ Leased(u)' /\ upload'[u].step \notin {"save", "saving", "writing"}
    <3>1. CASE Served(p, "saving", u)
      <4> DEFINE l == [upload[u] EXCEPT !.step = "release", !.kept = TRUE]
      <4>1. l.step = "release" /\ l.tenant = upload[u].tenant /\ l.kept
        BY <1>5 DEF Upload
      <4>2. upload'[u] = l
        BY <1>3, <3>1
      <4>3. file'[u] = New(upload[u].tenant)
        BY <1>2, <2>2, <3>1
      <4> HIDE DEF l
      <4>4. QED
        BY <4>1, <4>2, <4>3 DEF FileOf, Leased, New, Holding
    <3>2. CASE Served(p, "writing", u)
      <4>1. upload'[u].kept /\ upload'[u].step \in {"written", "closed"}
        BY <1>3, <1>5, <3>2, WrittenIsTyped DEF Served, At
      <4>2. file'[u].status # "none"
        BY <1>2, <2>2, <2>6, <3>2 DEF Filled, Registered, File, Served, At
      <4>3. QED
        BY <4>1, <4>2 DEF FileOf, Leased, Moving, Holding
    <3>3. CASE ~Served(p, "saving", u) /\ ~Served(p, "writing", u)
      <4>1. upload'[u] = upload[u] /\ upload[u].step \notin {"saving", "writing"}
        BY <1>3, <2>2, <3>3
      <4>2. file'[u].status # "none" /\ file'[u].tenant = file[u].tenant
        BY <1>2, <2>2, <2>6, <3>3 DEF Filled, Shelved, Registered, File
      <4>3. upload[u].kept /\ upload[u].step # "save"
        BY <1>5, <2>2, <3>3 DEF Shape
      <4>4. QED
        BY <1>4, <2>6, <4>1, <4>2, <4>3 DEF FileOf, Leased
    <3>4. QED
      BY <3>1, <3>2, <3>3
  <2>8. ASSUME NEW v \in Uploads \ {u} PROVE FileOf(v)' /\ Leased(v)' /\ Room(v)'
    <3>1. FileOf(v) /\ Leased(v) /\ Room(v) /\ Shape(upload[v]) /\ upload[v] \in Upload
          /\ upload'[v] = upload[v] /\ file'[v] = file[v]
      BY <1>2, <1>9, <2>5 DEF Calm, StorageInv, StorageTypeOK
    <3>2. upload[v].step \notin {"saving", "writing"}
      BY <1>1, <1>2, <2>1, <3>1 DEF StorageInv, Opened, OneSection, Shape
    <3>3. FileOf(v)' /\ Leased(v)'
      BY <1>4, <3>1, <3>2 DEF FileOf, Leased
    <3>4. ASSUME upload[v].step = "save"
          PROVE  Fits(Used(file', upload[v].tenant), upload[v].limit)
      <4> DEFINE t == upload[v].tenant
                 n == Used(file, t)
                 m == Used(file', t)
      <4>1. Fits(n, upload[v].limit) /\ lease[t] = v
        BY <3>1, <3>4 DEF Room, Leased, Holding
      <4>2. Registered(file'[u]) /\ file'[u].tenant = t => Registered(file[u]) /\ file[u].tenant = t
        <5>1. CASE Served(p, "saving", u)
          BY <1>2, <2>2, <2>6, <4>1, <5>1 DEF Served, At, Leased, New, Holding
        <5>2. CASE ~Served(p, "saving", u)
          BY <1>2, <2>2, <2>6, <5>2 DEF Filled, Shelved, Registered, File
        <5>3. QED
          BY <5>1, <5>2
      <4>3. n \in Nat /\ m \in Nat
        BY UsedIsNat
      <4>4. m =< n
        BY <2>5, <4>2, OneRecord
      <4>5. upload[v].limit \in Nat \cup {Unlimited}
        BY <3>1, StorageAssumption DEF Upload
      <4>6. QED
        <5> HIDE DEF n, m
        <5> QED BY <4>1, <4>3, <4>4, <4>5 DEF Fits, m
    <3>5. Room(v)'
      BY <3>1, <3>2, <3>4 DEF Room
    <3>6. QED
      BY <3>3, <3>5
  <2>9. \A v \in Uploads : FileOf(v)' /\ Leased(v)' /\ Room(v)'
    BY <2>7, <2>8 DEF Room
  <2>10. QED
    BY <2>4, <2>9 DEF Calm
<1>10. QED
  BY <1>4, <1>8, <1>9 DEF Calm
-----------------------------------------------------------------------------
(* A process that stops. *)

LEMMA StopKeeps ==
    ASSUME StorageInv, Calm, NEW p \in Processes, Stop(p) PROVE StorageInv' /\ Calm'
<1> DEFINE gone == {u \in Uploads : upload[u].process = p}
<1>1. /\ section' \in [Processes -> Section] /\ section'[p] = NoSection
      /\ \A q \in Processes \ {p} : section'[q] = section[q]
  BY NothingIsTyped DEF Stop, StorageInv, StorageTypeOK
<1>2. \A u \in Uploads : upload[u] \in Upload /\ Shape(upload[u]) /\ Opened(u)
  BY DEF StorageInv, StorageTypeOK
<1>3. \A u \in Uploads : upload'[u] = IF u \in gone THEN Ended(upload[u]) ELSE upload[u]
  BY DEF Stop
<1>4. \A u \in Uploads : u \in gone <=> upload[u].process = p
  OBVIOUS
<1>5. \A t \in Tenants : lease'[t] = IF lease[t] \in gone THEN Orphaned ELSE lease[t]
  BY DEF Stop, Orphan
<1>6. UNCHANGED <<file, limit, tenant, disturbed>> /\ stops' \in 0..MaxStops
  BY StorageAssumption DEF Stop, StorageInv, StorageTypeOK
<1> HIDE DEF gone
<1>7. ASSUME NEW u \in Uploads
      PROVE  /\ upload'[u] \in Upload /\ Shape(upload'[u]) /\ upload'[u].kept = upload[u].kept
             /\ u \in gone => upload'[u].step \notin Moving
             /\ u \notin gone => upload'[u] = upload[u]
  <2>1. CASE u \in gone
    <3>1. upload'[u] = Ended(upload[u]) /\ upload[u] \in Upload
      BY <1>2, <1>3, <2>1
    <3>2. QED
      BY <2>1, <3>1, EndedIsTyped DEF Moving
  <2>2. CASE u \notin gone
    BY <1>2, <1>3, <2>2
  <2>3. QED
    BY <2>1, <2>2
<1>8. StorageTypeOK'
  <2>1. upload' \in [Uploads -> Upload]
    BY <1>7 DEF Stop
  <2>2. Orphaned \in 0..Orphaned
    BY StorageAssumption DEF Orphaned
  <2>3. lease' \in [Tenants -> 0..Orphaned]
    BY <2>2 DEF Stop, Orphan, StorageInv, StorageTypeOK
  <2>4. QED
    BY <1>1, <1>6, <2>1, <2>3 DEF StorageInv, StorageTypeOK
<1>9. ASSUME NEW u \in Uploads PROVE Opened(u)'
  <2>1. CASE u \in gone
    BY <1>7, <2>1 DEF Opened, Moving
  <2>2. CASE u \notin gone
    BY <1>1, <1>2, <1>4, <1>7, <2>2 DEF Opened, Shape
  <2>3. QED
    BY <2>1, <2>2
<1>10. StorageInv'
  <2>1. \A q \in Processes : section'[q].active => q # p /\ section'[q] = section[q]
    BY <1>1 DEF NoSection
  <2>2. QED
    BY <1>6, <1>7, <1>8, <1>9, <2>1 DEF StorageInv, Owned
<1>11. ASSUME ~disturbed PROVE Calm'
  <2>1. OneSection /\ (\A q \in Processes : Fresh(q))
        /\ \A u \in Uploads : FileOf(u) /\ Leased(u) /\ Room(u)
    BY <1>11 DEF Calm
  <2>2. OneSection'
    BY <1>1, <2>1 DEF OneSection, NoSection
  <2>3. ASSUME NEW q \in Processes PROVE Fresh(q)'
    <3>1. CASE q = p
      BY <1>1, <3>1 DEF Fresh, NoSection
    <3>2. CASE q # p /\ section[q].active
      <4>1. section[q].u \in Uploads
        BY <3>2 DEF StorageInv
      <4>2. Served(q, "saving", section[q].u) => section[q].u \notin gone
        BY <1>4, <3>2, <4>1 DEF Served
      <4>3. Served(q, "saving", section[q].u) =>
                upload'[section[q].u] = upload[section[q].u]
        BY <1>7, <4>1, <4>2
      <4>4. section'[q] = section[q] /\ file' = file /\ Fresh(q)
        BY <1>1, <1>6, <2>1, <3>2
      <4>5. QED
        BY <3>2, <4>3, <4>4 DEF Fresh, Served, At, Registered
    <3>3. CASE q # p /\ ~section[q].active
      BY <1>1, <3>3 DEF Fresh
    <3>4. QED
      BY <3>1, <3>2, <3>3
  <2>4. ASSUME NEW u \in Uploads PROVE FileOf(u)' /\ Leased(u)' /\ Room(u)'
    <3>1. FileOf(u) /\ Leased(u) /\ Room(u) /\ Shape(upload[u])
      BY <1>2, <2>1
    <3>2. CASE u \in gone
      <4>1. upload'[u].step \notin Moving /\ upload'[u].kept = upload[u].kept
        BY <1>7, <3>2
      <4>2. QED
        BY <1>6, <3>1, <4>1 DEF FileOf, Leased, Room, Moving, Holding
    <3>3. CASE u \notin gone
      <4>1. upload'[u] = upload[u]
        BY <1>7, <3>3
      <4>2. upload[u].step = "writing" => section'[upload[u].process] = section[upload[u].process]
        BY <1>1, <1>4, <3>1, <3>3 DEF Shape
      <4>3. FileOf(u)'
        BY <1>6, <3>1, <4>1, <4>2 DEF FileOf
      <4>4. Leased(u)'
        BY <1>5, <3>1, <3>3, <4>1 DEF Leased, Shape, Holding, Moving
      <4>5. Room(u)'
        BY <1>6, <3>1, <4>1 DEF Room, Fits, Used, Registered
      <4>6. QED
        BY <4>3, <4>4, <4>5
    <3>4. QED
      BY <3>2, <3>3
  <2>5. QED
    BY <2>2, <2>3, <2>4 DEF Calm
<1>12. QED
  BY <1>6, <1>10, <1>11 DEF Calm

LEMMA StorageKeeps ==
    ASSUME StorageInv, Calm, StorageNext PROVE StorageInv' /\ Calm'
<1>1. CASE BeginLibraryUpload
  BY <1>1, BeginLibraryUploadKeeps
<1>2. CASE BeginProofUpload
  BY <1>2, BeginProofUploadKeeps
<1>3. ASSUME NEW u \in Uploads, ReadUsage(u) PROVE StorageInv' /\ Calm'
  BY <1>3, ReadUsageKeeps
<1>4. ASSUME NEW u \in Uploads, ReportUsage(u) PROVE StorageInv' /\ Calm'
  BY <1>4, ReportUsageKeeps
<1>5. ASSUME NEW u \in Uploads, Busy(u) PROVE StorageInv' /\ Calm'
  BY <1>5, BusyKeeps
<1>6. ASSUME NEW u \in Uploads, ReserveFails(u) PROVE StorageInv' /\ Calm'
  BY <1>6, ReserveFailsKeeps
<1>7. ASSUME NEW u \in Uploads, Check(u) PROVE StorageInv' /\ Calm'
  BY <1>7, CheckKeeps
<1>8. ASSUME NEW u \in Uploads, Register(u) PROVE StorageInv' /\ Calm'
  BY <1>8, RegisterKeeps
<1>9. ASSUME NEW u \in Uploads, Release(u) PROVE StorageInv' /\ Calm'
  BY <1>9, ReleaseKeeps
<1>10. ASSUME NEW u \in Uploads, Abandon(u) PROVE StorageInv' /\ Calm'
  BY <1>10, AbandonKeeps
<1>11. ASSUME NEW u \in Uploads, NEW p \in Processes, Reserve(u, p) PROVE StorageInv' /\ Calm'
  BY <1>11, ReserveKeeps
<1>12. ASSUME NEW u \in Uploads, NEW p \in Processes, PutContent(u, p)
       PROVE  StorageInv' /\ Calm'
  BY <1>12, PutContentKeeps
<1>13. ASSUME NEW u \in Uploads, NEW p \in Processes, Archive(u, p) PROVE StorageInv' /\ Calm'
  BY <1>13, ArchiveKeeps
<1>14. ASSUME NEW p \in Processes, Store(p) PROVE StorageInv' /\ Calm'
  BY <1>14, StoreKeeps
<1>15. ASSUME NEW p \in Processes, Stop(p) PROVE StorageInv' /\ Calm'
  BY <1>15, StopKeeps
<1>16. ASSUME NEW t \in Tenants, LeaseExpires(t) PROVE StorageInv' /\ Calm'
  BY <1>16, LeaseExpiresKeeps
<1>17. ASSUME NEW t \in Tenants, ChangeLimit(t) \/ SetStatus(t) PROVE StorageInv' /\ Calm'
  BY <1>17, ChangesKeep
<1>18. QED
  BY <1>1, <1>2, <1>3, <1>4, <1>5, <1>6, <1>7, <1>8, <1>9, <1>10, <1>11, <1>12, <1>13, <1>14,
     <1>15, <1>16, <1>17 DEF StorageNext

\* Storage that nothing happens to.
LEMMA StorageStays ==
    ASSUME StorageInv, Calm, UNCHANGED storageVars PROVE StorageInv' /\ Calm'
<1>1. StorageTypeOK'
  BY DEF StorageInv, StorageTypeOK, storageVars
<1>2. QED
  BY <1>1, OthersMove DEF storageVars

\* The variables of storage keep their types.
THEOREM StorageIsTyped == StorageSpec => []StorageTypeOK
<1>1. StorageInit => StorageInv /\ Calm
  BY StorageStarts
<1>2. StorageInv /\ Calm /\ [StorageNext]_storageVars => (StorageInv /\ Calm)'
  BY StorageKeeps, StorageStays
<1>3. StorageInv => StorageTypeOK
  BY DEF StorageInv
<1>4. QED
  BY <1>1, <1>2, <1>3, PTL DEF StorageSpec
-----------------------------------------------------------------------------
(* The capacity. *)

\* A step that registers no file: all steps but the rewrite of the metadata.
KeptStays == \A u \in Uploads : upload'[u].kept => upload[u].kept

LEMMA OnlyStoresKeep ==
    ASSUME StorageInv, StorageNext, \A p \in Processes : ~Store(p)
    PROVE  KeptStays
<1>1. \A u \in Uploads : upload[u] \in Upload /\ upload \in [Uploads -> Upload]
  BY DEF StorageInv, StorageTypeOK
<1>2. ASSUME NEW u \in Uploads, NEW t, NEW kind, NEW step, NEW cap,
             BeginUpload(u, t, kind, step, cap)
      PROVE  KeptStays
  BY <1>1, <1>2 DEF BeginUpload, KeptStays, NoUpload
<1>3. ASSUME NEW u \in Uploads, End(u) PROVE KeptStays
  <2>1. Ended(upload[u]).kept = upload[u].kept
    BY <1>1, EndedIsTyped
  <2>2. QED
    BY <1>1, <1>3, <2>1 DEF End, KeptStays
<1>4. ASSUME NEW u \in Uploads, NEW step, Go(u, step) PROVE KeptStays
  BY <1>1, <1>4 DEF Go, KeptStays, Upload
<1>5. ASSUME UNCHANGED upload PROVE KeptStays
  BY <1>5 DEF KeptStays
<1>6. CASE BeginLibraryUpload \/ BeginProofUpload
  BY <1>2, <1>6 DEF BeginLibraryUpload, BeginProofUpload
<1>7. ASSUME NEW u \in Uploads, ReadUsage(u) PROVE KeptStays
  BY <1>1, <1>7 DEF ReadUsage, KeptStays, Upload
<1>8. ASSUME NEW u \in Uploads,
             ReportUsage(u) \/ Busy(u) \/ ReserveFails(u) \/ Check(u) \/ Register(u) \/ Abandon(u)
      PROVE  KeptStays
  BY <1>3, <1>4, <1>8 DEF ReportUsage, Busy, ReserveFails, Check, Register, Abandon
<1>9. ASSUME NEW u \in Uploads, Release(u) PROVE KeptStays
  BY <1>1, <1>3, <1>9 DEF Release, KeptStays, Upload
<1>10. ASSUME NEW u \in Uploads, NEW p \in Processes, Reserve(u, p) PROVE KeptStays
  BY <1>1, <1>10 DEF Reserve, KeptStays, Upload
<1>11. ASSUME NEW u \in Uploads, NEW p \in Processes, PutContent(u, p) PROVE KeptStays
  BY <1>1, <1>3, <1>11 DEF PutContent, KeptStays, Upload
<1>12. ASSUME NEW u \in Uploads, NEW p \in Processes, Archive(u, p) PROVE KeptStays
  BY <1>5, <1>12 DEF Archive
<1>13. ASSUME NEW p \in Processes, Stop(p) PROVE KeptStays
  BY <1>1, <1>13, EndedIsTyped DEF Stop, KeptStays
<1>14. ASSUME NEW t \in Tenants, LeaseExpires(t) \/ ChangeLimit(t) \/ SetStatus(t)
       PROVE  KeptStays
  BY <1>5, <1>14 DEF LeaseExpires, ChangeLimit, SetStatus
<1>15. QED
  BY <1>6, <1>7, <1>8, <1>9, <1>10, <1>11, <1>12, <1>13, <1>14 DEF StorageNext

\* What CapacityIsRespected asks of a step.
Respects ==
    \A u \in Uploads :
       (~upload[u].kept /\ upload'[u].kept /\ ~disturbed') =>
           LET k == upload'[u] IN k.limit = Unlimited \/ Used(file', k.tenant) =< k.limit

\* The file a rewrite registers is the first since the check found room for it.
LEMMA StoresRespect ==
    ASSUME StorageInv, Calm, NEW p \in Processes, Store(p) PROVE Respects
<1>1. PICK u \in Uploads : u = section[p].u
  BY DEF Store, StorageInv
<1>2. /\ \A w \in Uploads \ {u} : file'[w] = section[p].seen[w]
      /\ \A w \in Uploads \ {u} : upload'[w] = upload[w]
      /\ Served(p, "saving", u) =>
             upload'[u] = [upload[u] EXCEPT !.step = "release", !.kept = TRUE]
  BY <1>1, StoreChanges
<1> SUFFICES ASSUME NEW v \in Uploads, ~upload[v].kept, upload'[v].kept, ~disturbed'
             PROVE  upload'[v].limit = Unlimited
                    \/ Used(file', upload'[v].tenant) =< upload'[v].limit
  BY DEF Respects
<1>3. ~disturbed
  BY DEF Store
<1>4. section[p].seen = file /\ (Served(p, "saving", u) \/ upload[u].kept)
  BY <1>1, <1>3, StoreIsFresh
<1>5. v = u /\ Served(p, "saving", u)
  BY <1>2, <1>4
<1>6. upload[u] \in Upload /\ Room(u)
  BY <1>3 DEF StorageInv, StorageTypeOK, Calm
<1> DEFINE t == upload[u].tenant
           c == upload[u].limit
           n == Used(file, t)
           m == Used(file', t)
<1>7. upload'[v].tenant = t /\ upload'[v].limit = c
  BY <1>2, <1>5, <1>6 DEF Upload
<1>8. Fits(n, c)
  BY <1>5, <1>6 DEF Room, Served, At
<1>9. m =< n + 1 /\ n \in Nat /\ m \in Nat
  BY <1>2, <1>4, OneRecord, UsedIsNat
<1>10. c \in Nat \cup {Unlimited}
  BY <1>6, StorageAssumption DEF Upload
<1>11. c = Unlimited \/ m =< c
  <2> HIDE DEF n, m, c
  <2> QED BY <1>8, <1>9, <1>10 DEF Fits
<1>12. QED
  BY <1>7, <1>11

LEMMA StorageRespects ==
    ASSUME StorageInv, Calm, StorageNext PROVE Respects
<1>1. CASE \E p \in Processes : Store(p)
  BY <1>1, StoresRespect
<1>2. CASE ~ \E p \in Processes : Store(p)
  BY <1>2, OnlyStoresKeep DEF KeptStays, Respects
<1>3. QED
  BY <1>1, <1>2

\* No upload that a capacity bounds takes its tenant past it, whatever others upload,
\* archive or lose meanwhile, unless a lease expired under its holder or two processes
\* rewrote the metadata at once.
THEOREM CapacityHolds == StorageSpec => CapacityIsRespected
<1>1. StorageInit => StorageInv /\ Calm
  BY StorageStarts
<1>2. StorageInv /\ Calm /\ [StorageNext]_storageVars => (StorageInv /\ Calm)'
  BY StorageKeeps, StorageStays
<1>3. StorageInv /\ Calm /\ [StorageNext]_storageVars => [Respects]_storageVars
  BY StorageRespects
<1>4. StorageSpec => [][Respects]_storageVars
  BY <1>1, <1>2, <1>3, PTL DEF StorageSpec
<1>5. QED
  BY <1>4 DEF CapacityIsRespected, Respects
-----------------------------------------------------------------------------
(* What storage does to the uploads and files that jobs rely on. *)

\* An upload a job waits for goes on, ends without its file, or is written with it.
Derived(u) ==
    LET k == upload[u] l == upload'[u] IN
    /\ k.step \in {"written", "closed", "refused"} => l = k
    /\ (k.step \in Moving /\ k.kind = "derived") =>
          \/ l.step \in Moving /\ l.tenant = k.tenant /\ l.kind = "derived"
          \/ l.step \in {"closed", "refused"}
          \/ /\ l.step = "written"
             /\ ~disturbed => file'[u].content /\ file'[u].tenant = k.tenant

\* A file stays, with its tenant, and keeps the content it has.
FilesStay ==
    /\ disturbed => disturbed'
    /\ ~disturbed => \A u \in Uploads : file[u].status # "none" =>
          /\ file'[u].status # "none" /\ file'[u].tenant = file[u].tenant
          /\ file[u].content => file'[u].content

LEMMA FilesAreSafe ==
    ASSUME StorageInv, Calm, StorageNext PROVE FilesStay
<1>1. CASE UNCHANGED file
  <2>1. disturbed => disturbed'
    BY DEF StorageNext, BeginLibraryUpload, BeginProofUpload, ReadUsage, ReportUsage, Busy,
           ReserveFails, Check, Register, Release, Abandon, Reserve, PutContent, Archive, Store,
           Stop, LeaseExpires, ChangeLimit, SetStatus, Open
  <2>2. QED
    BY <1>1, <2>1 DEF FilesStay
<1>2. ASSUME NEW p \in Processes, Store(p) PROVE FilesStay
  <2>1. PICK u \in Uploads : u = section[p].u
    BY <1>2 DEF Store, StorageInv
  <2>2. UNCHANGED disturbed
    BY <1>2 DEF Store
  <2>3. /\ file'[u] = section[p].record
        /\ \A v \in Uploads \ {u} : file'[v] = section[p].seen[v]
    BY <1>2, <2>1, StoreChanges
  <2>4. ~disturbed =>
          /\ section[p].seen = file
          /\ file[u] = NoFile \/ section[p].record \in {Filled(file[u]), Shelved(file[u])}
    BY <1>2, <2>1, StoreIsFresh
  <2>5. file[u] \in File
    BY DEF StorageInv, StorageTypeOK
  <2>6. ~disturbed /\ file[u].status # "none" =>
          /\ file'[u].status # "none" /\ file'[u].tenant = file[u].tenant
          /\ file[u].content => file'[u].content
    BY <2>3, <2>4, <2>5 DEF Filled, Shelved, File, NoFile
  <2>7. QED
    BY <2>2, <2>3, <2>4, <2>6 DEF FilesStay
<1>3. QED
  BY <1>1, <1>2
  DEF StorageNext, BeginLibraryUpload, BeginProofUpload, ReadUsage, ReportUsage, Busy,
      ReserveFails, Check, Register, Release, Abandon, Reserve, PutContent, Archive, Stop,
      LeaseExpires, ChangeLimit, SetStatus

\* An upload that moves on by itself.
LEMMA MovesFollow ==
    ASSUME StorageInv, NEW u \in Uploads, NEW l \in Upload, upload' = [upload EXCEPT ![u] = l],
           upload[u].step \notin {"written", "closed", "refused"},
           upload[u].kind = "derived" =>
              \/ l.step \in Moving /\ l.tenant = upload[u].tenant /\ l.kind = "derived"
              \/ l.step \in {"closed", "refused"}
              \/ upload[u].step = "idle"
    PROVE  \A v \in Uploads : Derived(v)
<1>1. upload \in [Uploads -> Upload] /\ \A v \in Uploads : upload[v] \in Upload
  BY DEF StorageInv, StorageTypeOK
<1>2. ASSUME NEW v \in Uploads PROVE Derived(v)
  <2>1. CASE v = u
    BY <1>1, <2>1 DEF Derived, Moving
  <2>2. CASE v # u
    BY <1>1, <2>2 DEF Derived, Moving
  <2>3. QED
    BY <2>1, <2>2
<1>3. QED
  BY <1>2

LEMMA EndsFollow ==
    ASSUME StorageInv, NEW u \in Uploads, End(u),
           upload[u].step \notin {"written", "closed", "refused"}
    PROVE  \A v \in Uploads : Derived(v)
<1>1. upload[u] \in Upload
  BY DEF StorageInv, StorageTypeOK
<1>2. /\ Ended(upload[u]) \in Upload
      /\ upload[u].kind = "derived" => Ended(upload[u]).step \in {"closed", "refused"}
  BY <1>1, EndedIsTyped
<1>3. PICK l \in Upload : l = Ended(upload[u])
  BY <1>2
<1>4. upload' = [upload EXCEPT ![u] = l]
  BY <1>3 DEF End
<1>5. QED
  BY <1>2, <1>3, <1>4, MovesFollow

LEMMA StoresFollow ==
    ASSUME StorageInv, Calm, NEW p \in Processes, Store(p)
    PROVE  \A v \in Uploads : Derived(v)
<1>1. PICK u \in Uploads : u = section[p].u
  BY DEF Store, StorageInv
<1>2. /\ file'[u] = section[p].record
      /\ \A v \in Uploads \ {u} : upload'[v] = upload[v]
      /\ Served(p, "saving", u) =>
             upload'[u] = [upload[u] EXCEPT !.step = "release", !.kept = TRUE]
      /\ Served(p, "writing", u) => upload'[u] = Written(upload[u])
      /\ ~Served(p, "saving", u) /\ ~Served(p, "writing", u) => upload'[u] = upload[u]
  BY <1>1, StoreChanges
<1>3. upload[u] \in Upload /\ Shape(upload[u]) /\ file[u] \in File
  BY DEF StorageInv, StorageTypeOK
<1>4. Derived(u)
  <2>1. CASE Served(p, "saving", u)
    BY <1>2, <1>3, <2>1 DEF Served, At, Derived, Upload, Moving
  <2>2. CASE Served(p, "writing", u)
    <3>1. upload'[u].step = IF upload[u].kind = "derived" THEN "written" ELSE "closed"
      BY <1>2, <1>3, <2>2, WrittenIsTyped DEF Served, At
    <3>2. ~disturbed => section[p].record = Filled(file[u]) /\ FileOf(u)
      BY <1>1, <2>2, StoreIsFresh DEF Served, At, Calm
    <3>3. ~disturbed => file'[u].content /\ file'[u].tenant = upload[u].tenant
      <4>1. upload[u].step = "writing" /\ upload[u].kept
        BY <1>3, <2>2 DEF Served, At, Shape
      <4>2. QED
        BY <1>2, <1>3, <3>2, <4>1 DEF FileOf, Filled, File, Moving
    <3>4. QED
      BY <2>2, <3>1, <3>3 DEF Derived, Served, At
  <2>3. CASE ~Served(p, "saving", u) /\ ~Served(p, "writing", u)
    BY <1>2, <2>3 DEF Derived
  <2>4. QED
    BY <2>1, <2>2, <2>3
<1>5. ASSUME NEW v \in Uploads \ {u} PROVE Derived(v)
  BY <1>2 DEF Derived
<1>6. QED
  BY <1>4, <1>5

LEMMA StopsFollow ==
    ASSUME StorageInv, NEW p \in Processes, Stop(p)
    PROVE  \A v \in Uploads : Derived(v)
<1> SUFFICES ASSUME NEW v \in Uploads PROVE Derived(v)
  OBVIOUS
<1>1. upload[v] \in Upload /\ Shape(upload[v])
  BY DEF StorageInv, StorageTypeOK
<1>2. CASE upload[v].process = p
  <2>1. upload'[v] = Ended(upload[v]) /\ upload[v].step \in Hosted
    BY <1>1, <1>2 DEF Stop, Shape
  <2>2. upload[v].kind = "derived" => upload'[v].step \in {"closed", "refused"}
    BY <1>1, <2>1, EndedIsTyped
  <2>3. QED
    BY <2>1, <2>2 DEF Derived, Hosted
<1>3. CASE upload[v].process # p
  <2>1. upload'[v] = upload[v]
    BY <1>3 DEF Stop
  <2>2. QED
    BY <2>1 DEF Derived
<1>4. QED
  BY <1>2, <1>3

LEMMA UploadsFollow ==
    ASSUME StorageInv, Calm, StorageNext PROVE \A v \in Uploads : Derived(v)
<1>1. \A u \in Uploads : upload[u] \in Upload /\ Shape(upload[u])
  BY DEF StorageInv, StorageTypeOK
<1>2. upload \in [Uploads -> Upload]
  BY DEF StorageInv, StorageTypeOK
<1>3. ASSUME UNCHANGED upload PROVE \A v \in Uploads : Derived(v)
  BY <1>3 DEF Derived
<1>4. ASSUME NEW u \in Uploads, NEW step \in Moving, upload[u].step \in Moving, Go(u, step)
      PROVE  \A v \in Uploads : Derived(v)
  <2> DEFINE l == [upload[u] EXCEPT !.step = step]
  <2>1. l \in Upload /\ l.step = step /\ l.tenant = upload[u].tenant /\ l.kind = upload[u].kind
    BY <1>1 DEF Upload, Moving
  <2>2. upload' = [upload EXCEPT ![u] = l]
    BY <1>2, <1>4 DEF Go
  <2> HIDE DEF l
  <2>3. QED
    BY <1>4, <2>1, <2>2, MovesFollow DEF Moving
<1>5. CASE BeginLibraryUpload \/ BeginProofUpload
  <2>1. PICK u \in Uploads : \E t, kind, step, cap : BeginUpload(u, t, kind, step, cap)
    BY <1>5 DEF BeginLibraryUpload, BeginProofUpload
  <2>2. upload[u] = NoUpload /\ \A v \in Uploads \ {u} : upload'[v] = upload[v]
    BY <1>2, <2>1 DEF BeginUpload
  <2>3. QED
    BY <2>2 DEF Derived, NoUpload, Moving
<1>6. ASSUME NEW u \in Uploads, ReadUsage(u) PROVE \A v \in Uploads : Derived(v)
  <2>1. \A v \in Uploads \ {u} : upload'[v] = upload[v]
    BY <1>2, <1>6 DEF ReadUsage
  <2>2. upload'[u].step = "row" /\ upload'[u].tenant = upload[u].tenant
        /\ upload'[u].kind = upload[u].kind /\ upload[u].step = "usage"
    BY <1>1, <1>2, <1>6 DEF ReadUsage, At, Upload
  <2>3. QED
    BY <2>1, <2>2 DEF Derived, Moving
<1>7. ASSUME NEW u \in Uploads,
             ReportUsage(u) \/ Busy(u) \/ ReserveFails(u) \/ Check(u) \/ Register(u) \/ Abandon(u)
      PROVE  \A v \in Uploads : Derived(v)
  <2>1. upload[u].step \in Moving /\ (End(u) \/ \E step \in Moving : Go(u, step))
    BY <1>7 DEF ReportUsage, Busy, ReserveFails, Check, Register, Abandon, At, Moving
  <2>2. QED
    BY <1>4, <2>1, EndsFollow DEF Moving
<1>8. ASSUME NEW u \in Uploads, Release(u) PROVE \A v \in Uploads : Derived(v)
  <2>1. CASE upload[u].kept
    <3>1. \A v \in Uploads \ {u} : upload'[v] = upload[v]
      BY <1>2, <1>8, <2>1 DEF Release
    <3>2. upload'[u].step = "content" /\ upload'[u].tenant = upload[u].tenant
          /\ upload'[u].kind = upload[u].kind /\ upload[u].step = "release"
      BY <1>1, <1>2, <1>8, <2>1 DEF Release, At, Upload
    <3>3. QED
      BY <3>1, <3>2 DEF Derived, Moving
  <2>2. CASE ~upload[u].kept
    BY <1>8, <2>2, EndsFollow DEF Release, At
  <2>3. QED
    BY <2>1, <2>2
<1>9. ASSUME NEW u \in Uploads, NEW p \in Processes, Reserve(u, p)
      PROVE  \A v \in Uploads : Derived(v)
  <2>1. \A v \in Uploads \ {u} : upload'[v] = upload[v]
    BY <1>2, <1>9 DEF Reserve
  <2>2. upload'[u].step = "check" /\ upload'[u].tenant = upload[u].tenant
        /\ upload'[u].kind = upload[u].kind /\ upload[u].step = "post"
    BY <1>1, <1>2, <1>9 DEF Reserve, At, Upload
  <2>3. QED
    BY <2>1, <2>2 DEF Derived, Moving
<1>10. ASSUME NEW u \in Uploads, NEW p \in Processes, PutContent(u, p)
       PROVE  \A v \in Uploads : Derived(v)
  <2>1. CASE Registered(file[u])
    <3>1. \A v \in Uploads \ {u} : upload'[v] = upload[v]
      BY <1>2, <1>10, <2>1 DEF PutContent
    <3>2. upload'[u].step = "writing" /\ upload'[u].tenant = upload[u].tenant
          /\ upload'[u].kind = upload[u].kind /\ upload[u].step = "content"
      BY <1>1, <1>2, <1>10, <2>1 DEF PutContent, At, Upload
    <3>3. QED
      BY <3>1, <3>2 DEF Derived, Moving
  <2>2. CASE ~Registered(file[u])
    BY <1>10, <2>2, EndsFollow DEF PutContent, At
  <2>3. QED
    BY <2>1, <2>2
<1>11. ASSUME NEW p \in Processes, Store(p) PROVE \A v \in Uploads : Derived(v)
  BY <1>11, StoresFollow
<1>12. ASSUME NEW p \in Processes, Stop(p) PROVE \A v \in Uploads : Derived(v)
  BY <1>12, StopsFollow
<1>13. QED
  BY <1>3, <1>5, <1>6, <1>7, <1>8, <1>9, <1>10, <1>11, <1>12
  DEF StorageNext, Archive, LeaseExpires, ChangeLimit, SetStatus
-----------------------------------------------------------------------------
(* The jobs. *)

\* A record's output is there once it is completed: the placeholder, which takes its mode,
\* or a file that exists, is the record's tenant's and has its content.
Output(rec) ==
    /\ (rec.status = "completed" /\ rec.derives) => rec.output # 0
    /\ rec.output = Placeholder => \E s \in Settings : ~s.images
    /\ rec.output \notin {0, Placeholder} =>
          LET f == file[rec.output] IN f.status # "none" /\ f.content /\ f.tenant = rec.tenant

\* The upload a run waits for is its own, goes on as it asked for, and has the content
\* once it is written.
Deriving(r) ==
    LET u == run[r].u k == upload[u] IN
    /\ u \in Uploads
    /\ \A s \in Runs : run[s].u = u => s = r
    /\ k.step # "idle"
    /\ k.step \in Moving => k.tenant = run[r].copy.tenant /\ k.kind = "derived"
    /\ (k.step = "written" /\ ~disturbed) =>
           file[u].content /\ file[u].tenant = run[r].copy.tenant

Watched == \A r \in Runs : IF run[r].step = "upload" THEN Deriving(r) ELSE run[r].u = 0

Outputs ==
    ~disturbed => (\A j \in Jobs : Output(job[j])) /\ (\A r \in Runs : Output(run[r].copy))

JobsTyped ==
    /\ job \in [Jobs -> Job] /\ run \in [Runs -> Run]
    /\ requests \in 0..MaxRequests /\ settings \in Settings /\ crashes \in 0..MaxCrashes
    /\ overlapped \subseteq Jobs
    /\ \A j \in Jobs : job[j].status # "absent" => job[j].source \in Uploads
    /\ \A r \in Runs : run[r].step # "idle" => run[r].copy.source \in Uploads

MediaInv == StorageInv /\ Calm /\ JobsTyped /\ Watched /\ Outputs

\* Idle records have the types of records.
LEMMA NoWorkIsTyped == NoJob \in Job /\ NoRun \in Run
<1>1. NoJob \in Job
  BY DEF NoJob, Job
<1>2. NoRun \in Run
  BY <1>1 DEF NoRun, Run
<1>3. QED
  BY <1>1, <1>2

\* The placeholder is no file's number, nor is the number of no file.
LEMMA PlaceholderIsNoFile == Placeholder # 0 /\ Placeholder \notin Uploads /\ 0 \notin Uploads
BY StorageAssumption DEF Placeholder, Uploads

LEMMA MediaStarts == Init => MediaInv
<1> SUFFICES ASSUME Init PROVE MediaInv
  OBVIOUS
<1>1. StorageInv /\ Calm
  BY StorageStarts DEF Init
<1>2. \A r \in Runs : run[r] = NoRun
  BY DEF Init
<1>3. \A j \in Jobs : job[j] = NoJob
  BY DEF Init
<1>4. JobsTyped
  <2>1. job \in [Jobs -> Job] /\ run \in [Runs -> Run]
    BY NoWorkIsTyped DEF Init
  <2>2. \A j \in Jobs : job[j].status = "absent"
    BY <1>3 DEF NoJob
  <2>3. \A r \in Runs : run[r].step = "idle"
    BY <1>2 DEF NoRun
  <2>4. /\ requests \in 0..MaxRequests /\ settings \in Settings
        /\ crashes \in 0..MaxCrashes /\ overlapped \subseteq Jobs
    BY MediaAssumption DEF Init
  <2>5. QED
    BY <2>1, <2>2, <2>3, <2>4 DEF JobsTyped
<1>5. Watched
  BY <1>2 DEF Watched, NoRun
<1>6. Outputs
  BY <1>2, <1>3, PlaceholderIsNoFile DEF Outputs, Output, NoRun, NoJob
<1>7. QED
  BY <1>1, <1>4, <1>5, <1>6 DEF MediaInv

\* Uploads exist once they were kept: a written upload has its file.
LEMMA WrittenIsThere ==
    ASSUME StorageInv, Calm, ~disturbed, NEW u \in Uploads, upload[u].step = "written"
    PROVE  file[u].status # "none"
BY DEF StorageInv, Calm, FileOf, Shape

\* Storage goes on while jobs wait for it.
LEMMA StorageServes ==
    ASSUME MediaInv, StorageNext, UNCHANGED mediaVars PROVE MediaInv'
<1>1. StorageInv' /\ Calm'
  BY StorageKeeps DEF MediaInv
<1>2. FilesStay /\ \A v \in Uploads : Derived(v)
  BY FilesAreSafe, UploadsFollow DEF MediaInv
<1>3. UNCHANGED <<job, run, requests, settings, crashes, overlapped>>
  BY DEF mediaVars
<1>4. JobsTyped'
  BY <1>3 DEF MediaInv, JobsTyped
<1>5. ASSUME NEW r \in Runs, run[r].step = "upload" PROVE Deriving(r)'
  <2> DEFINE u == run[r].u
  <2>1. Deriving(r) /\ u \in Uploads
    BY <1>5 DEF MediaInv, Watched, Deriving
  <2>2. Derived(u) /\ run' = run /\ Shape(upload[u])
    BY <1>2, <1>3, <2>1 DEF MediaInv, StorageInv
  <2>3. (upload[u].step = "written" /\ ~disturbed) => file[u].status # "none"
    BY <2>1, WrittenIsThere DEF MediaInv
  <2>4. upload[u] \in Upload
    BY <2>1 DEF MediaInv, StorageInv, StorageTypeOK
  <2>5. upload[u].step \in Moving \cup {"written", "closed", "refused"}
    BY <2>1, <2>4 DEF Deriving, Upload, Moving
  <2>6. CASE upload[u].step \in {"written", "closed", "refused"}
    <3>1. upload'[u] = upload[u]
      BY <2>2, <2>6 DEF Derived
    <3>2. (upload[u].step = "written" /\ ~disturbed') =>
              file'[u].content /\ file'[u].tenant = run[r].copy.tenant
      BY <1>2, <2>1, <2>3 DEF FilesStay, Deriving
    <3>3. QED
      BY <2>1, <2>2, <2>6, <3>1, <3>2 DEF Deriving, Moving
  <2>7. CASE upload[u].step \in Moving
    <3>1. upload[u].tenant = run[r].copy.tenant /\ upload[u].kind = "derived"
      BY <2>1, <2>7 DEF Deriving
    <3>2. \/ upload'[u].step \in Moving /\ upload'[u].tenant = run[r].copy.tenant
             /\ upload'[u].kind = "derived"
          \/ upload'[u].step \in {"closed", "refused"}
          \/ /\ upload'[u].step = "written"
             /\ ~disturbed => file'[u].content /\ file'[u].tenant = run[r].copy.tenant
      BY <2>2, <2>7, <3>1 DEF Derived
    <3>3. disturbed => disturbed'
      BY <1>2 DEF FilesStay
    <3>4. QED
      BY <2>1, <2>2, <3>2, <3>3 DEF Deriving, Moving
  <2>8. QED
    BY <2>5, <2>6, <2>7
<1>6. Watched'
  BY <1>3, <1>5 DEF MediaInv, Watched
<1>7. ASSUME NEW rec \in Job, Output(rec), ~disturbed PROVE Output(rec)'
  <2>1. rec.output \in Uploads \cup {0, Placeholder}
    BY <1>7 DEF Job
  <2>2. QED
    BY <1>2, <1>7, <2>1 DEF FilesStay, Output
<1>8. Outputs'
  <2>1. \A j \in Jobs : job[j] \in Job
    BY DEF MediaInv, JobsTyped
  <2>2. \A r \in Runs : run[r].copy \in Job
    BY DEF MediaInv, JobsTyped, Run
  <2>3. disturbed => disturbed'
    BY <1>2 DEF FilesStay
  <2>4. ASSUME ~disturbed' PROVE (\A j \in Jobs : Output(job[j])') /\ (\A r \in Runs : Output(run[r].copy)')
    <3>1. ~disturbed /\ (\A j \in Jobs : Output(job[j])) /\ (\A r \in Runs : Output(run[r].copy))
      BY <2>3, <2>4 DEF MediaInv, Outputs
    <3>2. ASSUME NEW j \in Jobs PROVE Output(job[j])'
      <4>1. PICK rec \in Job : rec = job[j]
        BY <2>1
      <4>2. Output(rec)'
        BY <1>7, <3>1, <4>1
      <4>3. QED
        BY <1>3, <4>1, <4>2 DEF Output
    <3>3. ASSUME NEW r \in Runs PROVE Output(run[r].copy)'
      <4>1. PICK rec \in Job : rec = run[r].copy
        BY <2>2
      <4>2. Output(rec)'
        BY <1>7, <3>1, <4>1
      <4>3. QED
        BY <1>3, <4>1, <4>2 DEF Output
    <3>4. QED
      BY <3>2, <3>3
  <2>5. QED
    BY <2>4 DEF Outputs
<1>9. QED
  BY <1>1, <1>4, <1>6, <1>8 DEF MediaInv

\* A step of the jobs that asks nothing of storage.
LEMMA RunsMove ==
    ASSUME MediaInv, UNCHANGED storageVars, JobsTyped',
           \A s \in Runs : run'[s] = run[s] \/ (run'[s].step # "upload" /\ run'[s].u = 0),
           ~disturbed => /\ \A j \in Jobs : Output(job'[j])
                         /\ \A s \in Runs : Output(run'[s].copy)
    PROVE  MediaInv'
<1>1. StorageInv' /\ Calm'
  BY StorageStays DEF MediaInv
<1>2. UNCHANGED <<file, upload, disturbed>>
  BY DEF storageVars
<1>3. ASSUME NEW r \in Runs
      PROVE  IF run'[r].step = "upload" THEN Deriving(r)' ELSE run'[r].u = 0
  <2>1. CASE run'[r] = run[r]
    <3>1. IF run[r].step = "upload" THEN Deriving(r) ELSE run[r].u = 0
      BY DEF MediaInv, Watched
    <3>2. ASSUME run[r].step = "upload" PROVE Deriving(r)'
      <4>1. Deriving(r)
        BY <3>1, <3>2
      <4>2. run[r].u # 0
        BY <4>1 DEF Deriving, Uploads
      <4>3. \A s \in Runs : run'[s].u = run[r].u => s = r
        BY <4>1, <4>2 DEF Deriving
      <4>4. QED
        BY <1>2, <2>1, <4>1, <4>3 DEF Deriving
    <3>3. QED
      BY <2>1, <3>1, <3>2
  <2>2. CASE run'[r].step # "upload" /\ run'[r].u = 0
    BY <2>2
  <2>3. QED
    BY <2>1, <2>2
<1>4. Watched'
  BY <1>3 DEF Watched
<1>5. Outputs'
  BY <1>2 DEF Outputs, Output
<1>6. QED
  BY <1>1, <1>4, <1>5 DEF MediaInv

\* The step of one run, which is k from now on and saves rec for job j.
LEMMA OneRunMoves ==
    ASSUME MediaInv, UNCHANGED <<file, disturbed, settings, crashes>>, NEW r \in Runs, NEW k \in Run,
           NEW j, NEW rec \in Job, run' = [run EXCEPT ![r] = k], job' = [job EXCEPT ![j] = rec],
           requests' \in 0..MaxRequests, overlapped' \subseteq Jobs,
           rec.source \in Uploads, k.step # "idle" => k.copy.source \in Uploads,
           ~disturbed => Output(rec) /\ Output(k.copy)
    PROVE  /\ JobsTyped'
           /\ run'[r] = k /\ \A s \in Runs \ {r} : run'[s] = run[s]
           /\ ~disturbed => /\ \A i \in Jobs : Output(job'[i])
                            /\ \A s \in Runs : Output(run'[s].copy)
<1>1. job \in [Jobs -> Job] /\ run \in [Runs -> Run] /\ JobsTyped
  BY DEF MediaInv, JobsTyped
<1>2. run'[r] = k /\ \A s \in Runs \ {r} : run'[s] = run[s]
  BY <1>1
<1>3. \A i \in Jobs : job'[i] = job[i] \/ job'[i] = rec
  BY <1>1
<1>4. job' \in [Jobs -> Job] /\ run' \in [Runs -> Run]
  BY <1>1
<1>5. JobsTyped'
  BY <1>1, <1>2, <1>3, <1>4 DEF JobsTyped
<1>6. ~disturbed => (\A i \in Jobs : Output(job[i])) /\ (\A s \in Runs : Output(run[s].copy))
  BY DEF MediaInv, Outputs
<1>7. ~disturbed => \A i \in Jobs : Output(job'[i])
  BY <1>3, <1>6
<1>8. ~disturbed => \A s \in Runs : Output(run'[s].copy)
  BY <1>2, <1>6
<1>9. QED
  BY <1>2, <1>5, <1>7, <1>8

\* The same for a run that waits for no upload then.
LEMMA SavesKeep ==
    ASSUME MediaInv, UNCHANGED <<storageVars, settings, crashes>>, NEW r \in Runs, NEW k \in Run,
           NEW j, NEW rec \in Job, run' = [run EXCEPT ![r] = k], job' = [job EXCEPT ![j] = rec],
           requests' \in 0..MaxRequests, overlapped' \subseteq Jobs,
           rec.source \in Uploads, k.step # "idle" => k.copy.source \in Uploads,
           ~disturbed => Output(rec) /\ Output(k.copy),
           k.step # "upload", k.u = 0
    PROVE  MediaInv'
<1>1. UNCHANGED <<file, disturbed, settings, crashes>>
  BY DEF storageVars
<1>2. /\ JobsTyped'
      /\ run'[r] = k /\ \A s \in Runs \ {r} : run'[s] = run[s]
      /\ ~disturbed => /\ \A i \in Jobs : Output(job'[i])
                       /\ \A s \in Runs : Output(run'[s].copy)
  BY <1>1, OneRunMoves
<1>3. QED
  BY <1>2, RunsMove

LEMMA CreateJobKeeps == ASSUME MediaInv, CreateJob PROVE MediaInv'
<1>1. PICK j \in Jobs, u \in Uploads, t \in Tenants, d \in BOOLEAN :
         Save(j, [NoJob EXCEPT !.status = "queued", !.derives = d, !.source = u, !.tenant = t])
  BY DEF CreateJob
<1> DEFINE rec == [NoJob EXCEPT !.status = "queued", !.derives = d, !.source = u, !.tenant = t]
<1>2. rec \in Job /\ rec.output = 0 /\ rec.source \in Uploads /\ rec.status = "queued"
  BY NoWorkIsTyped DEF Job, NoJob
<1>3. job' = [job EXCEPT ![j] = rec]
  BY <1>1 DEF Save
<1> HIDE DEF rec
<1>4. UNCHANGED <<storageVars, run, requests, settings, crashes, overlapped>>
  BY DEF CreateJob
<1>5. job \in [Jobs -> Job] /\ JobsTyped
  BY DEF MediaInv, JobsTyped
<1>6. JobsTyped'
  BY <1>2, <1>3, <1>4, <1>5 DEF JobsTyped
<1>7. ~disturbed => (\A i \in Jobs : Output(job'[i])) /\ (\A s \in Runs : Output(run'[s].copy))
  <2>1. job'[j] = rec /\ \A i \in Jobs \ {j} : job'[i] = job[i]
    BY <1>3, <1>5
  <2>2. Output(rec)
    BY <1>2, PlaceholderIsNoFile DEF Output
  <2>3. QED
    BY <1>4, <2>1, <2>2 DEF MediaInv, Outputs
<1>8. QED
  BY <1>4, <1>6, <1>7, RunsMove

LEMMA RetryDueKeeps == ASSUME MediaInv, NEW j \in Jobs, RetryDue(j) PROVE MediaInv'
<1> DEFINE rec == [job[j] EXCEPT !.waiting = FALSE]
<1>1. job \in [Jobs -> Job] /\ job[j] \in Job /\ JobsTyped
  BY DEF MediaInv, JobsTyped
<1>2. rec \in Job /\ rec.output = job[j].output /\ rec.tenant = job[j].tenant
      /\ rec.status = job[j].status /\ rec.source = job[j].source /\ rec.derives = job[j].derives
  BY <1>1 DEF Job
<1>3. job' = [job EXCEPT ![j] = rec]
  BY DEF RetryDue, Save
<1> HIDE DEF rec
<1>4. UNCHANGED <<storageVars, run, requests, settings, crashes, overlapped>>
  BY DEF RetryDue
<1>5. JobsTyped'
  BY <1>1, <1>2, <1>3, <1>4 DEF JobsTyped
<1>6. ~disturbed => (\A i \in Jobs : Output(job'[i])) /\ (\A s \in Runs : Output(run'[s].copy))
  <2>1. job'[j] = rec /\ \A i \in Jobs \ {j} : job'[i] = job[i]
    BY <1>1, <1>3
  <2>2. Output(job[j]) => Output(rec)
    BY <1>2 DEF Output
  <2>3. QED
    BY <1>4, <2>1, <2>2 DEF MediaInv, Outputs
<1>7. QED
  BY <1>4, <1>5, <1>6, RunsMove

\* A run that begins takes the job's record along.
LEMMA StartKeeps ==
    ASSUME MediaInv, NEW r \in Runs, NEW j \in Jobs, Start(r, j), job[j].status # "absent",
           requests' \in 0..MaxRequests
    PROVE  MediaInv'
<1> DEFINE copy == [job[j] EXCEPT !.status = "processing", !.attempts = @ + 1,
                                  !.waiting = FALSE]
           k == [step |-> "started", j |-> j, copy |-> copy, u |-> 0]
<1>1. job[j] \in Job /\ job[j].source \in Uploads
  BY DEF MediaInv, JobsTyped
<1>2. copy \in Job /\ copy.output = job[j].output /\ copy.tenant = job[j].tenant
      /\ copy.source = job[j].source /\ copy.status = "processing"
  <2>1. PICK old \in Job : old = job[j]
    BY <1>1
  <2>2. old.attempts + 1 \in Nat
    BY DEF Job
  <2>3. [old EXCEPT !.status = "processing", !.attempts = @ + 1, !.waiting = FALSE] \in Job
    BY <2>2 DEF Job
  <2>4. copy = [old EXCEPT !.status = "processing", !.attempts = @ + 1, !.waiting = FALSE]
    BY <2>1
  <2>5. copy.output = old.output /\ copy.tenant = old.tenant /\ copy.source = old.source
        /\ copy.status = "processing"
    BY <2>4 DEF Job
  <2>6. QED
    BY <2>1, <2>3, <2>4, <2>5
<1>3. run' = [run EXCEPT ![r] = k] /\ job' = [job EXCEPT ![j] = copy]
  BY DEF Start, Save
<1>4. UNCHANGED <<storageVars, settings, crashes>> /\ overlapped' \subseteq Jobs
  BY DEF Start, MediaInv, JobsTyped
<1> HIDE DEF copy
<1>5. k \in Run /\ k.step = "started" /\ k.u = 0 /\ k.copy = copy
  BY <1>2 DEF Run
<1>6. ~disturbed => Output(copy)
  BY <1>1, <1>2 DEF MediaInv, Outputs, Output
<1> HIDE DEF k
<1>7. QED
  BY <1>1, <1>2, <1>3, <1>4, <1>5, <1>6, SavesKeep

LEMMA StartsKeep ==
    ASSUME MediaInv, NEW j \in Jobs, DrainQueue(j) \/ \E r \in Requests : ProcessJob(r, j)
    PROVE  MediaInv'
<1>1. requests' \in 0..MaxRequests
  BY MediaAssumption DEF DrainQueue, ProcessJob, MediaInv, JobsTyped
<1>2. job[j].status # "absent" /\ \E r \in Runs : Start(r, j)
  BY DEF DrainQueue, ProcessJob, Due, Processable, Runs
<1>3. QED
  BY <1>1, <1>2, StartKeeps

\* What a run has at hand.
LEMMA RunsAreTyped ==
    ASSUME MediaInv, NEW r \in Runs, run[r].step # "idle"
    PROVE  /\ run[r] \in Run /\ run[r].copy \in Job /\ run[r].copy.source \in Uploads
           /\ requests \in 0..MaxRequests /\ overlapped \subseteq Jobs
           /\ ~disturbed => Output(run[r].copy)
BY DEF MediaInv, JobsTyped, Run, Outputs

LEMMA SaveCallbackKeeps ==
    ASSUME MediaInv, NEW r \in Runs, SaveCallback(r) PROVE MediaInv'
<1> DEFINE k == [run[r] EXCEPT !.step = "source"]
<1>1. run[r].step = "started" /\ run[r].u = 0
  BY DEF SaveCallback, Doing, MediaInv, Watched
<1>2. /\ run[r] \in Run /\ run[r].copy \in Job /\ run[r].copy.source \in Uploads
      /\ requests \in 0..MaxRequests /\ overlapped \subseteq Jobs
      /\ ~disturbed => Output(run[r].copy)
  BY <1>1, RunsAreTyped
<1>3. k \in Run /\ k.step = "source" /\ k.u = 0 /\ k.copy = run[r].copy
  BY <1>1, <1>2 DEF Run
<1>4. run' = [run EXCEPT ![r] = k] /\ job' = [job EXCEPT ![run[r].j] = run[r].copy]
      /\ UNCHANGED <<storageVars, requests, settings, crashes, overlapped>>
  BY DEF SaveCallback, Save, MediaInv, JobsTyped
<1> HIDE DEF k
<1>5. QED
  BY <1>2, <1>3, <1>4, SavesKeep

\* A run completes its job with a file that is there, without one, or with the
\* placeholder where the service may run in that mode.
LEMMA CompletesKeep ==
    ASSUME MediaInv, NEW r \in Runs, NEW u \in Uploads \cup {0, Placeholder}, Complete(r, u),
           run[r].copy.derives => u # 0, u = Placeholder => \E s \in Settings : ~s.images,
           run[r].step # "idle", UNCHANGED <<storageVars, requests, settings, crashes, overlapped>>,
           (u \in Uploads /\ ~disturbed) => /\ file[u].status # "none" /\ file[u].content
                                             /\ file[u].tenant = run[r].copy.tenant
    PROVE  MediaInv'
<1> DEFINE rec == [run[r].copy EXCEPT !.status = "completed", !.output = u]
           k == [run[r] EXCEPT !.step = "settled", !.copy = rec, !.u = 0]
<1>1. /\ run[r] \in Run /\ run[r].copy \in Job /\ run[r].copy.source \in Uploads
      /\ requests \in 0..MaxRequests /\ overlapped \subseteq Jobs
  BY RunsAreTyped
<1>2. rec \in Job /\ rec.output = u /\ rec.tenant = run[r].copy.tenant
      /\ rec.source = run[r].copy.source /\ rec.derives = run[r].copy.derives
  BY <1>1 DEF Job
<1>3. run' = [run EXCEPT ![r] = k] /\ job' = [job EXCEPT ![run[r].j] = rec]
  BY DEF Complete, Save, MediaInv, JobsTyped
<1> HIDE DEF rec
<1>4. k \in Run /\ k.step = "settled" /\ k.u = 0 /\ k.copy = rec
  BY <1>1, <1>2 DEF Run
<1>5. ~disturbed => Output(rec)
  BY <1>2 DEF Output
<1> HIDE DEF k
<1>6. QED
  BY <1>1, <1>2, <1>3, <1>4, <1>5, SavesKeep

LEMMA InspectKeeps == ASSUME MediaInv, NEW r \in Runs, Inspect(r) PROVE MediaInv'
BY PlaceholderIsNoFile, CompletesKeep DEF Inspect, Doing

LEMMA NamePlaceholderKeeps ==
    ASSUME MediaInv, NEW r \in Runs, NamePlaceholder(r) PROVE MediaInv'
<1>1. settings \in Settings /\ ~settings.images
  BY DEF NamePlaceholder, MediaInv, JobsTyped
<1>2. QED
  BY <1>1, PlaceholderIsNoFile, CompletesKeep DEF NamePlaceholder, Doing

LEMMA CompleteDerivedKeeps ==
    ASSUME MediaInv, NEW r \in Runs, CompleteDerived(r) PROVE MediaInv'
<1>1. run[r].step = "upload" /\ Deriving(r) /\ upload[run[r].u].step = "written"
  BY DEF CompleteDerived, Doing, Uploaded, At, MediaInv, Watched
<1>2. PICK u \in Uploads : u = run[r].u
  BY <1>1 DEF Deriving
<1>3. ~disturbed => file[u].status # "none"
  BY <1>1, <1>2, WrittenIsThere DEF MediaInv
<1>4. ~disturbed => file[u].content /\ file[u].tenant = run[r].copy.tenant
  BY <1>1, <1>2 DEF Deriving
<1>5. Complete(r, u) /\ UNCHANGED <<storageVars, requests, settings, crashes, overlapped>>
      /\ u # 0 /\ u # Placeholder
  BY <1>2, PlaceholderIsNoFile DEF CompleteDerived
<1>6. QED
  BY <1>1, <1>3, <1>4, <1>5, CompletesKeep

LEMMA FinishKeeps == ASSUME MediaInv, NEW r \in Runs, Finish(r) PROVE MediaInv'
<1>1. /\ run[r] \in Run /\ run[r].copy \in Job /\ run[r].copy.source \in Uploads
      /\ requests \in 0..MaxRequests /\ overlapped \subseteq Jobs
      /\ ~disturbed => Output(run[r].copy)
  BY RunsAreTyped DEF Finish, Doing
<1>2. NoRun \in Run /\ NoRun.step = "idle" /\ NoRun.u = 0 /\ Output(NoRun.copy)
  BY NoWorkIsTyped, PlaceholderIsNoFile DEF NoRun, NoJob, Output
<1>3. run' = [run EXCEPT ![r] = NoRun] /\ job' = [job EXCEPT ![run[r].j] = run[r].copy]
      /\ UNCHANGED <<storageVars, requests, settings, crashes, overlapped>>
  BY DEF Finish, Save
<1>4. QED
  BY <1>1, <1>2, <1>3, SavesKeep

\* A file that can be read is some tenant's.
LEMMA DeriveKeeps == ASSUME MediaInv, NEW r \in Runs, Derive(r) PROVE MediaInv'
<1>1. run[r].step = "source" /\ run[r].u = 0 /\ run[r].copy.source \in Uploads
      /\ run \in [Runs -> Run] /\ run[r] \in Run
  BY DEF Derive, Doing, MediaInv, Watched, JobsTyped
<1>2. PICK t \in Tenants : t = run[r].copy.tenant
  BY <1>1 DEF Derive, Readable, Registered, MediaInv, StorageInv, Owned
<1>3. PICK u \in Uploads : /\ BeginUpload(u, t, "derived", "post", Unlimited)
                           /\ run' = [run EXCEPT ![r].step = "upload", ![r].u = u]
  BY <1>2 DEF Derive
<1>4. UNCHANGED <<file, section, lease, limit, tenant, stops, disturbed>>
      /\ UNCHANGED <<job, requests, settings, crashes, overlapped>>
  BY DEF Derive
<1>5. StorageInv' /\ Calm'
  <2>1. Unlimited \in Limits \cup {Unlimited} /\ "derived" \in Kinds
    BY DEF Kinds
  <2>2. QED
    BY <1>3, <1>4, <2>1, UploadsBegin DEF MediaInv
<1>6. /\ run' \in [Runs -> Run] /\ run'[r].step = "upload" /\ run'[r].u = u
      /\ run'[r].copy = run[r].copy /\ \A s \in Runs \ {r} : run'[s] = run[s]
  BY <1>1, <1>3 DEF Run
<1>7. /\ upload[u].step = "idle" /\ \A v \in Uploads \ {u} : upload'[v] = upload[v]
      /\ upload'[u].step = "post" /\ upload'[u].tenant = t /\ upload'[u].kind = "derived"
  BY <1>3 DEF BeginUpload, NoUpload, MediaInv, StorageInv, StorageTypeOK
<1>8. JobsTyped'
  BY <1>1, <1>4, <1>6 DEF MediaInv, JobsTyped
<1>9. \A s \in Runs \ {r} : run[s].u # u
  BY <1>7 DEF MediaInv, Watched, Deriving, Uploads
<1>10. ASSUME NEW s \in Runs PROVE IF run'[s].step = "upload" THEN Deriving(s)' ELSE run'[s].u = 0
  <2>1. CASE s = r
    BY <1>2, <1>6, <1>7, <1>9, <2>1 DEF Deriving
  <2>2. CASE s # r
    <3>1. IF run[s].step = "upload" THEN Deriving(s) ELSE run[s].u = 0
      BY DEF MediaInv, Watched
    <3>2. ASSUME run[s].step = "upload" PROVE Deriving(s)'
      <4>1. Deriving(s) /\ run[s].u # u
        BY <1>9, <2>2, <3>1, <3>2
      <4>2. \A q \in Runs : run'[q].u = run[s].u => q = s
        BY <1>6, <4>1 DEF Deriving
      <4>3. upload'[run[s].u] = upload[run[s].u] /\ run'[s] = run[s]
        BY <1>6, <1>7, <2>2, <4>1 DEF Deriving
      <4>4. QED
        BY <1>4, <4>1, <4>2, <4>3 DEF Deriving
    <3>3. QED
      BY <1>6, <2>2, <3>1, <3>2
  <2>3. QED
    BY <2>1, <2>2
<1>11. Watched'
  BY <1>10 DEF Watched
<1>12. Outputs'
  BY <1>4, <1>6 DEF MediaInv, Outputs, Output
<1>13. QED
  BY <1>5, <1>8, <1>11, <1>12 DEF MediaInv

\* An upload whose run is gone goes on by itself.
LEMMA UnwatchedIsSteady ==
    ASSUME NEW k \in Upload, Shape(k)
    PROVE  /\ Unwatched(k) \in Upload /\ Steady(k, Unwatched(k))
           /\ Unwatched(k).step \in Holding =>
                  Unwatched(k).step = k.step /\ Unwatched(k).tenant = k.tenant
<1>1. NoUpload \in Upload /\ Shape(NoUpload) /\ NoUpload.step = "idle" /\ ~NoUpload.kept
  BY NothingIsTyped, StorageAssumption DEF NoUpload, Shape, Moving, Hosted
<1>2. CASE k.step = "refused"
  <2>1. Unwatched(k) = NoUpload /\ k.kept = FALSE /\ NoUpload.kept = FALSE
    BY <1>1, <1>2 DEF Unwatched, Shape, Upload
  <2>2. QED
    BY <1>1, <1>2, <2>1 DEF Steady, Holding
<1>3. CASE k.step = "written"
  <2>1. /\ Ended(k) \in Upload /\ Shape(Ended(k)) /\ Ended(k).kept = k.kept
        /\ Ended(k).step \in {"closed", "refused", "idle"}
    BY EndedIsTyped
  <2>2. QED
    BY <1>3, <2>1 DEF Unwatched, Steady, Moving, Holding
<1>4. CASE k.step \notin {"refused", "written"} /\ k.kind = "derived"
  <2> DEFINE l == [k EXCEPT !.kind = "orphan"]
  <2>1. l \in Upload /\ l.step = k.step /\ l.tenant = k.tenant /\ l.kept = k.kept
        /\ l.process = k.process /\ l.limit = k.limit
    BY DEF Upload, Kinds
  <2>2. Unwatched(k) = l
    BY <1>4 DEF Unwatched
  <2> HIDE DEF l
  <2>3. QED
    BY <2>1, <2>2 DEF Steady, Shape
<1>5. CASE k.step \notin {"refused", "written"} /\ k.kind # "derived"
  BY <1>5, SteadyIsReflexive DEF Unwatched
<1>6. QED
  BY <1>2, <1>3, <1>4, <1>5

LEMMA UnwatchingKeeps ==
    ASSUME StorageInv, Calm, UNCHANGED <<file, section, lease, limit, tenant, stops, disturbed>>,
           NEW U \in SUBSET Uploads,
           upload' = [u \in Uploads |-> IF u \in U THEN Unwatched(upload[u]) ELSE upload[u]]
    PROVE  StorageInv' /\ Calm'
<1>1. \A u \in Uploads : upload[u] \in Upload /\ Shape(upload[u])
  BY DEF StorageInv, StorageTypeOK
<1>2. ASSUME NEW u \in Uploads
      PROVE  /\ upload'[u] \in Upload /\ Steady(upload[u], upload'[u])
             /\ upload'[u].step \in Holding =>
                    upload'[u].step = upload[u].step /\ upload'[u].tenant = upload[u].tenant
  <2>1. CASE u \in U
    <3>1. upload'[u] = Unwatched(upload[u])
      BY <2>1
    <3>2. QED
      BY <1>1, <3>1, UnwatchedIsSteady
  <2>2. CASE u \notin U
    <3>1. upload'[u] = upload[u]
      BY <2>2
    <3>2. QED
      BY <1>1, <3>1, SteadyIsReflexive
  <2>3. QED
    BY <2>1, <2>2
<1>3. StorageTypeOK'
  BY <1>2 DEF StorageInv, StorageTypeOK
<1>4. ~disturbed => \A u \in Uploads : Leased(u)'
  BY <1>2 DEF Calm, Leased
<1>5. QED
  BY <1>2, <1>3, <1>4, UploadsMove

LEMMA FailKeeps == ASSUME MediaInv, NEW r \in Runs, Fail(r) PROVE MediaInv'
<1>1. run[r].step \in {"source", "upload"}
  BY DEF Fail
<1>2. /\ run[r] \in Run /\ run[r].copy \in Job /\ run[r].copy.source \in Uploads
      /\ requests \in 0..MaxRequests /\ overlapped \subseteq Jobs
      /\ ~disturbed => Output(run[r].copy)
  BY <1>1, RunsAreTyped
<1>3. UNCHANGED <<file, section, lease, limit, tenant, stops, disturbed>>
      /\ UNCHANGED <<requests, settings, crashes, overlapped>>
  BY DEF Fail
<1>4. upload' = [u \in Uploads |-> IF u = run[r].u THEN Unwatched(upload[u]) ELSE upload[u]]
  BY DEF Fail
<1>5. StorageInv' /\ Calm'
  <2>1. PICK U \in SUBSET Uploads : U = Uploads \cap {run[r].u}
    OBVIOUS
  <2>2. upload' = [u \in Uploads |-> IF u \in U THEN Unwatched(upload[u]) ELSE upload[u]]
    BY <1>4, <2>1
  <2>3. QED
    BY <1>3, <2>2, UnwatchingKeeps DEF MediaInv
<1>6. PICK rec \in Job, k \in Run :
         /\ run' = [run EXCEPT ![r] = k] /\ job' = [job EXCEPT ![run[r].j] = rec]
         /\ rec.output = run[r].copy.output /\ rec.tenant = run[r].copy.tenant
         /\ rec.source = run[r].copy.source /\ rec.status # "completed"
         /\ k.step # "upload" /\ k.u = 0 /\ (k.copy = rec \/ k = NoRun)
  <2>1. CASE run[r].copy.attempts >= MaxAttempts
    <3> DEFINE rec == [run[r].copy EXCEPT !.status = "failed"]
               k == [run[r] EXCEPT !.step = "settled", !.copy = rec, !.u = 0]
    <3>1. rec \in Job /\ rec.output = run[r].copy.output /\ rec.tenant = run[r].copy.tenant
          /\ rec.source = run[r].copy.source /\ rec.status # "completed"
      BY <1>2 DEF Job
    <3>2. run' = [run EXCEPT ![r] = k] /\ job' = [job EXCEPT ![run[r].j] = rec]
      BY <2>1 DEF Fail, Save, MediaInv, JobsTyped
    <3> HIDE DEF rec
    <3>3. k \in Run /\ k.step = "settled" /\ k.u = 0 /\ k.copy = rec
      BY <1>2, <3>1 DEF Run
    <3> HIDE DEF k
    <3>4. QED
      BY <3>1, <3>2, <3>3
  <2>2. CASE ~(run[r].copy.attempts >= MaxAttempts)
    <3> DEFINE rec == Retried(run[r].copy)
    <3>1. rec \in Job /\ rec.output = run[r].copy.output /\ rec.tenant = run[r].copy.tenant
          /\ rec.source = run[r].copy.source /\ rec.status # "completed"
      BY <1>2 DEF Retried, Job
    <3>2. run' = [run EXCEPT ![r] = NoRun] /\ job' = [job EXCEPT ![run[r].j] = rec]
      BY <2>2 DEF Fail, Save
    <3>3. NoRun \in Run /\ NoRun.step # "upload" /\ NoRun.u = 0
      BY NoWorkIsTyped DEF NoRun
    <3> HIDE DEF rec
    <3>4. QED
      BY <3>1, <3>2, <3>3
  <2>3. QED
    BY <2>1, <2>2
<1>7. ~disturbed => Output(rec) /\ Output(k.copy)
  BY <1>2, <1>6, PlaceholderIsNoFile DEF Output, NoRun, NoJob
<1>8. k.step # "idle" => k.copy.source \in Uploads
  BY <1>2, <1>6 DEF NoRun
<1>9. /\ JobsTyped'
      /\ run'[r] = k /\ \A s \in Runs \ {r} : run'[s] = run[s]
      /\ ~disturbed => /\ \A i \in Jobs : Output(job'[i])
                       /\ \A s \in Runs : Output(run'[s].copy)
  BY <1>2, <1>3, <1>6, <1>7, <1>8, OneRunMoves
<1>10. ASSUME NEW s \in Runs PROVE IF run'[s].step = "upload" THEN Deriving(s)' ELSE run'[s].u = 0
  <2>1. CASE s = r
    BY <1>6, <1>9, <2>1
  <2>2. CASE s # r
    <3>1. IF run[s].step = "upload" THEN Deriving(s) ELSE run[s].u = 0
      BY DEF MediaInv, Watched
    <3>2. ASSUME run[s].step = "upload" PROVE Deriving(s)'
      <4>1. Deriving(s) /\ run[s].u \in Uploads /\ run[s].u # run[r].u
        BY <2>2, <3>1, <3>2 DEF Deriving
      <4>2. \A q \in Runs : run'[q].u = run[s].u => q = s
        BY <1>6, <1>9, <4>1 DEF Deriving, Uploads
      <4>3. upload'[run[s].u] = upload[run[s].u] /\ run'[s] = run[s]
        BY <1>4, <1>9, <2>2, <4>1
      <4>4. QED
        BY <1>3, <4>1, <4>2, <4>3 DEF Deriving
    <3>3. QED
      BY <1>9, <2>2, <3>1, <3>2
  <2>3. QED
    BY <2>1, <2>2
<1>11. Watched'
  BY <1>10 DEF Watched
<1>12. Outputs'
  BY <1>3, <1>9 DEF Outputs, Output
<1>13. QED
  BY <1>5, <1>9, <1>11, <1>12 DEF MediaInv

LEMMA CrashKeeps == ASSUME MediaInv, Crash PROVE MediaInv'
<1>1. UNCHANGED <<file, section, lease, limit, tenant, stops, disturbed>>
      /\ UNCHANGED <<job, requests, overlapped>>
  BY DEF Crash
<1>2. StorageInv' /\ Calm'
  <2>1. PICK U \in SUBSET Uploads : U = Uploads
    OBVIOUS
  <2>2. upload' = [u \in Uploads |-> IF u \in U THEN Unwatched(upload[u]) ELSE upload[u]]
    BY <2>1 DEF Crash
  <2>3. QED
    BY <1>1, <2>2, UnwatchingKeeps DEF MediaInv
<1>3. \A r \in Runs : run'[r] = NoRun
  BY DEF Crash
<1>4. JobsTyped'
  <2>1. run' \in [Runs -> Run]
    BY NoWorkIsTyped DEF Crash
  <2>2. crashes' \in 0..MaxCrashes /\ settings' \in Settings
    BY MediaAssumption DEF Crash, MediaInv, JobsTyped
  <2>3. \A r \in Runs : run'[r].step = "idle"
    BY <1>3 DEF NoRun
  <2>4. QED
    BY <1>1, <2>1, <2>2, <2>3 DEF MediaInv, JobsTyped
<1>5. Watched'
  BY <1>3 DEF Watched, NoRun
<1>6. Outputs'
  BY <1>1, <1>3, PlaceholderIsNoFile DEF MediaInv, Outputs, Output, NoRun, NoJob
<1>7. QED
  BY <1>2, <1>4, <1>5, <1>6 DEF MediaInv

LEMMA MediaKeeps == MediaInv /\ [Next]_vars => MediaInv'
<1> SUFFICES ASSUME MediaInv, [Next]_vars PROVE MediaInv'
  OBVIOUS
<1>1. CASE StorageNext /\ UNCHANGED mediaVars
  BY <1>1, StorageServes
<1>2. CASE CreateJob
  BY <1>2, CreateJobKeeps
<1>3. CASE Crash
  BY <1>3, CrashKeeps
<1>4. ASSUME NEW r \in Runs, RunStep(r) PROVE MediaInv'
  BY <1>4, SaveCallbackKeeps, InspectKeeps, NamePlaceholderKeeps, DeriveKeeps,
     CompleteDerivedKeeps, FailKeeps, FinishKeeps DEF RunStep
<1>5. ASSUME NEW j \in Jobs, DrainQueue(j) \/ \E r \in Requests : ProcessJob(r, j)
      PROVE  MediaInv'
  BY <1>5, StartsKeep
<1>6. ASSUME NEW j \in Jobs, RetryDue(j) PROVE MediaInv'
  BY <1>6, RetryDueKeeps
<1>7. CASE UNCHANGED vars
  <2>1. UNCHANGED storageVars /\ UNCHANGED <<job, run, requests, settings, crashes, overlapped>>
    BY <1>7 DEF vars, mediaVars
  <2>2. JobsTyped'
    BY <2>1 DEF MediaInv, JobsTyped
  <2>3. ~disturbed => /\ \A j \in Jobs : Output(job'[j])
                      /\ \A s \in Runs : Output(run'[s].copy)
    BY <2>1 DEF MediaInv, Outputs
  <2>4. QED
    BY <2>1, <2>2, <2>3, RunsMove
<1>8. QED
  BY <1>1, <1>2, <1>3, <1>4, <1>5, <1>6, <1>7 DEF Next

\* The variables of storage and of the jobs keep their types.
THEOREM MediaIsTyped == Spec => []TypeOK
<1>1. MediaInv => TypeOK
  BY DEF MediaInv, StorageInv, JobsTyped, TypeOK
<1>2. QED
  BY MediaStarts, MediaKeeps, <1>1, PTL DEF Spec

\* A completed job that derives names a file that exists, is its tenant's and has its
\* content, however often the job was retried or run twice, unless two processes rewrote
\* the metadata at once; or it names the placeholder, if the service may run in that mode.
THEOREM CompletedJobsHaveTheirFile == Spec => []OutputsExist
<1>1. MediaInv => OutputsExist
  BY DEF MediaInv, Outputs, Output, OutputsExist
<1>2. QED
  BY MediaStarts, MediaKeeps, <1>1, PTL DEF Spec

\* The jobs upload without a capacity, and still leave every other upload its own.
THEOREM CapacityHoldsUnderJobs == Spec => CapacityIsRespected
<1>1. ASSUME MediaInv, [Next]_vars PROVE [Respects]_storageVars
  <2>1. CASE StorageNext
    BY <1>1, <2>1, StorageRespects DEF MediaInv
  <2>2. ASSUME \A u \in Uploads : Steady(upload[u], upload'[u]) PROVE Respects
    BY <2>2 DEF Respects, Steady
  <2>3. \A u \in Uploads : upload[u] \in Upload /\ Shape(upload[u])
    BY <1>1 DEF MediaInv, StorageInv, StorageTypeOK
  <2>4. ASSUME NEW r \in Runs, Fail(r) PROVE Respects
    <3>1. \A u \in Uploads : upload'[u] \in {upload[u], Unwatched(upload[u])}
      BY <2>4 DEF Fail
    <3>2. QED
      BY <2>2, <2>3, <3>1, UnwatchedIsSteady, SteadyIsReflexive
  <2>5. CASE Crash
    <3>1. \A u \in Uploads : upload'[u] = Unwatched(upload[u])
      BY <2>5 DEF Crash
    <3>2. QED
      BY <2>2, <2>3, <3>1, UnwatchedIsSteady
  <2>6. ASSUME NEW r \in Runs, Derive(r) PROVE Respects
    <3>1. PICK u \in Uploads : BeginUpload(u, run[r].copy.tenant, "derived", "post", Unlimited)
      BY <2>6 DEF Derive
    <3>2. ~upload'[u].kept /\ \A v \in Uploads \ {u} : upload'[v] = upload[v]
      BY <1>1, <3>1 DEF BeginUpload, NoUpload, MediaInv, StorageInv, StorageTypeOK
    <3>3. QED
      BY <3>2 DEF Respects
  <2>7. ASSUME UNCHANGED storageVars PROVE [Respects]_storageVars
    BY <2>7
  <2>8. QED
    BY <1>1, <2>1, <2>4, <2>5, <2>6, <2>7
    DEF Next, vars, CreateJob, RunStep, SaveCallback, Inspect, NamePlaceholder, CompleteDerived, Finish,
        DrainQueue, RetryDue, ProcessJob, Start
<1>2. MediaInv /\ [Next]_vars => [Respects]_storageVars
  BY <1>1
<1>3. Spec => [][Respects]_storageVars
  BY MediaStarts, MediaKeeps, <1>2, PTL DEF Spec
<1>4. QED
  BY <1>3 DEF CapacityIsRespected, Respects
-----------------------------------------------------------------------------
(* Settled jobs. *)

\* What a run carries at each step.
RunShape(k) ==
    /\ ~k.copy.waiting
    /\ k.step = "idle" <=> k.j = 0
    /\ k.step \in {"started", "source", "upload"} => k.copy.status = "processing"
    /\ k.step = "settled" => Settled(k.copy)
RunShapes == \A r \in Runs : RunShape(run[r])

\* A settled job waits for nothing.
Waiters == \A j \in Jobs : Settled(job[j]) => ~job[j].waiting

\* The only run of a job carries its record.
OneRun ==
    \A j \in Jobs \ overlapped : \A r, s \in Runs : run[r].j = j /\ run[s].j = j => r = s
Carries == \A j \in Jobs \ overlapped : \A r \in Runs : run[r].j = j => job[j] = run[r].copy

SettledInv == JobsTyped /\ RunShapes /\ Waiters /\ OneRun /\ Carries

\* What SettledStays asks of a step.
Stays == \A j \in Jobs : (Settled(job[j]) /\ j \notin overlapped) => job'[j] = job[j]

LEMMA SettledStarts == Init => SettledInv
<1> SUFFICES ASSUME Init PROVE SettledInv
  OBVIOUS
<1>1. JobsTyped
  BY MediaStarts DEF MediaInv
<1>2. \A r \in Runs : run[r] = NoRun
  BY DEF Init
<1>3. \A j \in Jobs : job[j] = NoJob
  BY DEF Init
<1>4. RunShapes
  BY <1>2 DEF RunShapes, RunShape, NoRun, NoJob
<1>5. Waiters
  BY <1>3 DEF Waiters, NoJob
<1>6. OneRun /\ Carries
  BY <1>2 DEF OneRun, Carries, NoRun, Jobs
<1>7. QED
  BY <1>1, <1>4, <1>5, <1>6 DEF SettledInv

\* A run that saves a record for its job and goes on with it, or ends.
LEMMA RunSettles ==
    ASSUME SettledInv, JobsTyped', UNCHANGED overlapped, NEW r \in Runs, run[r].step # "idle",
           NEW k \in Run, NEW rec \in Job,
           run' = [run EXCEPT ![r] = k], job' = [job EXCEPT ![run[r].j] = rec],
           RunShape(k), k = NoRun \/ (k.j = run[r].j /\ k.copy = rec),
           Settled(rec) => ~rec.waiting,
           run[r].j \notin overlapped /\ Settled(run[r].copy) => rec = run[r].copy
    PROVE  SettledInv' /\ Stays
<1> DEFINE i == run[r].j
<1>1. job \in [Jobs -> Job] /\ run \in [Runs -> Run] /\ RunShape(run[r])
  BY DEF SettledInv, JobsTyped, RunShapes
<1>2. run[r] \in Run
  BY <1>1
<1>3. i \in Jobs
  BY <1>1, <1>2 DEF RunShape, Run
<1>4. run'[r] = k /\ (\A s \in Runs \ {r} : run'[s] = run[s])
      /\ job'[i] = rec /\ (\A j \in Jobs \ {i} : job'[j] = job[j])
  BY <1>1, <1>3
<1>5. k.j = 0 \/ k.j = i
  BY DEF NoRun
<1>6. RunShapes'
  BY <1>4 DEF SettledInv, RunShapes
<1>7. Waiters'
  BY <1>4 DEF SettledInv, Waiters
<1>8. OneRun'
  <2>1. \A s \in Runs : run'[s].j = run[s].j \/ run'[s].j = 0
    BY <1>4, <1>5
  <2>2. QED
    BY <2>1 DEF SettledInv, OneRun, Jobs
<1>9. Carries'
  <2>1. ASSUME NEW j \in Jobs \ overlapped, NEW s \in Runs, run'[s].j = j
        PROVE  job'[j] = run'[s].copy
    <3>1. CASE s = r
      BY <1>4, <2>1, <3>1 DEF NoRun, Jobs
    <3>2. CASE s # r
      <4>1. run[s].j = j /\ job[j] = run[s].copy
        BY <1>4, <2>1, <3>2 DEF SettledInv, Carries
      <4>2. j # i
        BY <3>2, <4>1 DEF SettledInv, OneRun
      <4>3. QED
        BY <1>4, <3>2, <4>1, <4>2
    <3>3. QED
      BY <3>1, <3>2
  <2>2. QED
    BY <2>1 DEF Carries
<1>10. Stays
  <2>1. i \notin overlapped => job[i] = run[r].copy
    BY <1>3 DEF SettledInv, Carries
  <2>2. QED
    BY <1>4, <2>1 DEF Stays
<1>11. QED
  BY <1>6, <1>7, <1>8, <1>9, <1>10 DEF SettledInv

LEMMA RunStepSettles ==
    ASSUME SettledInv, JobsTyped', NEW r \in Runs, RunStep(r) PROVE SettledInv' /\ Stays
<1>1. run \in [Runs -> Run] /\ run[r] \in Run /\ RunShape(run[r])
  BY DEF SettledInv, JobsTyped, RunShapes
<1>2. run[r].copy \in Job /\ run[r].j \in Jobs \cup {0}
  BY <1>1 DEF Run
<1>3. NoRun \in Run /\ RunShape(NoRun)
  BY NoWorkIsTyped DEF RunShape, NoRun, NoJob
<1>4. ASSUME NEW k \in Run, NEW rec \in Job, run[r].step # "idle", UNCHANGED overlapped,
             run' = [run EXCEPT ![r] = k], job' = [job EXCEPT ![run[r].j] = rec],
             RunShape(k), k = NoRun \/ (k.j = run[r].j /\ k.copy = rec),
             Settled(rec) => ~rec.waiting,
             run[r].j \notin overlapped /\ Settled(run[r].copy) => rec = run[r].copy
      PROVE  SettledInv' /\ Stays
  BY <1>4, RunSettles
<1>5. CASE SaveCallback(r)
  <2> DEFINE k == [run[r] EXCEPT !.step = "source"]
  <2>1. run[r].step = "started" /\ UNCHANGED overlapped
        /\ run' = [run EXCEPT ![r] = k] /\ job' = [job EXCEPT ![run[r].j] = run[r].copy]
    BY <1>1, <1>5 DEF SaveCallback, Doing, Save
  <2>2. k \in Run /\ k.step = "source" /\ k.j = run[r].j /\ k.copy = run[r].copy
    BY <1>1 DEF Run
  <2> HIDE DEF k
  <2>3. RunShape(k)
    BY <1>1, <2>1, <2>2 DEF RunShape
  <2>4. Settled(run[r].copy) => ~run[r].copy.waiting
    BY <1>1 DEF RunShape
  <2>5. QED
    BY <1>2, <1>4, <2>1, <2>2, <2>3, <2>4
<1>6. ASSUME run[r].step \in {"source", "upload"}, UNCHANGED overlapped,
             NEW u \in Uploads \cup {0, Placeholder}, Complete(r, u)
      PROVE  SettledInv' /\ Stays
  <2> DEFINE rec == [run[r].copy EXCEPT !.status = "completed", !.output = u]
             k == [run[r] EXCEPT !.step = "settled", !.copy = rec, !.u = 0]
  <2>1. rec \in Job /\ rec.status = "completed" /\ rec.waiting = run[r].copy.waiting
    BY <1>2 DEF Job
  <2>2. run' = [run EXCEPT ![r] = k] /\ job' = [job EXCEPT ![run[r].j] = rec]
    BY <1>1, <1>6 DEF Complete, Save
  <2> HIDE DEF rec
  <2>3. k \in Run /\ k.step = "settled" /\ k.j = run[r].j /\ k.copy = rec
    BY <1>1, <2>1 DEF Run
  <2> HIDE DEF k
  <2>4. ~rec.waiting /\ run[r].copy.status = "processing" /\ k.j # 0
    BY <1>1, <1>6, <2>1, <2>3 DEF RunShape
  <2>5. RunShape(k)
    BY <2>1, <2>3, <2>4 DEF RunShape, Settled
  <2>6. QED
    BY <1>4, <1>6, <2>1, <2>2, <2>3, <2>4, <2>5 DEF Settled
<1>7. CASE Inspect(r)
  BY <1>6, <1>7 DEF Inspect, Doing
<1>8. CASE CompleteDerived(r)
  <2>1. run[r].u \in Uploads \cup {0}
    BY <1>1 DEF Run
  <2>2. QED
    BY <1>6, <1>8, <2>1 DEF CompleteDerived, Doing
<1>9. CASE Fail(r)
  <2>1. run[r].step \in {"source", "upload"} /\ UNCHANGED overlapped
    BY <1>9 DEF Fail
  <2>2. run[r].copy.status = "processing" /\ ~run[r].copy.waiting /\ run[r].j # 0
    BY <1>1, <2>1 DEF RunShape
  <2>3. CASE run[r].copy.attempts >= MaxAttempts
    <3> DEFINE rec == [run[r].copy EXCEPT !.status = "failed"]
               k == [run[r] EXCEPT !.step = "settled", !.copy = rec, !.u = 0]
    <3>1. rec \in Job /\ rec.status = "failed" /\ rec.waiting = run[r].copy.waiting
      BY <1>2 DEF Job
    <3>2. run' = [run EXCEPT ![r] = k] /\ job' = [job EXCEPT ![run[r].j] = rec]
      BY <1>1, <1>9, <2>3 DEF Fail, Save
    <3> HIDE DEF rec
    <3>3. k \in Run /\ k.step = "settled" /\ k.j = run[r].j /\ k.copy = rec
      BY <1>1, <3>1 DEF Run
    <3> HIDE DEF k
    <3>4. RunShape(k)
      BY <2>2, <3>1, <3>3 DEF RunShape, Settled
    <3>5. QED
      BY <1>4, <2>1, <2>2, <3>1, <3>2, <3>3, <3>4 DEF Settled
  <2>4. CASE ~(run[r].copy.attempts >= MaxAttempts)
    <3>1. run' = [run EXCEPT ![r] = NoRun] /\ job' = [job EXCEPT ![run[r].j] = Retried(run[r].copy)]
      BY <1>9, <2>4 DEF Fail, Save
    <3>2. Retried(run[r].copy) \in Job /\ Retried(run[r].copy).status = "queued"
      BY <1>2 DEF Retried, Job
    <3>3. QED
      BY <1>3, <1>4, <2>1, <2>2, <3>1, <3>2 DEF Settled
  <2>5. QED
    BY <2>3, <2>4
<1>10. CASE Finish(r)
  <2>1. run[r].step = "settled" /\ UNCHANGED overlapped
        /\ run' = [run EXCEPT ![r] = NoRun] /\ job' = [job EXCEPT ![run[r].j] = run[r].copy]
    BY <1>10 DEF Finish, Doing, Save
  <2>2. ~run[r].copy.waiting
    BY <1>1 DEF RunShape
  <2>3. QED
    BY <1>2, <1>3, <1>4, <2>1, <2>2
<1>11. CASE Derive(r)
  <2>1. PICK u \in Uploads : run' = [run EXCEPT ![r].step = "upload", ![r].u = u]
    BY <1>11 DEF Derive
  <2>2. run[r].step = "source" /\ UNCHANGED <<job, overlapped>>
    BY <1>11 DEF Derive, Doing
  <2>3. /\ run'[r].step = "upload" /\ run'[r].j = run[r].j /\ run'[r].copy = run[r].copy
        /\ \A s \in Runs \ {r} : run'[s] = run[s]
    BY <1>1, <2>1 DEF Run
  <2>4. RunShape(run'[r])
    BY <1>1, <2>2, <2>3 DEF RunShape
  <2>5. RunShapes'
    BY <2>3, <2>4 DEF SettledInv, RunShapes
  <2>6. Waiters' /\ Stays
    BY <2>2 DEF SettledInv, Waiters, Stays
  <2>7. OneRun' /\ Carries'
    <3>1. \A s \in Runs : run'[s].j = run[s].j /\ run'[s].copy = run[s].copy
      BY <2>3
    <3>2. QED
      BY <2>2, <3>1 DEF SettledInv, OneRun, Carries
  <2>8. QED
    BY <2>5, <2>6, <2>7 DEF SettledInv
<1>12. CASE NamePlaceholder(r)
  BY <1>6, <1>12 DEF NamePlaceholder, Doing
<1>13. QED
  BY <1>5, <1>7, <1>8, <1>9, <1>10, <1>11, <1>12 DEF RunStep

LEMMA StartSettles ==
    ASSUME SettledInv, JobsTyped', NEW r \in Runs, NEW j \in Jobs, Start(r, j), ~Settled(job[j])
    PROVE  SettledInv' /\ Stays
<1> DEFINE copy == [job[j] EXCEPT !.status = "processing", !.attempts = @ + 1,
                                  !.waiting = FALSE]
           k == [step |-> "started", j |-> j, copy |-> copy, u |-> 0]
<1>1. job \in [Jobs -> Job] /\ job[j] \in Job /\ run \in [Runs -> Run]
  BY DEF SettledInv, JobsTyped
<1>2. copy.status = "processing" /\ ~copy.waiting
  BY <1>1 DEF Job
<1>3. run' = [run EXCEPT ![r] = k] /\ job' = [job EXCEPT ![j] = copy]
      /\ overlapped' = IF \E s \in Runs : run[s].j = j THEN overlapped \cup {j} ELSE overlapped
  BY DEF Start, Save
<1> HIDE DEF copy
<1>4. /\ run'[r] = k /\ \A s \in Runs \ {r} : run'[s] = run[s]
      /\ job'[j] = copy /\ \A i \in Jobs \ {j} : job'[i] = job[i]
  BY <1>1, <1>3
<1>5. k.step = "started" /\ k.j = j /\ k.copy = copy /\ j # 0
  BY DEF Jobs
<1> HIDE DEF k
<1>6. RunShapes'
  BY <1>2, <1>4, <1>5 DEF SettledInv, RunShapes, RunShape
<1>7. Waiters'
  BY <1>2, <1>4 DEF SettledInv, Waiters, Settled
<1>8. overlapped \subseteq overlapped' /\ (j \notin overlapped' => \A s \in Runs : run[s].j # j)
  BY <1>3
<1>9. OneRun'
  BY <1>4, <1>5, <1>8 DEF SettledInv, OneRun
<1>10. Carries'
  BY <1>4, <1>5, <1>8 DEF SettledInv, Carries
<1>11. Stays
  BY <1>4 DEF Stays
<1>12. QED
  BY <1>6, <1>7, <1>9, <1>10, <1>11 DEF SettledInv

\* A job created, or due again: nothing that a run of it carries.
LEMMA JobIsFree ==
    ASSUME SettledInv, JobsTyped', UNCHANGED <<run, overlapped>>, NEW j \in Jobs, NEW rec \in Job,
           job' = [job EXCEPT ![j] = rec], Settled(rec) => ~rec.waiting,
           ~Settled(job[j]), job[j].waiting \/ job[j].status = "absent"
    PROVE  SettledInv' /\ Stays
<1>1. job \in [Jobs -> Job] /\ run \in [Runs -> Run]
  BY DEF SettledInv, JobsTyped
<1>2. job'[j] = rec /\ \A i \in Jobs \ {j} : job'[i] = job[i]
  BY <1>1
<1>3. RunShapes' /\ OneRun'
  BY DEF SettledInv, RunShapes, OneRun
<1>4. Waiters' /\ Stays
  BY <1>2 DEF SettledInv, Waiters, Stays
<1>5. ASSUME NEW r \in Runs, run[r].j = j, j \notin overlapped PROVE FALSE
  <2>1. job[j] = run[r].copy /\ RunShape(run[r]) /\ run[r] \in Run /\ run[r].step # "idle"
    BY <1>1, <1>5 DEF SettledInv, Carries, RunShapes, RunShape, Jobs
  <2>2. QED
    BY <2>1 DEF RunShape, Settled, Run
<1>6. Carries'
  BY <1>2, <1>5 DEF SettledInv, Carries
<1>7. QED
  BY <1>3, <1>4, <1>6 DEF SettledInv

LEMMA NextSettles ==
    ASSUME SettledInv, JobsTyped', Next PROVE SettledInv' /\ Stays
<1>1. job \in [Jobs -> Job]
  BY DEF SettledInv, JobsTyped
<1>2. CASE UNCHANGED mediaVars
  BY <1>2 DEF mediaVars, SettledInv, RunShapes, Waiters, OneRun, Carries, Stays
<1>3. CASE CreateJob
  <2>1. PICK j \in Jobs, u \in Uploads, t \in Tenants, d \in BOOLEAN :
           /\ job[j] = NoJob
           /\ Save(j, [NoJob EXCEPT !.status = "queued", !.derives = d, !.source = u, !.tenant = t])
    BY <1>3 DEF CreateJob
  <2> DEFINE rec == [NoJob EXCEPT !.status = "queued", !.derives = d, !.source = u, !.tenant = t]
  <2>2. rec \in Job /\ rec.status = "queued"
    BY NoWorkIsTyped DEF Job, NoJob
  <2>3. job' = [job EXCEPT ![j] = rec] /\ UNCHANGED <<run, overlapped>>
    BY <1>3, <2>1 DEF CreateJob, Save
  <2> HIDE DEF rec
  <2>4. job[j].status = "absent"
    BY <2>1 DEF NoJob
  <2>5. QED
    BY <2>2, <2>3, <2>4, JobIsFree DEF Settled
<1>4. ASSUME NEW j \in Jobs, RetryDue(j) PROVE SettledInv' /\ Stays
  <2>1. [job[j] EXCEPT !.waiting = FALSE] \in Job /\ ~Settled(job[j]) /\ job[j].waiting
        /\ ~[job[j] EXCEPT !.waiting = FALSE].waiting
    BY <1>1, <1>4 DEF RetryDue, SettledInv, Waiters, Job
  <2>2. QED
    BY <1>4, <2>1, JobIsFree DEF RetryDue, Save
<1>5. CASE Crash
  <2>1. \A r \in Runs : run'[r] = NoRun
    BY <1>5 DEF Crash
  <2>2. RunShapes'
    BY <2>1 DEF RunShapes, RunShape, NoRun, NoJob
  <2>3. OneRun' /\ Carries'
    BY <2>1 DEF OneRun, Carries, NoRun, Jobs
  <2>4. Waiters' /\ Stays
    BY <1>5 DEF Crash, SettledInv, Waiters, Stays
  <2>5. QED
    BY <2>2, <2>3, <2>4 DEF SettledInv
<1>6. ASSUME NEW r \in Runs, RunStep(r) PROVE SettledInv' /\ Stays
  BY <1>6, RunStepSettles
<1>7. ASSUME NEW j \in Jobs, DrainQueue(j) \/ \E r \in Requests : ProcessJob(r, j)
      PROVE  SettledInv' /\ Stays
  <2>1. ~Settled(job[j]) /\ \E r \in Runs : Start(r, j)
    BY <1>7 DEF DrainQueue, ProcessJob, Due, Processable, Settled, Runs
  <2>2. QED
    BY <2>1, StartSettles
<1>8. QED
  BY <1>2, <1>3, <1>4, <1>5, <1>6, <1>7 DEF Next

\* A settled job stays as it is, whatever retries, requests and crashes follow, unless
\* two runs of it overlapped.
THEOREM SettledJobsStay == Spec => SettledStays
<1> DEFINE Inv == MediaInv /\ SettledInv
<1>1. Init => Inv
  BY MediaStarts, SettledStarts
<1>2. ASSUME Inv, [Next]_vars PROVE Inv' /\ [Stays]_vars
  <2>1. MediaInv' /\ JobsTyped'
    BY <1>2, MediaKeeps DEF MediaInv
  <2>2. CASE Next
    BY <1>2, <2>1, <2>2, NextSettles
  <2>3. CASE UNCHANGED vars
    <3>1. UNCHANGED <<job, run, requests, settings, crashes, overlapped>>
      BY <2>3 DEF vars, mediaVars
    <3>2. SettledInv'
      BY <1>2, <2>1, <3>1 DEF SettledInv, RunShapes, Waiters, OneRun, Carries
    <3>3. QED
      BY <2>1, <2>3, <3>2
  <2>4. QED
    BY <1>2, <2>2, <2>3
<1>3. Inv /\ [Next]_vars => Inv' /\ [Stays]_vars
  BY <1>2
<1>4. Spec => [][Stays]_vars
  <2> HIDE DEF Inv
  <2> QED BY <1>1, <1>3, PTL DEF Spec
<1>5. QED
  BY <1>4 DEF SettledStays, Stays
=============================================================================
