------------------------- MODULE AdminCatalogProofs -------------------------
(***************************************************************************)
(* What AdminCatalog promises for any number of admins, services,          *)
(* categories and roles, however their transactions interleave.            *)
(***************************************************************************)
EXTENDS AdminCatalog, FiniteSetTheorems, TLAPS

ServiceOps == {"CreateService", "UpdateService"}

\* Which use case can be at which stage.
StageInv ==
    \A t \in Txs :
        /\ at[t] # "idle" => request[t] \in Requests
        /\ at[t] = "filed" => request[t].op = "UpdateService"
        /\ at[t] = "read" => request[t].op = "UpdateCategory"
        /\ at[t] = "counted" => request[t].op = "DeleteCategory"
        /\ at[t] \in {"purge", "purging"} => request[t].op \in {"UpdateService", "UpdateCategory", "SetRoleDefaults"}
        /\ at[t] \in {"clear", "clearing", "adding"} => request[t].op = "SetRoleDefaults"
        /\ at[t] = "idle" => gone[t] = {}

\* Open transactions keep the foreign key: those that file services hold on to
\* their categories, those that delete a category have it to themselves.
FiledInv ==
    /\ EveryServiceIsFiled
    /\ \A t \in Txs : FilesService(t) => request[t].cats \subseteq categories
    /\ \A t, u \in Txs : FilesService(t) /\ DeletesCategory(u) => request[u].cat \notin request[t].cats
    /\ \A u \in Txs : DeletesCategory(u) => \A s \in services : request[u].cat \notin filed[s]

\* A transaction accounts for every row it deletes.
ReportInv ==
    \A t \in Txs :
        /\ at[t] = "clearing" => \A d \in seen[t] : d[1] = request[t].role
        /\ \A d \in gone[t] :
            \/ d[1] \in purged[t]
            \/ request[t].op = "SetRoleDefaults" /\ d[1] = request[t].role

AInv == TypeOK /\ StageInv /\ FiledInv /\ ReportInv

\* The arguments a request carries follow from its use case.
LEMMA RequestFields ==
    ASSUME NEW r \in Requests
    PROVE  /\ r.op \in ServiceOps => r.svc \in Services /\ r.cats \in Some(Categories)
           /\ r.op = "SetRoleDefaults" => r.role \in Configured /\ r.ids \in SUBSET Services
           /\ r.op = "CreateCategory" => r.cat \in Categories /\ r.vis \in Visibilities \cup {Public}
           /\ r.op = "UpdateCategory" => r.cat \in Categories /\ r.vis \in Visibilities \cup {Public, Keep}
           /\ r.op = "DeleteCategory" => r.cat \in Categories
BY DEF Requests, ServiceOps

LEMMA TypeStep ==
    ASSUME AInv, [Next]_vars
    PROVE  TypeOK'
<1> USE AdminAssumption DEF AInv, TypeOK, StageInv, Goto, committed
<1>1. ASSUME NEW t \in Txs, NEW r \in Requests, Begin(t, r) PROVE TypeOK'
  BY <1>1 DEF Begin, Stages
<1>2. ASSUME NEW t \in Txs, Commit(t) PROVE TypeOK'
  <2>1. request[t] \in Requests /\ Op(t) = request[t].op
    BY <1>2 DEF Commit, Op
  <2>2. services' \subseteq Services
    BY <1>2, <2>1, RequestFields DEF Commit, ServiceOps
  <2>3. filed' \in [Services -> SUBSET Categories]
    BY <1>2, <2>1, RequestFields DEF Commit, FilesService, ServiceOps, Some
  <2>4. categories' \subseteq Categories
    BY <1>2, <2>1, RequestFields DEF Commit, CreatesCategory, DeletesCategory
  <2>5. vis' \in [Categories -> Visibilities \cup {Public}]
    <3>1. CASE CreatesCategory(t)
      BY <1>2, <2>1, <3>1, RequestFields DEF Commit, CreatesCategory
    <3>2. CASE ~CreatesCategory(t)
      BY <1>2, <3>2 DEF Commit
    <3> QED
      BY <3>1, <3>2
  <2>6. defaults' \subseteq Rows
    BY <1>2 DEF Commit
  <2> QED
    BY <1>2, <2>2, <2>3, <2>4, <2>5, <2>6 DEF Commit, Close, Stages
<1>3. ASSUME NEW t \in Txs, Rollback(t) \/ DeleteNothing(t) PROVE TypeOK'
  BY <1>3 DEF Rollback, DeleteNothing, Close, Stages
<1>4. ASSUME NEW t \in Txs,
             \/ FileService(t) \/ CheckRestricted(t) \/ CreateCategory(t)
             \/ WriteCategory(t) \/ CountServices(t) \/ DeleteCategory(t)
      PROVE  TypeOK'
  BY <1>4 DEF FileService, CheckRestricted, CreateCategory, WriteCategory, CountServices,
              DeleteCategory, Stages
<1>5. ASSUME NEW t \in Txs, ReadCategory(t) PROVE TypeOK'
  <2>1. request[t] \in Requests /\ request[t].op = "UpdateCategory"
    BY <1>5 DEF ReadCategory, Op
  <2>2. next' \in [Txs -> Visibilities \cup {Public}]
    BY <1>5, <2>1, RequestFields DEF ReadCategory
  <2> QED
    BY <1>5, <2>2 DEF ReadCategory, Stages
<1>6. ASSUME NEW t \in Txs, IssueDelete(t) PROVE TypeOK'
  <2>1. Doomed(t) \subseteq Rows
    BY DEF Doomed
  <2> QED
    BY <1>6, <2>1 DEF IssueDelete, Stages
<1>7. ASSUME NEW t \in Txs, Purge(t) PROVE TypeOK'
  <2>1. RolesOf(seen[t]) \subseteq Roles
    BY DEF RolesOf, Rows
  <2> QED
    BY <1>7, <2>1 DEF Purge, Stages
<1>8. ASSUME NEW t \in Txs, ClearRole(t) PROVE TypeOK'
  BY <1>8 DEF ClearRole, Stages
<1>9. ASSUME NEW t \in Txs, NEW s \in Services, AddRoleDefault(t, s) PROVE TypeOK'
  <2>1. request[t] \in Requests /\ request[t].op = "SetRoleDefaults"
    BY <1>9 DEF AddRoleDefault
  <2>2. <<request[t].role, s>> \in Rows
    BY <2>1, RequestFields DEF Rows
  <2> QED
    BY <1>9, <2>2 DEF AddRoleDefault, Stages
<1>10. CASE UNCHANGED vars
  BY <1>10 DEF vars, open
<1> QED
  BY <1>1, <1>2, <1>3, <1>4, <1>5, <1>6, <1>7, <1>8, <1>9, <1>10 DEF Next

LEMMA StageStep ==
    ASSUME AInv, [Next]_vars
    PROVE  StageInv'
<1> USE DEF AInv, TypeOK, StageInv, Goto
<1>1. ASSUME NEW t \in Txs, NEW r \in Requests, Begin(t, r) PROVE StageInv'
  BY <1>1 DEF Begin
<1>2. ASSUME NEW t \in Txs, Commit(t) \/ Rollback(t) \/ DeleteNothing(t) PROVE StageInv'
  BY <1>2 DEF Commit, Rollback, DeleteNothing, Close
<1>3. ASSUME NEW t \in Txs,
             \/ FileService(t) \/ CheckRestricted(t) \/ CreateCategory(t) \/ ReadCategory(t)
             \/ WriteCategory(t) \/ CountServices(t) \/ DeleteCategory(t)
      PROVE  StageInv'
  BY <1>3 DEF FileService, CheckRestricted, CreateCategory, ReadCategory, WriteCategory,
              CountServices, DeleteCategory, Op
<1>4. ASSUME NEW t \in Txs, NEW s \in Services,
             IssueDelete(t) \/ Purge(t) \/ ClearRole(t) \/ AddRoleDefault(t, s)
      PROVE  StageInv'
  BY <1>4 DEF IssueDelete, Purge, ClearRole, AddRoleDefault, Op
<1>5. ASSUME NEW t \in Txs, IssueDelete(t) \/ Purge(t) \/ ClearRole(t) PROVE StageInv'
  BY <1>5 DEF IssueDelete, Purge, ClearRole, Op
<1>6. CASE UNCHANGED vars
  BY <1>6 DEF vars, open
<1> QED
  BY <1>1, <1>2, <1>3, <1>4, <1>5, <1>6 DEF Next

\* Only these three actions touch what the foreign key is about.
LEMMA FilingUnchanged ==
    ASSUME AInv, NEW t \in Txs, UNCHANGED <<services, filed, categories, request>>,
           NEW pc, at' = [at EXCEPT ![t] = pc], pc # "begun", pc # "idle",
           (Op(t) \in ServiceOps => at[t] # "begun"), (Op(t) = "DeleteCategory" => pc # "done"),
           at[t] # "idle"
    PROVE  FiledInv'
<1>1. \A u \in Txs : at'[u] = (IF u = t THEN pc ELSE at[u]) /\ Op(u)' = Op(u)
  BY DEF AInv, TypeOK, Op
<1>2. \A u \in Txs : FilesService(u)' => FilesService(u)
  BY <1>1 DEF FilesService, ServiceOps
<1>3. \A u \in Txs : DeletesCategory(u)' => DeletesCategory(u)
  BY <1>1 DEF DeletesCategory
<1> QED
  BY <1>2, <1>3 DEF AInv, FiledInv, EveryServiceIsFiled

LEMMA FiledStep ==
    ASSUME AInv, [Next]_vars
    PROVE  FiledInv'
<1> USE DEF AInv, TypeOK, Goto, committed
<1>1. ASSUME NEW t \in Txs, NEW r \in Requests, Begin(t, r) PROVE FiledInv'
  <2>1. \A u \in Txs : u # t => at'[u] = at[u] /\ request'[u] = request[u]
    BY <1>1 DEF Begin
  <2>2. ~FilesService(t)' /\ ~DeletesCategory(t)'
    BY <1>1 DEF Begin, FilesService, DeletesCategory, Op
  <2>3. \A u \in Txs : /\ FilesService(u)' => FilesService(u) /\ u # t
                       /\ DeletesCategory(u)' => DeletesCategory(u) /\ u # t
    BY <2>1, <2>2 DEF FilesService, DeletesCategory, Op
  <2> QED
    BY <1>1, <2>1, <2>3 DEF Begin, FiledInv, EveryServiceIsFiled
<1>2. ASSUME NEW t \in Txs, Commit(t) \/ Rollback(t) \/ DeleteNothing(t),
             \A u \in Txs : u # t => at'[u] = at[u] /\ request'[u] = request[u]
      PROVE  \A u \in Txs : /\ FilesService(u)' => FilesService(u) /\ u # t
                            /\ DeletesCategory(u)' => DeletesCategory(u) /\ u # t
  BY <1>2 DEF Commit, Rollback, DeleteNothing, Close, FilesService, DeletesCategory, Op
<1>3. ASSUME NEW t \in Txs, Commit(t) \/ Rollback(t) \/ DeleteNothing(t)
      PROVE  \A u \in Txs : u # t => at'[u] = at[u] /\ request'[u] = request[u]
  BY <1>3 DEF Commit, Rollback, DeleteNothing, Close
<1>4. ASSUME NEW t \in Txs, Commit(t) PROVE FiledInv'
  <2>1. request[t] \in Requests /\ Op(t) = request[t].op /\ at[t] = "done"
    BY <1>4 DEF Commit, Op, StageInv
  <2>2. CASE FilesService(t)
    <3> DEFINE s == request[t].svc
    <3> DEFINE cats == request[t].cats
    <3>1. s \in Services /\ cats # {} /\ cats \subseteq categories
      <4>1. request[t].op \in ServiceOps
        BY <2>1, <2>2 DEF FilesService, ServiceOps
      <4>2. s \in Services /\ cats \in Some(Categories)
        BY <2>1, <4>1, RequestFields
      <4>3. cats \subseteq categories
        BY <2>2 DEF FiledInv
      <4> QED
        BY <4>2, <4>3 DEF Some
    <3>2. filed' = [filed EXCEPT ![s] = cats] /\ services \subseteq services' /\ services' \subseteq services \cup {s}
      BY <1>4, <2>2 DEF Commit
    <3>3. categories' = categories
      BY <1>4, <2>2 DEF Commit, CreatesCategory, DeletesCategory, FilesService
    <3>4. \A x \in Services : filed'[x] = IF x = s THEN cats ELSE filed[x]
      BY <3>2
    <3>5. EveryServiceIsFiled'
      BY <3>1, <3>2, <3>3, <3>4 DEF FiledInv, EveryServiceIsFiled
    <3>6. \A u \in Txs : DeletesCategory(u) => request[u].cat \notin cats
      BY <2>2 DEF FiledInv
    <3> HIDE DEF s, cats
    <3>7. \A u \in Txs : DeletesCategory(u)' => \A x \in services' : request'[u].cat \notin filed'[x]
      BY <1>2, <1>3, <1>4, <3>1, <3>2, <3>4, <3>6 DEF FiledInv
    <3> QED
      BY <1>2, <1>3, <1>4, <3>3, <3>5, <3>7 DEF FiledInv
  <2>3. CASE ~FilesService(t)
    <3>1. filed' = filed /\ services' = services
      BY <1>4, <2>1, <2>3 DEF Commit, FilesService
    <3>2. CASE DeletesCategory(t)
      <4>1. categories' = categories \ {request[t].cat}
        BY <1>4, <3>2 DEF Commit, CreatesCategory, DeletesCategory
      <4>2. EveryServiceIsFiled'
        BY <3>1, <3>2, <4>1 DEF FiledInv, EveryServiceIsFiled
      <4>3. \A u \in Txs : FilesService(u)' => request'[u].cats \subseteq categories'
        BY <1>2, <1>3, <1>4, <3>2, <4>1 DEF FiledInv
      <4> QED
        BY <1>2, <1>3, <1>4, <3>1, <4>2, <4>3 DEF FiledInv
    <3>3. CASE ~DeletesCategory(t)
      <4>1. categories \subseteq categories'
        BY <1>4, <3>3 DEF Commit
      <4>2. EveryServiceIsFiled'
        BY <3>1, <4>1 DEF FiledInv, EveryServiceIsFiled
      <4> QED
        BY <1>2, <1>3, <1>4, <3>1, <4>1, <4>2 DEF FiledInv
    <3> QED
      BY <3>2, <3>3
  <2> QED
    BY <2>2, <2>3
<1>5. ASSUME NEW t \in Txs, Rollback(t) \/ DeleteNothing(t) PROVE FiledInv'
  BY <1>2, <1>3, <1>5 DEF Rollback, DeleteNothing, FiledInv, EveryServiceIsFiled
<1>6. ASSUME NEW t \in Txs, FileService(t) PROVE FiledInv'
  <2>1. \A u \in Txs : u # t => at'[u] = at[u]
    BY <1>6 DEF FileService
  <2>2. \A u \in Txs : /\ FilesService(u)' => FilesService(u) \/ u = t
                       /\ DeletesCategory(u)' => DeletesCategory(u) /\ u # t
    BY <1>6, <2>1 DEF FileService, FilesService, DeletesCategory, Op
  <2>3. request[t].cats \subseteq categories
    BY <1>6 DEF FileService
  <2>4. \A u \in Txs : u # t /\ DeletesCategory(u) => request[u].cat \notin request[t].cats
    BY <1>6 DEF FileService, Others
  <2> QED
    BY <1>6, <2>2, <2>3, <2>4 DEF FileService, FiledInv, EveryServiceIsFiled
<1>7. ASSUME NEW t \in Txs, DeleteCategory(t) PROVE FiledInv'
  <2>1. \A u \in Txs : u # t => at'[u] = at[u]
    BY <1>7 DEF DeleteCategory
  <2>2. request[t].op = "DeleteCategory"
    BY <1>7 DEF DeleteCategory, StageInv
  <2>3. \A u \in Txs : /\ FilesService(u)' => FilesService(u) /\ u # t
                       /\ DeletesCategory(u)' => DeletesCategory(u) \/ u = t
    BY <1>7, <2>1, <2>2 DEF DeleteCategory, FilesService, DeletesCategory, Op
  <2>4. \A u \in Txs : u # t /\ FilesService(u) => request[t].cat \notin request[u].cats
    BY <1>7 DEF DeleteCategory, Others
  <2> QED
    BY <1>7, <2>3, <2>4 DEF DeleteCategory, FiledInv, EveryServiceIsFiled
<1>8. ASSUME NEW t \in Txs, CheckRestricted(t) \/ IssueDelete(t) \/ Purge(t) \/ ClearRole(t) PROVE FiledInv'
  BY <1>8, FilingUnchanged DEF CheckRestricted, IssueDelete, Purge, ClearRole, StageInv, Op, ServiceOps
<1>9. ASSUME NEW t \in Txs, CreateCategory(t) \/ ReadCategory(t) \/ WriteCategory(t) \/ CountServices(t)
      PROVE FiledInv'
  BY <1>9, FilingUnchanged DEF CreateCategory, ReadCategory, WriteCategory, CountServices, StageInv, Op, ServiceOps
<1>10. ASSUME NEW t \in Txs, NEW s \in Services, AddRoleDefault(t, s) PROVE FiledInv'
  BY <1>10, FilingUnchanged DEF AddRoleDefault, StageInv, Op, ServiceOps
<1>11. CASE UNCHANGED vars
  BY <1>11 DEF vars, open, FiledInv, EveryServiceIsFiled, FilesService, DeletesCategory, Op
<1> QED
  BY <1>1, <1>4, <1>5, <1>6, <1>7, <1>8, <1>9, <1>10, <1>11 DEF Next

LEMMA ReportStep ==
    ASSUME AInv, [Next]_vars
    PROVE  ReportInv'
<1> USE DEF AInv, TypeOK, StageInv, Goto
<1>1. ASSUME NEW t \in Txs, NEW r \in Requests, Begin(t, r) PROVE ReportInv'
  BY <1>1 DEF Begin, ReportInv
<1>2. ASSUME NEW t \in Txs, Commit(t) \/ Rollback(t) \/ DeleteNothing(t) PROVE ReportInv'
  BY <1>2 DEF Commit, Rollback, DeleteNothing, Close, ReportInv
<1>3. ASSUME NEW t \in Txs,
             \/ FileService(t) \/ CheckRestricted(t) \/ CreateCategory(t) \/ ReadCategory(t)
             \/ WriteCategory(t) \/ CountServices(t) \/ DeleteCategory(t)
      PROVE  ReportInv'
  BY <1>3 DEF FileService, CheckRestricted, CreateCategory, ReadCategory, WriteCategory,
              CountServices, DeleteCategory, ReportInv
<1>4. ASSUME NEW t \in Txs, IssueDelete(t) PROVE ReportInv'
  <2>1. at[t] = "clear" => \A d \in Doomed(t) : d[1] = request[t].role
    BY DEF Doomed, Op
  <2> QED
    BY <1>4, <2>1 DEF IssueDelete, ReportInv
<1>5. ASSUME NEW t \in Txs, Purge(t) PROVE ReportInv'
  BY <1>5 DEF Purge, RolesOf, ReportInv
<1>6. ASSUME NEW t \in Txs, ClearRole(t) PROVE ReportInv'
  BY <1>6 DEF ClearRole, ReportInv
<1>7. ASSUME NEW t \in Txs, NEW s \in Services, AddRoleDefault(t, s) PROVE ReportInv'
  BY <1>7 DEF AddRoleDefault, ReportInv
<1>8. CASE UNCHANGED vars
  BY <1>8 DEF vars, open, ReportInv
<1> QED
  BY <1>1, <1>2, <1>3, <1>4, <1>5, <1>6, <1>7, <1>8 DEF Next

THEOREM AdminInvariant == Spec => []AInv
<1>1. Init => AInv
  <2> SUFFICES ASSUME Init PROVE AInv
    OBVIOUS
  <2> USE AdminAssumption DEF Init
  <2>1. filed \in [Services -> SUBSET Categories]
    OBVIOUS
  <2>2. \A s \in services : filed[s] # {} /\ filed[s] \subseteq categories
    OBVIOUS
  <2>3. TypeOK
    BY <2>1 DEF TypeOK, Rows, Stages
  <2>4. \A t \in Txs : ~FilesService(t) /\ ~DeletesCategory(t)
    BY DEF FilesService, DeletesCategory, Op
  <2> QED
    BY <2>2, <2>3, <2>4 DEF AInv, StageInv, FiledInv, EveryServiceIsFiled, ReportInv
<1>2. AInv /\ [Next]_vars => AInv'
  BY TypeStep, StageStep, FiledStep, ReportStep DEF AInv
<1> QED
  BY <1>1, <1>2, PTL DEF Spec

\* The type invariant of AdminCatalog.
THEOREM AdminTypeCorrect == Spec => []TypeOK
<1>1. AInv => TypeOK
  BY DEF AInv
<1> QED
  BY <1>1, AdminInvariant, PTL

\* Every service stays filed under categories that exist.
THEOREM ServicesStayFiled == Spec => []EveryServiceIsFiled
<1>1. AInv => EveryServiceIsFiled
  BY DEF AInv, FiledInv
<1> QED
  BY <1>1, AdminInvariant, PTL

\* The newest audit row accounts for every service that left a default view.
THEOREM AuditAccountsForDefaults == Spec => PurgesAreReported
<1>1. ASSUME AInv, [Next]_vars
      PROVE  [\A d \in defaults \ defaults' :
                \/ audit'.request.op = "SetRoleDefaults" /\ audit'.request.role = d[1]
                \/ d[1] \in audit'.purged]_vars
  <2>1. ASSUME NEW d \in defaults, d \notin defaults'
        PROVE  \/ audit'.request.op = "SetRoleDefaults" /\ audit'.request.role = d[1]
               \/ d[1] \in audit'.purged
    <3>1. PICK t \in Txs : Commit(t)
      BY <1>1, <2>1 DEF Next, vars, committed, Begin, FileService, CheckRestricted, CreateCategory,
         ReadCategory, WriteCategory, CountServices, DeleteCategory, IssueDelete, Purge, ClearRole,
         AddRoleDefault, Rollback, DeleteNothing
    <3>2. d \in gone[t] /\ audit' = [request |-> request[t], purged |-> purged[t]]
      BY <2>1, <3>1 DEF Commit
    <3>3. audit'.request = request[t] /\ audit'.purged = purged[t]
      BY <3>2
    <3> QED
      BY <1>1, <3>2, <3>3 DEF AInv, ReportInv
  <2> QED
    BY <2>1
<1> QED
  BY <1>1, AdminInvariant, PTL DEF Spec, PurgesAreReported

-----------------------------------------------------------------------------
(* A transaction that no other overlaps *)

Lone(t) == alone[t] /\ at[t] # "idle"

\* The rows the three use cases are to delete.
ServiceRows(t) == {d \in defaults : d[2] = request[t].svc}
CategoryRows(t) == {d \in defaults : request[t].cat \in filed[d[2]]}
StaleRows == {d \in defaults : d[1] \notin Configured}
RoleRows(t) == {d \in defaults : d[1] = request[t].role}

\* What is deleted and inserted so far, whoever else is there.
RowsInv ==
    \A t \in Txs :
        /\ at[t] \notin {"clear", "clearing", "adding", "done"} => gone[t] = {}
        /\ at[t] \notin {"adding", "done"} \/ request[t].op # "SetRoleDefaults" => added[t] = {}

NobodyElse == \A t \in Txs : Lone(t) => \A u \in Others(t) : at[u] = "idle"

LoneService(t) ==
    Lone(t) /\ request[t].op = "UpdateService" =>
        /\ at[t] = "purging" => seen[t] = ServiceRows(t)
        /\ at[t] = "done" /\ (\E k \in request[t].cats : Restricted(k)) => gone[t] = ServiceRows(t)

LoneCategory(t) ==
    Lone(t) /\ request[t].op = "UpdateCategory" =>
        /\ at[t] # "begun" => next[t] = IF request[t].vis = Keep THEN vis[request[t].cat] ELSE request[t].vis
        /\ at[t] = "purging" => seen[t] = CategoryRows(t)
        /\ at[t] = "done" /\ next[t] # Public => gone[t] = CategoryRows(t)

LoneDefaults(t) ==
    Lone(t) /\ request[t].op = "SetRoleDefaults" =>
        /\ at[t] = "purging" => seen[t] = StaleRows
        /\ at[t] \in {"clear", "clearing"} => gone[t] = StaleRows
        /\ at[t] = "clearing" => seen[t] = RoleRows(t)
        /\ at[t] \in {"adding", "done"} => gone[t] = StaleRows \cup RoleRows(t)
        /\ added[t] \subseteq {request[t].role} \X {s \in request[t].ids : ~IsRestricted(s)}
        /\ at[t] = "done" => added[t] = {request[t].role} \X request[t].ids

LInv == RowsInv /\ NobodyElse /\ \A t \in Txs : LoneService(t) /\ LoneCategory(t) /\ LoneDefaults(t)

Works(t) ==
    \/ FileService(t) \/ CheckRestricted(t) \/ CreateCategory(t) \/ ReadCategory(t)
    \/ WriteCategory(t) \/ CountServices(t) \/ DeleteCategory(t)
    \/ IssueDelete(t) \/ Purge(t) \/ ClearRole(t)
    \/ \E s \in Services : AddRoleDefault(t, s)

\* A statement of a transaction commits nothing, and changes nothing of another's.
LEMMA WorksAlone ==
    ASSUME TypeOK, NEW t \in Txs, Works(t)
    PROVE  /\ at[t] # "idle" /\ UNCHANGED <<committed, request, alone>>
           /\ \A u \in Others(t) : at'[u] = at[u] /\ gone'[u] = gone[u] /\ added'[u] = added[u]
BY DEF TypeOK, Works, FileService, CheckRestricted, CreateCategory, ReadCategory, WriteCategory,
       CountServices, DeleteCategory, IssueDelete, Purge, ClearRole, AddRoleDefault, Goto, Others, Op

LEMMA RowsStep ==
    ASSUME AInv, RowsInv, [Next]_vars
    PROVE  RowsInv'
<1> USE DEF AInv, TypeOK, StageInv, RowsInv, Goto
<1>1. ASSUME NEW t \in Txs, NEW r \in Requests, Begin(t, r) PROVE RowsInv'
  BY <1>1 DEF Begin
<1>2. ASSUME NEW t \in Txs, Commit(t) \/ Rollback(t) \/ DeleteNothing(t) PROVE RowsInv'
  BY <1>2 DEF Commit, Rollback, DeleteNothing, Close
<1>3. ASSUME NEW t \in Txs, Works(t),
             /\ at'[t] \notin {"clear", "clearing", "adding", "done"} => gone'[t] = {}
             /\ at'[t] \notin {"adding", "done"} \/ request[t].op # "SetRoleDefaults" => added'[t] = {}
      PROVE  RowsInv'
  BY <1>3, WorksAlone DEF Others
<1>4. ASSUME NEW t \in Txs,
             \/ FileService(t) \/ CheckRestricted(t) \/ CreateCategory(t) \/ ReadCategory(t)
             \/ WriteCategory(t) \/ CountServices(t) \/ DeleteCategory(t) \/ IssueDelete(t)
      PROVE  RowsInv'
  BY <1>3, <1>4 DEF Works, FileService, CheckRestricted, CreateCategory, ReadCategory, WriteCategory,
                    CountServices, DeleteCategory, IssueDelete, Op
<1>5. ASSUME NEW t \in Txs, Purge(t) \/ ClearRole(t) PROVE RowsInv'
  BY <1>3, <1>5 DEF Works, Purge, ClearRole, Op
<1>6. ASSUME NEW t \in Txs, NEW s \in Services, AddRoleDefault(t, s) PROVE RowsInv'
  BY <1>3, <1>6 DEF Works, AddRoleDefault
<1>7. CASE UNCHANGED vars
  BY <1>7 DEF vars, open
<1> QED
  BY <1>1, <1>2, <1>4, <1>5, <1>6, <1>7 DEF Next

\* After a step of t, no other open transaction has been alone all along, and t has only
\* if it was before, or has just begun.
LEMMA OnlyOneLone ==
    ASSUME AInv, NobodyElse, NEW t \in Txs,
           Works(t) \/ Commit(t) \/ Rollback(t) \/ DeleteNothing(t) \/ \E r \in Requests : Begin(t, r)
    PROVE  /\ NobodyElse' /\ \A u \in Others(t) : ~Lone(u)'
           /\ Works(t) => (Lone(t)' => Lone(t))
<1> USE DEF AInv, TypeOK, NobodyElse, Lone, Others, Goto
<1>1. CASE Works(t)
  BY <1>1, WorksAlone
<1>2. CASE Commit(t) \/ Rollback(t) \/ DeleteNothing(t)
  <2>1. at[t] # "idle" /\ alone' = alone /\ at' = [at EXCEPT ![t] = "idle"]
    BY <1>2 DEF Commit, Rollback, DeleteNothing, Close
  <2>2. ~Lone(t)' /\ \A u \in Others(t) : ~Lone(u)'
    BY <2>1
  <2>3. NobodyElse'
    BY <2>2
  <2> QED
    BY <2>2, <2>3
<1>3. ASSUME NEW r \in Requests, Begin(t, r)
      PROVE  NobodyElse' /\ (\A u \in Others(t) : ~Lone(u)') /\ at[t] = "idle"
  <2>1. /\ \A u \in Txs : alone'[u] = (u = t /\ \A o \in Others(t) : at[o] = "idle")
        /\ \A u \in Others(t) : at'[u] = at[u]
    BY <1>3 DEF Begin
  <2>2. \A u \in Others(t) : ~alone'[u]
    BY <2>1
  <2>3. alone'[t] => \A o \in Others(t) : at[o] = "idle"
    BY <2>1
  <2> QED
    BY <1>3, <2>1, <2>2, <2>3 DEF Begin
<1>4. Works(t) => at[t] # "idle"
  BY WorksAlone
<1> QED
  BY <1>1, <1>2, <1>3, <1>4

\* The DELETE asks for the rows of its use case.
LEMMA DoomedRows ==
    ASSUME NEW t \in Txs, at[t] # "idle"
    PROVE  /\ request[t].op = "UpdateService" => Doomed(t) = ServiceRows(t)
           /\ request[t].op = "UpdateCategory" => Doomed(t) = CategoryRows(t)
           /\ request[t].op = "SetRoleDefaults" /\ at[t] = "purge" => Doomed(t) = StaleRows
           /\ request[t].op = "SetRoleDefaults" /\ at[t] = "clear" => Doomed(t) = RoleRows(t)
<1>1. ASSUME request[t].op = "UpdateService" PROVE Doomed(t) = ServiceRows(t)
  <2>1. Op(t) = "UpdateService"
    BY <1>1 DEF Op
  <2> QED
    BY <2>1 DEF Doomed, ServiceRows
<1>2. ASSUME request[t].op = "UpdateCategory" PROVE Doomed(t) = CategoryRows(t)
  <2>1. Op(t) = "UpdateCategory"
    BY <1>2 DEF Op
  <2> QED
    BY <2>1 DEF Doomed, CategoryRows
<1>3. ASSUME request[t].op = "SetRoleDefaults", at[t] = "purge" PROVE Doomed(t) = StaleRows
  <2>1. Op(t) = "SetRoleDefaults"
    BY <1>3 DEF Op
  <2> QED
    BY <1>3, <2>1 DEF Doomed, StaleRows
<1>4. ASSUME request[t].op = "SetRoleDefaults", at[t] = "clear" PROVE Doomed(t) = RoleRows(t)
  <2>1. Op(t) = "SetRoleDefaults"
    BY <1>4 DEF Op
  <2> QED
    BY <1>4, <2>1 DEF Doomed, RoleRows
<1> QED
  BY <1>1, <1>2, <1>3, <1>4

LEMMA LoneServiceStep ==
    ASSUME AInv, NEW t \in Txs, Works(t), Lone(t), LoneService(t), RowsInv
    PROVE  LoneService(t)'
<1> USE DEF AInv, TypeOK, StageInv, Goto
<1> SUFFICES ASSUME request[t].op = "UpdateService" PROVE LoneService(t)'
  BY WorksAlone DEF LoneService
<1>1. /\ ServiceRows(t)' = ServiceRows(t) /\ \A k \in Categories : Restricted(k)' = Restricted(k)
      /\ UNCHANGED request
  BY WorksAlone DEF ServiceRows, Restricted, committed
<1>2. request[t].cats \subseteq Categories
  BY RequestFields DEF ServiceOps, Some, Lone
<1> USE DEF LoneService, Works
<1>3. CASE FileService(t)
  BY <1>3 DEF FileService, Op
<1>4. CASE CheckRestricted(t)
  BY <1>1, <1>2, <1>4 DEF CheckRestricted
<1>5. CASE IssueDelete(t)
  BY <1>1, <1>5, DoomedRows DEF IssueDelete
<1>6. CASE Purge(t)
  BY <1>1, <1>6 DEF Purge, Op
<1> QED
  BY <1>3, <1>4, <1>5, <1>6 DEF CreateCategory, ReadCategory, WriteCategory, CountServices,
     DeleteCategory, ClearRole, AddRoleDefault, Op

LEMMA LoneCategoryStep ==
    ASSUME AInv, NEW t \in Txs, Works(t), Lone(t), LoneCategory(t)
    PROVE  LoneCategory(t)'
<1> USE DEF AInv, TypeOK, StageInv, Goto
<1> SUFFICES ASSUME request[t].op = "UpdateCategory" PROVE LoneCategory(t)'
  BY WorksAlone DEF LoneCategory
<1>1. CategoryRows(t)' = CategoryRows(t) /\ UNCHANGED <<request, vis>>
  BY WorksAlone DEF CategoryRows, committed
<1> USE DEF LoneCategory, Works
<1>2. CASE ReadCategory(t)
  BY <1>1, <1>2 DEF ReadCategory, Op
<1>3. CASE WriteCategory(t)
  BY <1>1, <1>3 DEF WriteCategory
<1>4. CASE IssueDelete(t)
  BY <1>1, <1>4, DoomedRows DEF IssueDelete
<1>5. CASE Purge(t)
  BY <1>1, <1>5 DEF Purge, Op
<1> QED
  BY <1>2, <1>3, <1>4, <1>5 DEF FileService, CheckRestricted, CreateCategory, CountServices,
     DeleteCategory, ClearRole, AddRoleDefault, Op

\* A list that lacks one row, with that row, is the list.
LEMMA LastRow ==
    ASSUME NEW role, NEW ids, IsFiniteSet(ids), NEW A, A \subseteq {role} \X ids,
           NEW s \in ids, <<role, s>> \notin A, Cardinality(A) + 1 = Cardinality(ids)
    PROVE  A \cup {<<role, s>>} = {role} \X ids
<1> DEFINE All == {role} \X ids
<1>1. IsFiniteSet({role}) /\ Cardinality({role}) = 1
  BY FS_Singleton
<1>2. IsFiniteSet(All) /\ Cardinality(All) = Cardinality(ids)
  <2>1. IsFiniteSet(All) /\ Cardinality(All) = Cardinality({role}) * Cardinality(ids)
    BY <1>1, FS_Product
  <2> QED
    BY <1>1, <2>1, FS_CardinalityType
<1>3. IsFiniteSet(A)
  BY <1>2, FS_Subset
<1>4. Cardinality(A \cup {<<role, s>>}) = Cardinality(A) + 1
  BY <1>3, FS_AddElement
<1>5. A \cup {<<role, s>>} \subseteq All
  OBVIOUS
<1> HIDE DEF All
<1>6. A \cup {<<role, s>>} = All
  BY <1>2, <1>4, <1>5, FS_Subset
<1> QED
  BY <1>6 DEF All

LEMMA LoneDefaultsStep ==
    ASSUME AInv, NEW t \in Txs, Works(t), Lone(t), LoneDefaults(t), RowsInv
    PROVE  LoneDefaults(t)'
<1> USE DEF AInv, TypeOK, StageInv, Goto
<1> SUFFICES ASSUME request[t].op = "SetRoleDefaults" PROVE LoneDefaults(t)'
  BY WorksAlone DEF LoneDefaults
<1>1. /\ StaleRows' = StaleRows /\ RoleRows(t)' = RoleRows(t) /\ UNCHANGED request
      /\ {s \in request[t].ids : ~IsRestricted(s)}' = {s \in request[t].ids : ~IsRestricted(s)}
  BY WorksAlone DEF StaleRows, RoleRows, IsRestricted, Restricted, committed
<1>2. request[t].ids \subseteq Services /\ IsFiniteSet(request[t].ids)
  BY RequestFields, AdminAssumption, FS_Subset DEF Lone
<1>3. Op(t) = "SetRoleDefaults"
  BY DEF Op, Lone
<1>4. CASE IssueDelete(t)
  BY <1>1, <1>4, DoomedRows DEF IssueDelete, LoneDefaults, Lone
<1>5. CASE Purge(t)
  BY <1>1, <1>3, <1>5 DEF Purge, LoneDefaults, RowsInv, Lone
<1>6. CASE ClearRole(t)
  <2>1. added[t] = {}
    BY <1>6 DEF ClearRole, RowsInv
  <2>2. request[t].ids = {} => {request[t].role} \X request[t].ids = {}
    OBVIOUS
  <2> QED
    BY <1>1, <1>6, <2>1, <2>2 DEF ClearRole, LoneDefaults, Lone
<1>7. ASSUME NEW s \in Services, AddRoleDefault(t, s) PROVE LoneDefaults(t)'
  <2> DEFINE role == request[t].role
  <2> DEFINE ids == request[t].ids
  <2>1. /\ s \in ids /\ ~IsRestricted(s) /\ <<role, s>> \notin added[t] /\ at[t] = "adding"
        /\ added'[t] = added[t] \cup {<<role, s>>} /\ gone' = gone
        /\ at'[t] = IF Cardinality(added[t]) + 1 = Cardinality(ids) THEN "done" ELSE "adding"
    BY <1>7 DEF AddRoleDefault
  <2>2. added[t] \subseteq {role} \X {x \in ids : ~IsRestricted(x)}
    BY DEF LoneDefaults
  <2>3. added'[t] \subseteq {role} \X {x \in ids : ~IsRestricted(x)}
    BY <2>1, <2>2
  <2>4. ASSUME at'[t] = "done" PROVE added'[t] = {role} \X ids
    <3>1. added[t] \subseteq {role} \X ids /\ Cardinality(added[t]) + 1 = Cardinality(ids)
      BY <2>1, <2>2, <2>4
    <3> HIDE DEF role, ids
    <3> QED
      BY <1>2, <2>1, <3>1, LastRow DEF ids
  <2> QED
    BY <1>1, <2>1, <2>3, <2>4 DEF LoneDefaults
<1> QED
  BY <1>3, <1>4, <1>5, <1>6, <1>7 DEF Works, FileService, CheckRestricted, CreateCategory, ReadCategory,
     WriteCategory, CountServices, DeleteCategory

THEOREM LoneInvariant == Spec => []LInv
<1>1. Init => LInv
  BY DEF Init, LInv, RowsInv, NobodyElse, Lone, LoneService, LoneCategory, LoneDefaults
<1>2. ASSUME AInv, LInv, [Next]_vars PROVE LInv'
  <2>1. RowsInv'
    BY <1>2, RowsStep DEF LInv
  <2>2. ASSUME NEW t \in Txs, Works(t) PROVE LInv'
    <3>1. NobodyElse' /\ (\A u \in Others(t) : ~Lone(u)') /\ (Lone(t)' => Lone(t))
      BY <1>2, <2>2, OnlyOneLone DEF LInv
    <3>2. LoneService(t)' /\ LoneCategory(t)' /\ LoneDefaults(t)'
      <4>1. CASE Lone(t)
        BY <1>2, <2>2, <4>1, LoneServiceStep, LoneCategoryStep, LoneDefaultsStep DEF LInv
      <4>2. CASE ~Lone(t)
        BY <3>1, <4>2 DEF LoneService, LoneCategory, LoneDefaults
      <4> QED
        BY <4>1, <4>2
    <3>3. \A u \in Others(t) : LoneService(u)' /\ LoneCategory(u)' /\ LoneDefaults(u)'
      BY <3>1 DEF LoneService, LoneCategory, LoneDefaults
    <3> QED
      BY <2>1, <3>1, <3>2, <3>3 DEF LInv, Others
  <2>3. ASSUME NEW t \in Txs, Commit(t) \/ Rollback(t) \/ DeleteNothing(t) PROVE LInv'
    <3>1. NobodyElse' /\ \A u \in Others(t) : ~Lone(u)'
      BY <1>2, <2>3, OnlyOneLone DEF LInv
    <3>2. ~Lone(t)'
      BY <1>2, <2>3 DEF AInv, TypeOK, Lone, Commit, Rollback, DeleteNothing, Close, Goto
    <3> QED
      BY <2>1, <3>1, <3>2 DEF LInv, Others, LoneService, LoneCategory, LoneDefaults
  <2>4. ASSUME NEW t \in Txs, NEW r \in Requests, Begin(t, r) PROVE LInv'
    <3>1. NobodyElse' /\ \A u \in Others(t) : ~Lone(u)'
      BY <1>2, <2>4, OnlyOneLone DEF LInv
    <3>2. \A u \in Others(t) : LoneService(u)' /\ LoneCategory(u)' /\ LoneDefaults(u)'
      BY <3>1 DEF LoneService, LoneCategory, LoneDefaults
    <3>3. /\ request'[t] = r /\ added'[t] = {} /\ gone'[t] = {}
          /\ at'[t] = IF r.op = "SetRoleDefaults" THEN "purge" ELSE "begun"
      BY <1>2, <2>4 DEF AInv, TypeOK, LInv, RowsInv, Begin, Goto
    <3>4. LoneService(t)' /\ LoneCategory(t)' /\ LoneDefaults(t)'
      BY <3>3 DEF LoneService, LoneCategory, LoneDefaults
    <3> QED
      BY <2>1, <3>1, <3>2, <3>4 DEF LInv, Others
  <2>5. CASE UNCHANGED vars
    <3>1. NobodyElse' /\ \A t \in Txs : Lone(t)' <=> Lone(t)
      BY <1>2, <2>5 DEF LInv, NobodyElse, Lone, vars, open
    <3>2. \A t \in Txs : LoneService(t)' /\ LoneCategory(t)' /\ LoneDefaults(t)'
      BY <1>2, <2>5 DEF LInv, Lone, LoneService, LoneCategory, LoneDefaults, ServiceRows, CategoryRows,
         StaleRows, RoleRows, Restricted, IsRestricted, vars, open, committed
    <3> QED
      BY <2>1, <3>1, <3>2 DEF LInv
  <2> QED
    BY <1>2, <2>2, <2>3, <2>4, <2>5 DEF Next, Works
<1> QED
  BY <1>1, <1>2, AdminInvariant, PTL DEF Spec

\* A write that no other overlapped leaves exactly what its comment promises,
\* whatever overlapping writes did before it.
THEOREM QuietWritesAreExact == Spec => QuietWritesKeepPromises
<1> DEFINE Kept(t) ==
        LET r == request[t] IN
        /\ r.op = "UpdateService" /\ (\E k \in r.cats : Restricted(k)) => \A d \in defaults' : d[2] # r.svc
        /\ r.op = "UpdateCategory" /\ vis'[r.cat] # Public => \A d \in defaults' : r.cat \notin filed'[d[2]]
        /\ r.op = "UpdateCategory" /\ r.vis = Keep => vis' = vis
        /\ r.op = "SetRoleDefaults" =>
            /\ {d \in defaults' : d[1] = r.role} = {r.role} \X r.ids
            /\ \A d \in defaults' : d[1] \in Configured
            /\ \A s \in r.ids : ~IsRestricted(s)
<1>1. ASSUME AInv, LInv, NEW t \in Txs, alone[t], Commit(t) PROVE Kept(t)
  <2> DEFINE r == request[t]
  <2>1. at[t] = "done" /\ Lone(t) /\ Op(t) = r.op /\ r \in Requests
    BY <1>1 DEF Commit, Lone, Op, AInv, StageInv
  <2>2. defaults' = (defaults \ gone[t]) \cup added[t]
    BY <1>1 DEF Commit
  <2>3. r.op # "SetRoleDefaults" => added[t] = {}
    BY <1>1 DEF LInv, RowsInv
  <2>4. LoneService(t) /\ LoneCategory(t) /\ LoneDefaults(t)
    BY <1>1 DEF LInv
  <2>5. ASSUME r.op = "UpdateService", \E k \in r.cats : Restricted(k)
        PROVE  \A d \in defaults' : d[2] # r.svc
    BY <2>1, <2>2, <2>3, <2>4, <2>5 DEF LoneService, ServiceRows
  <2>6. ASSUME r.op = "UpdateCategory"
        PROVE  /\ vis' = [vis EXCEPT ![r.cat] = next[t]] /\ filed' = filed /\ r.cat \in Categories
               /\ vis \in [Categories -> Visibilities \cup {Public}]
    BY <1>1, <2>1, <2>6, RequestFields
       DEF Commit, CreatesCategory, EditsCategory, DeletesCategory, FilesService, AInv, TypeOK
  <2>7. ASSUME r.op = "UpdateCategory", vis'[r.cat] # Public
        PROVE  \A d \in defaults' : r.cat \notin filed'[d[2]]
    <3>1. gone[t] = CategoryRows(t)
      BY <2>1, <2>4, <2>6, <2>7 DEF LoneCategory
    <3> QED
      BY <2>2, <2>3, <2>6, <2>7, <3>1 DEF CategoryRows
  <2>8. ASSUME r.op = "UpdateCategory", r.vis = Keep PROVE vis' = vis
    <3>1. next[t] = vis[r.cat]
      BY <2>1, <2>4, <2>8 DEF LoneCategory
    <3> QED
      BY <2>6, <2>8, <3>1
  <2>9. ASSUME r.op = "SetRoleDefaults"
        PROVE  /\ {d \in defaults' : d[1] = r.role} = {r.role} \X r.ids
               /\ \A d \in defaults' : d[1] \in Configured
               /\ \A s \in r.ids : ~IsRestricted(s)
    <3>1. gone[t] = StaleRows \cup RoleRows(t) /\ added[t] = {r.role} \X r.ids /\ r.role \in Configured
      BY <2>1, <2>4, <2>9, RequestFields DEF LoneDefaults
    <3>2. added[t] \subseteq {r.role} \X {s \in r.ids : ~IsRestricted(s)}
      BY <2>1, <2>4, <2>9 DEF LoneDefaults
    <3> HIDE DEF r
    <3>3. {d \in defaults' : d[1] = r.role} = {r.role} \X r.ids
      <4>1. \A d \in defaults \ gone[t] : d[1] # r.role
        BY <3>1 DEF RoleRows, r
      <4>2. \A d \in added[t] : d[1] = r.role
        BY <3>1
      <4> QED
        BY <2>2, <3>1, <4>1, <4>2
    <3>4. \A d \in defaults' : d[1] \in Configured
      <4>1. \A d \in defaults \ gone[t] : d[1] \in Configured
        BY <3>1 DEF StaleRows
      <4> QED
        BY <2>2, <3>1, <4>1
    <3>5. \A s \in r.ids : ~IsRestricted(s)
      <4> SUFFICES ASSUME NEW s \in r.ids PROVE ~IsRestricted(s)
        OBVIOUS
      <4>1. <<r.role, s>> \in {r.role} \X {x \in r.ids : ~IsRestricted(x)}
        BY <3>1, <3>2
      <4> QED
        BY <4>1
    <3> QED
      BY <3>3, <3>4, <3>5
  <2> QED
    BY <2>5, <2>7, <2>8, <2>9
<1>2. AInv /\ LInv => [\A t \in Txs : alone[t] /\ Commit(t) => Kept(t)]_vars
  BY <1>1
<1> QED
  BY <1>2, AdminInvariant, LoneInvariant, PTL DEF QuietWritesKeepPromises

=============================================================================
