----------------------------- MODULE JobRegistry -----------------------------
(***************************************************************************)
(* The aggregation jobs that administrators keep through                   *)
(* /AggregationJobs.  A job is a row of TimescaleDB whose config names its *)
(* Datastreams; the procedure aggregate_datastream resolves the names anew *)
(* at every run.  POST resolves the names to ids, takes an advisory lock   *)
(* on the ids, looks for a job of the same names or ids and adds the job,  *)
(* all in one READ COMMITTED transaction; meanwhile other requests rename  *)
(* and remove Datastreams, and operators add and delete jobs by SQL.       *)
(***************************************************************************)
EXTENDS Naturals, FiniteSets

CONSTANTS JobPost,       \* POSTs of AggregationJobs
          Name,          \* names of Datastreams, unique (DUPLICATES=0)
          Payload,       \* what the POSTs carry
          MaxDatastream, \* bound: Datastreams, at most one per name
          MaxJob,        \* bound: jobs ever added
          MaxChange,     \* bound: renames and removals of Datastreams
          NoName, NoDatastream, NoJob

Datastream == 1..MaxDatastream
JobId == 0..MaxJob   \* 0: no number drawn yet
Procedure == {p.procedure : p \in Payload}

VARIABLES
    name,     \* name[d]: the name of Datastream d, or NoName
    jobs,     \* the committed jobs
    jobPost,  \* jobPost[r]: how far r is, its ids and its uncommitted job
    nextJob, changes

registryVars == <<name, jobs, jobPost, nextJob, changes>>

\* A reference to a Datastream in a config is a name or an id, not both.
Reference == [name : Name, id : {NoDatastream}]
               \union [name : {NoName}, id : Datastream]

JobRow == [id : JobId, procedure : Procedure, source : Reference,
        target : Reference, availability : SUBSET Datastream,
        age : {"absent", "zero", "positive"},
        policy : {"missing", "zero_when_available"}, enabled : BOOLEAN,
        \* history: what the names stood for when the request resolved them,
        \* and the jobs it saw when it looked for a duplicate
        meant : [Name -> Datastream \union {NoDatastream}], seen : SUBSET JobId]

ASSUME BoundAssumption ==
    MaxDatastream \in Nat /\ MaxJob \in Nat /\ MaxChange \in Nat
ASSUME NoneAssumption ==
    NoName \notin Name /\ NoDatastream \notin Datastream /\ NoJob \notin JobRow
ASSUME PayloadAssumption ==
    Payload \subseteq [procedure : Procedure, source : Name, target : Name,
                       availability : SUBSET Name, age : {"absent", "zero", "positive"},
                       policy : {"missing", "zero_when_available"}, enabled : BOOLEAN]
\* The column "name" is UNIQUE: there is a name for each Datastream.
ASSUME NameAssumption ==
    \E f \in [Datastream -> Name] : \A d, e \in Datastream : d # e => f[d] # f[e]

NotPosted == [pc |-> "idle", job |-> NoJob]

RegistryTypeOK ==
    /\ name \in [Datastream -> Name \union {NoName}]
    /\ jobs \subseteq JobRow
    /\ jobPost \in [JobPost ->
          [pc : {"idle", "resolved", "locked", "added", "done", "refused"},
           job : JobRow \union {NoJob}]]
    /\ \A r \in JobPost :
          jobPost[r].pc \in {"resolved", "locked", "added"} => jobPost[r].job # NoJob
    /\ nextJob \in 1..(MaxJob + 1) /\ changes \in 0..MaxChange
    /\ \A d, e \in Datastream : d # e /\ name[d] # NoName => name[d] # name[e]
    /\ \A j, k \in jobs : j.id = k.id => j = k

RegistryInit ==
    \* Any assignment of names: ids are only compared with each other.
    /\ name = CHOOSE f \in [Datastream -> Name] :
                 \A d, e \in Datastream : d # e => f[d] # f[e]
    /\ jobs = {}
    /\ jobPost = [r \in JobPost |-> NotPosted]
    /\ nextJob = 1 /\ changes = 0

-----------------------------------------------------------------------------
(* What POST accepts.                                                      *)

\* The Datastream of a name, in a query of its own.
Resolve(n) ==
    IF \E d \in Datastream : name[d] = n
    THEN CHOOSE d \in Datastream : name[d] = n
    ELSE NoDatastream

ByName(n) == [name |-> n, id |-> NoDatastream]
ById(d) == [name |-> NoName, id |-> d]

\* The payload alone.
Acceptable(p) ==
    /\ p.source # p.target
    /\ p.availability # {} => p.age # "absent"
    /\ p.policy = "zero_when_available" => p.availability # {} /\ p.age # "absent"

\* What only the database can tell of the options: intervals and time zones.
OptionsValid(p) == p.age # "zero"

ResolvableAnyTarget(p) ==
    \A n \in {p.source, p.target} \union p.availability : Resolve(n) # NoDatastream

\* All Datastreams exist, and the target does not prove the activity of a station.
Resolvable(p) ==
    /\ \A n \in {p.source, p.target} \union p.availability :
          Resolve(n) # NoDatastream
    /\ p.target \notin p.availability

\* The config keeps source and target as names, the availability as ids.
Config(p) ==
    [id |-> 0, procedure |-> p.procedure,
     source |-> ByName(p.source), target |-> ByName(p.target),
     availability |-> {Resolve(n) : n \in p.availability},
     age |-> p.age, policy |-> p.policy, enabled |-> p.enabled,
     meant |-> [n \in Name |-> Resolve(n)], seen |-> {}]

\* The identity under which a request locks its job.
LockKey(j) == <<j.procedure, j.meant[j.source.name], j.meant[j.target.name]>>

\* find_duplicate_job: k was added for the names or for the ids of j.
Matches(k, j) ==
    /\ k.procedure = j.procedure
    /\ k.source \in {j.source, ById(j.meant[j.source.name])}
    /\ k.target \in {j.target, ById(j.meant[j.target.name])}

-----------------------------------------------------------------------------
(* POST /AggregationJobs.                                                  *)

\* Validate the payload and resolve its names: 400 or 404, or go on.
Receive(r, p) ==
    /\ jobPost[r] = NotPosted
    /\ jobPost' = [jobPost EXCEPT ![r] =
          IF Acceptable(p) /\ OptionsValid(p) /\ Resolvable(p)
          THEN [pc |-> "resolved", job |-> Config(p)]
          ELSE [pc |-> "refused", job |-> NoJob]]
    /\ UNCHANGED <<name, jobs, nextJob, changes>>

LockFree(r) == TRUE

\* pg_advisory_xact_lock waits for every open transaction with the same identity.
Unlocked(r) ==
    \A q \in JobPost \ {r} :
        jobPost[q].pc \in {"locked", "added"} =>
            LockKey(jobPost[q].job) # LockKey(jobPost[r].job)

TakeLock(r) ==
    /\ jobPost[r].pc = "resolved" /\ Unlocked(r)
    /\ jobPost' = [jobPost EXCEPT ![r].pc = "locked"]
    /\ UNCHANGED <<name, jobs, nextJob, changes>>

\* Look for a duplicate (409), else add the job, uncommitted.
AddJob(r) ==
    LET j == jobPost[r].job IN
    /\ jobPost[r].pc = "locked"
    /\ IF \E k \in jobs : Matches(k, j)
       THEN /\ jobPost' = [jobPost EXCEPT ![r].pc = "refused"]
            /\ UNCHANGED nextJob
       ELSE /\ nextJob <= MaxJob
            /\ nextJob' = nextJob + 1
            /\ jobPost' = [jobPost EXCEPT
                 ![r] = [pc |-> "added",
                         job |-> [j EXCEPT !.id = nextJob,
                                           !.seen = {k.id : k \in jobs}]]]
    /\ UNCHANGED <<name, jobs, changes>>

\* The job is read back and the transaction commits.
CommitJob(r) ==
    /\ jobPost[r].pc = "added"
    /\ jobs' = jobs \union {jobPost[r].job}
    /\ jobPost' = [jobPost EXCEPT ![r].pc = "done"]
    /\ UNCHANGED <<name, nextJob, changes>>

\* An error or a lost connection: nothing is kept but the number drawn.
AbandonJob(r) ==
    /\ jobPost[r].pc \in {"resolved", "locked", "added"}
    /\ jobPost' = [jobPost EXCEPT ![r].pc = "refused"]
    /\ UNCHANGED <<name, jobs, nextJob, changes>>

-----------------------------------------------------------------------------
(* The other requests and the operator.                                    *)

\* PATCH /AggregationJobs(id), one transaction: only "enabled" can be changed.
SetEnabled(j, on) ==
    /\ j \in jobs
    /\ jobs' = (jobs \ {j}) \union {[j EXCEPT !.enabled = on]}
    /\ UNCHANGED <<name, jobPost, nextJob, changes>>

\* PATCH and DELETE of a Datastream; a name is taken by at most one.
Rename(d, n) ==
    /\ changes < MaxChange
    /\ name[d] # NoName /\ Resolve(n) = NoDatastream
    /\ name' = [name EXCEPT ![d] = n]
    /\ changes' = changes + 1
    /\ UNCHANGED <<jobs, jobPost, nextJob>>

RemoveDatastream(d) ==
    /\ changes < MaxChange
    /\ name[d] # NoName
    /\ name' = [name EXCEPT ![d] = NoName]
    /\ changes' = changes + 1
    /\ UNCHANGED <<jobs, jobPost, nextJob>>

\* An operator's add_job, which may name the Datastreams by id, and delete_job.
AddBySql(s, t, procedure) ==
    /\ nextJob <= MaxJob
    /\ s # t /\ name[s] # NoName /\ name[t] # NoName
    /\ jobs' = jobs \union
         {[id |-> nextJob, procedure |-> procedure,
           source |-> ById(s), target |-> ById(t), availability |-> {},
           age |-> "absent", policy |-> "missing", enabled |-> TRUE,
           meant |-> [n \in Name |-> Resolve(n)], seen |-> {}]}
    /\ nextJob' = nextJob + 1
    /\ UNCHANGED <<name, jobPost, changes>>

DeleteBySql(j) ==
    /\ j \in jobs
    /\ jobs' = jobs \ {j}
    /\ UNCHANGED <<name, jobPost, nextJob, changes>>

RegistryNext ==
    \/ \E r \in JobPost :
          \/ \E p \in Payload : Receive(r, p)
          \/ TakeLock(r) \/ AddJob(r) \/ CommitJob(r) \/ AbandonJob(r)
    \/ \E j \in jobs : DeleteBySql(j) \/ \E on \in BOOLEAN : SetEnabled(j, on)
    \/ \E d \in Datastream :
          \/ RemoveDatastream(d)
          \/ \E n \in Name : Rename(d, n)
    \/ \E s, t \in Datastream, p \in Procedure : AddBySql(s, t, p)

RegistrySpec == RegistryInit /\ [][RegistryNext]_registryVars
-----------------------------------------------------------------------------
(* A run of a job: what aggregate_datastream makes of its config.          *)

\* The Datastream a run uses: the id if there is one, else the name of now.
RunUses(reference) ==
    IF reference.id # NoDatastream THEN reference.id ELSE Resolve(reference.name)

\* The checks of the procedure before it aggregates anything; each raises.
RunSourceAndTarget(j) ==
    /\ RunUses(j.source) # NoDatastream
    /\ RunUses(j.target) # NoDatastream
    /\ RunUses(j.source) # RunUses(j.target)

RunAvailability(j) ==
    /\ j.age # "zero"
    /\ j.availability # {} =>
          /\ j.age # "absent"
          /\ \A d \in j.availability : name[d] # NoName
          /\ RunUses(j.target) \notin j.availability
    /\ j.policy = "zero_when_available" => j.age # "absent" /\ j.availability # {}

Runs(j) == RunSourceAndTarget(j) /\ RunAvailability(j)

-----------------------------------------------------------------------------
(* Properties.                                                             *)

FromApi(j) == j.source.id = NoDatastream

\* The names of Datastreams are those the request of j resolved, and its
\* Datastreams are still there.
StillMeant(j) ==
    /\ \A n \in {j.source.name, j.target.name} : Resolve(n) = j.meant[n]
    /\ \A d \in j.availability : name[d] # NoName

\* The checks of the API (aggregation_job.py:173, :440) and those of the procedure
\* agree: whatever requests do meanwhile, a job that POST accepted never fails on
\* its configuration while its names mean the Datastreams they meant, and it reads
\* and writes those.
AcceptedJobsRun ==
    \A j \in jobs : FromApi(j) /\ StillMeant(j) =>
        /\ Runs(j)
        /\ RunUses(j.source) = j.meant[j.source.name]
        /\ RunUses(j.target) = j.meant[j.target.name]

\* k was made for the names of j, or by SQL for the Datastreams j meant.
SameWork(k, j) ==
    /\ k.procedure = j.procedure
    /\ \/ k.source.name = j.source.name /\ k.target.name = j.target.name
       \/ /\ k.source.id = j.meant[j.source.name]
          /\ k.target.id = j.meant[j.target.name]

\* One job per procedure, source and target, although the lock is on the ids and
\* the search on names or ids (aggregation_job.py:541, :559): two jobs of the API
\* for the same names exist only if the names changed hands while both requests
\* were open, and none was added for what an earlier job already did.
OneJobPerPair ==
    \A j, k \in jobs : FromApi(j) /\ j # k /\ SameWork(k, j) =>
        /\ k.id \notin j.seen
        /\ FromApi(k) => j.id \notin k.seen /\ LockKey(j) # LockKey(k)
=============================================================================
