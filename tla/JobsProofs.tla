------------------------------ MODULE JobsProofs ------------------------------
(***************************************************************************)
(* Theorems about JobRegistry and ImportJobs: the types of both; that a    *)
(* job the API accepted can run, and that there is one job per procedure,  *)
(* source and target; that a copy and a quality control which nobody       *)
(* disturbs do all their work, and that only a forced sheet or an override *)
(* replaces a measurement.                                                 *)
(*                                                                         *)
(* OneJobPerPair is about committed jobs, but two requests are kept apart  *)
(* by what they did before: RInv also speaks of the jobs that open         *)
(* transactions have added, of the ids drawn and seen, and of the advisory *)
(* locks held.  AloneComplete is about the end of a run: JobInv says what  *)
(* each request of it still has ahead, and what it holds in hand.          *)
(***************************************************************************)
EXTENDS JobRegistry, ImportJobs, FiniteSetTheorems, SequenceTheorems, WellFoundedInduction,
        TLAPS

\* The jobs added, also those of transactions that have not committed yet.
Adding == {r \in JobPost : jobPost[r].pc = "added"}
AllJobs == jobs \union {jobPost[r].job : r \in Adding}

\* Ids are drawn from a sequence, and a request has seen only ids drawn before.
Drawn == \A j \in AllJobs : j.id \in 1 .. (nextJob - 1) /\ j.seen \subseteq 1 .. (nextJob - 1)

\* No two jobs have the same id, whether they are committed or not.
Distinct ==
    /\ \A r \in Adding : \A k \in jobs : k.id # jobPost[r].job.id
    /\ \A q, r \in Adding : q # r => jobPost[q].job.id # jobPost[r].job.id

\* What the API makes of a payload it accepts.
Valid(j) ==
    /\ j.source.name \in Name /\ j.target.name \in Name
    /\ j.source = ByName(j.source.name) /\ j.target = ByName(j.target.name)
    /\ j.meant[j.source.name] \in Datastream /\ j.meant[j.target.name] \in Datastream
    /\ j.meant[j.source.name] # j.meant[j.target.name]
    /\ j.meant[j.target.name] \notin j.availability
    /\ j.age # "zero"
    /\ j.availability # {} => j.age # "absent"
    /\ j.policy = "zero_when_available" => j.availability # {} /\ j.age # "absent"

Accepted ==
    /\ \A j \in jobs : FromApi(j) => Valid(j)
    /\ \A r \in JobPost : jobPost[r].job # NoJob => Valid(jobPost[r].job)

\* A request adds its job only if it saw none that matches.
Searched == \A j, k \in AllJobs : FromApi(j) /\ k.id \in j.seen => ~Matches(k, j)

\* The advisory lock keeps two requests with the same identity apart.
Holding == {r \in JobPost : jobPost[r].pc \in {"locked", "added"}}
Exclusive ==
    \A q, r \in Holding : q # r => LockKey(jobPost[q].job) # LockKey(jobPost[r].job)

\* Two jobs of the API for the same names were added under different locks.
SameNames(j, k) ==
    j.procedure = k.procedure /\ j.source = k.source /\ j.target = k.target
Keyed ==
    \A j, k \in AllJobs :
        FromApi(j) /\ FromApi(k) /\ j.id # k.id /\ SameNames(j, k) => LockKey(j) # LockKey(k)

RInv == RegistryTypeOK /\ Drawn /\ Distinct /\ Accepted /\ Searched /\ Exclusive /\ Keyed

-----------------------------------------------------------------------------
(* Names and payloads.                                                     *)

\* A name resolves to the Datastream that has it, or to none.
LEMMA Resolved ==
    ASSUME name \in [Datastream -> Name \union {NoName}], NEW n \in Name
    PROVE  /\ Resolve(n) \in Datastream \union {NoDatastream}
           /\ Resolve(n) # NoDatastream => Resolve(n) \in Datastream /\ name[Resolve(n)] = n
           /\ (\E d \in Datastream : name[d] = n) => Resolve(n) # NoDatastream
  BY NoneAssumption DEF Resolve

\* What the API accepts makes a valid job.
LEMMA Configured ==
    ASSUME RegistryTypeOK, NEW p \in Payload, Acceptable(p), OptionsValid(p), Resolvable(p)
    PROVE  /\ Config(p) \in JobRow /\ Valid(Config(p))
           /\ Config(p).source = ByName(p.source) /\ Config(p).target = ByName(p.target)
  <1>1. /\ p.procedure \in Procedure /\ p.source \in Name /\ p.target \in Name
        /\ p.availability \in SUBSET Name /\ p.enabled \in BOOLEAN
        /\ p.age \in {"absent", "zero", "positive"}
        /\ p.policy \in {"missing", "zero_when_available"}
    BY PayloadAssumption
  <1>2. /\ \A n \in Name : Resolve(n) \in Datastream \union {NoDatastream}
        /\ \A n \in Name : Resolve(n) # NoDatastream =>
              Resolve(n) \in Datastream /\ name[Resolve(n)] = n
    BY Resolved DEF RegistryTypeOK
  <1>3. \A n \in {p.source, p.target} \union p.availability :
           Resolve(n) \in Datastream /\ name[Resolve(n)] = n
    BY <1>1, <1>2 DEF Resolvable
  <1>4. {Resolve(n) : n \in p.availability} \in SUBSET Datastream
    BY <1>3
  <1>5. ByName(p.source) \in Reference /\ ByName(p.target) \in Reference
    BY <1>1 DEF ByName, Reference
  <1>6. [n \in Name |-> Resolve(n)] \in [Name -> Datastream \union {NoDatastream}]
    BY <1>2
  <1>7. 0 \in JobId
    BY BoundAssumption DEF JobId
  <1> DEFINE j == Config(p)
  <1>8. /\ j.id = 0 /\ j.procedure = p.procedure /\ j.source = ByName(p.source)
        /\ j.target = ByName(p.target) /\ j.availability = {Resolve(n) : n \in p.availability}
        /\ j.age = p.age /\ j.policy = p.policy /\ j.enabled = p.enabled
        /\ j.meant = [n \in Name |-> Resolve(n)] /\ j.seen = {}
    BY DEF Config
  <1>9. j \in JobRow
    BY <1>1, <1>4, <1>5, <1>6, <1>7 DEF Config, JobRow
  <1>10. j.source.name = p.source /\ j.target.name = p.target
    BY <1>8 DEF ByName
  <1>11. j.meant[p.source] = Resolve(p.source) /\ j.meant[p.target] = Resolve(p.target)
    BY <1>1, <1>8
  <1>12. Resolve(p.target) \notin {Resolve(n) : n \in p.availability}
    BY <1>3 DEF Resolvable
  <1>13. Resolve(p.source) # Resolve(p.target)
    BY <1>3 DEF Acceptable
  <1>14. p.age # "zero"
    BY DEF OptionsValid
  <1>15. j.availability # {} => p.availability # {}
    BY <1>8
  <1>16. p.availability # {} => j.availability # {}
    BY <1>8
  <1> HIDE DEF j
  <1>17. Valid(j)
    BY <1>1, <1>3, <1>8, <1>10, <1>11, <1>12, <1>13, <1>14, <1>15, <1>16 DEF Valid, Acceptable
  <1> QED BY <1>8, <1>9, <1>17 DEF j

\* A job of the API has no ids, one of an operator no names.
LEMMA ValidFromApi ==
    ASSUME NEW j, Valid(j)
    PROVE  FromApi(j) /\ j.source \in Reference /\ j.target \in Reference
  BY DEF Valid, FromApi, ByName, Reference

-----------------------------------------------------------------------------
(* Steps.                                                                  *)

\* Two versions of a job: all but "enabled" is the same.
SameJob(j, k) ==
    /\ j.id = k.id /\ j.procedure = k.procedure /\ j.source = k.source /\ j.target = k.target
    /\ j.availability = k.availability /\ j.age = k.age /\ j.policy = k.policy
    /\ j.meant = k.meant /\ j.seen = k.seen

\* A step that adds no job keeps what is said of all of them.
LEMMA NoNewJob ==
    ASSUME RegistryTypeOK, Drawn, Searched, Keyed, nextJob' \in Nat, nextJob <= nextJob',
           \A j \in AllJobs' : \E k \in AllJobs : SameJob(j, k)
    PROVE  Drawn' /\ Searched' /\ Keyed'
  <1>0. nextJob \in Nat
    BY BoundAssumption DEF RegistryTypeOK
  <1>1. Drawn'
    <2> SUFFICES ASSUME NEW j \in AllJobs'
                 PROVE  j.id \in 1 .. (nextJob' - 1) /\ j.seen \subseteq 1 .. (nextJob' - 1)
      BY DEF Drawn
    <2>1. PICK k \in AllJobs : SameJob(j, k)
      OBVIOUS
    <2>2. k.id \in 1 .. (nextJob - 1) /\ k.seen \subseteq 1 .. (nextJob - 1)
      BY DEF Drawn
    <2> QED BY <1>0, <2>1, <2>2 DEF SameJob
  <1>2. Searched'
    <2> SUFFICES ASSUME NEW j \in AllJobs', NEW k \in AllJobs', FromApi(j), k.id \in j.seen
                 PROVE  ~Matches(k, j)
      BY DEF Searched
    <2>1. PICK a \in AllJobs : SameJob(j, a)
      OBVIOUS
    <2>2. PICK b \in AllJobs : SameJob(k, b)
      OBVIOUS
    <2>3. ~Matches(b, a)
      BY <2>1, <2>2 DEF Searched, SameJob, FromApi
    <2> QED BY <2>1, <2>2, <2>3 DEF Matches, SameJob
  <1>3. Keyed'
    <2> SUFFICES ASSUME NEW j \in AllJobs', NEW k \in AllJobs', FromApi(j), FromApi(k),
                        j.id # k.id, SameNames(j, k)
                 PROVE  LockKey(j) # LockKey(k)
      BY DEF Keyed
    <2>1. PICK a \in AllJobs : SameJob(j, a)
      OBVIOUS
    <2>2. PICK b \in AllJobs : SameJob(k, b)
      OBVIOUS
    <2>3. FromApi(a) /\ FromApi(b) /\ a.id # b.id /\ SameNames(a, b)
      BY <2>1, <2>2 DEF SameJob, FromApi, SameNames
    <2>4. LockKey(a) # LockKey(b)
      BY <2>1, <2>2, <2>3 DEF Keyed
    <2> QED BY <2>1, <2>2, <2>4 DEF LockKey, SameJob
  <1> QED BY <1>1, <1>2, <1>3

\* A step that adds a job under a new id: what is to be shown of it.
LEMMA NewJob ==
    ASSUME RegistryTypeOK, Drawn, Searched, Keyed, NEW n, nextJob' = nextJob + 1,
           AllJobs' = AllJobs \union {n}, n.id = nextJob, n.seen \subseteq 1 .. (nextJob - 1),
           \A k \in AllJobs : FromApi(n) /\ k.id \in n.seen => ~Matches(k, n),
           \A k \in AllJobs : FromApi(n) /\ FromApi(k) /\ SameNames(n, k) =>
               LockKey(n) # LockKey(k)
    PROVE  Drawn' /\ Searched' /\ Keyed'
  <1>0. nextJob \in Nat /\ 1 <= nextJob
    BY BoundAssumption DEF RegistryTypeOK
  <1>1. Drawn'
    <2> SUFFICES ASSUME NEW j \in AllJobs'
                 PROVE  j.id \in 1 .. (nextJob' - 1) /\ j.seen \subseteq 1 .. (nextJob' - 1)
      BY DEF Drawn
    <2>1. CASE j = n
      BY <1>0, <2>1
    <2>2. CASE j \in AllJobs
      <3>1. j.id \in 1 .. (nextJob - 1) /\ j.seen \subseteq 1 .. (nextJob - 1)
        BY <2>2 DEF Drawn
      <3> QED BY <1>0, <3>1
    <2> QED BY <2>1, <2>2
  <1>2. Searched'
    <2> SUFFICES ASSUME NEW j \in AllJobs', NEW k \in AllJobs', FromApi(j), k.id \in j.seen
                 PROVE  ~Matches(k, j)
      BY DEF Searched
    <2>1. j = n => n.id \notin n.seen
      BY <1>0
    <2>2. j \in AllJobs => n.id \notin j.seen
      BY <1>0 DEF Drawn
    <2>3. CASE k \in AllJobs
      BY <2>3 DEF Searched
    <2> QED BY <2>1, <2>2, <2>3
  <1>3. Keyed'
    <2> SUFFICES ASSUME NEW j \in AllJobs', NEW k \in AllJobs', FromApi(j), FromApi(k),
                        j.id # k.id, SameNames(j, k)
                 PROVE  LockKey(j) # LockKey(k)
      BY DEF Keyed
    <2>1. SameNames(k, j)
      BY DEF SameNames
    <2> QED BY <2>1 DEF Keyed
  <1> QED BY <1>1, <1>2, <1>3

\* A request that goes on without having added a job.
LEMMA PostStep ==
    ASSUME RInv, NEW r \in JobPost,
           NEW x \in [pc : {"idle", "resolved", "locked", "done", "refused"},
                      job : JobRow \union {NoJob}],
           jobPost' = [jobPost EXCEPT ![r] = x], UNCHANGED <<name, jobs, nextJob, changes>>,
           x.pc \in {"resolved", "locked"} => x.job # NoJob,
           x.job # NoJob => Valid(x.job),
           x.pc = "locked" => \A q \in Holding : q # r =>
               LockKey(jobPost[q].job) # LockKey(x.job)
    PROVE  RInv'
  <1>0. /\ jobPost \in [JobPost -> [pc : {"idle", "resolved", "locked", "added", "done", "refused"},
                                    job : JobRow \union {NoJob}]]
        /\ jobPost'[r] = x /\ \A q \in JobPost : q # r => jobPost'[q] = jobPost[q]
        /\ x.pc # "added"
    BY DEF RInv, RegistryTypeOK
  <1>1. RegistryTypeOK'
    <2>1. jobPost' \in [JobPost -> [pc : {"idle", "resolved", "locked", "added", "done", "refused"},
                                    job : JobRow \union {NoJob}]]
      BY <1>0
    <2>2. \A q \in JobPost : jobPost'[q].pc \in {"resolved", "locked", "added"} =>
             jobPost'[q].job # NoJob
      BY <1>0 DEF RInv, RegistryTypeOK
    <2> QED BY <2>1, <2>2 DEF RInv, RegistryTypeOK
  <1>2. Adding' \subseteq Adding /\ r \notin Adding' /\ \A q \in Adding' : jobPost'[q] = jobPost[q]
    BY <1>0 DEF Adding
  <1>3. AllJobs' \subseteq AllJobs
    BY <1>2 DEF AllJobs
  <1>4. Drawn' /\ Searched' /\ Keyed'
    <2>1. nextJob' \in Nat /\ nextJob <= nextJob'
      BY BoundAssumption DEF RInv, RegistryTypeOK
    <2>2. \A j \in AllJobs' : \E k \in AllJobs : SameJob(j, k)
      BY <1>3 DEF SameJob
    <2> QED BY <2>1, <2>2, NoNewJob DEF RInv
  <1>5. Distinct'
    BY <1>2 DEF RInv, Distinct
  <1>6. Accepted'
    BY <1>0 DEF RInv, Accepted
  <1>7. Exclusive'
    BY <1>0 DEF RInv, Exclusive, Holding
  <1> QED BY <1>1, <1>4, <1>5, <1>6, <1>7 DEF RInv

\* A request finds no duplicate and adds its job.
LEMMA AddStep ==
    ASSUME RInv, NEW r \in JobPost, jobPost[r].pc = "locked", nextJob <= MaxJob,
           \A k \in jobs : ~Matches(k, jobPost[r].job), nextJob' = nextJob + 1,
           jobPost' = [jobPost EXCEPT
             ![r] = [pc |-> "added",
                     job |-> [jobPost[r].job EXCEPT !.id = nextJob, !.seen = {k.id : k \in jobs}]]],
           UNCHANGED <<name, jobs, changes>>
    PROVE  RInv'
  <1> DEFINE j == jobPost[r].job
             n == [j EXCEPT !.id = nextJob, !.seen = {k.id : k \in jobs}]
  <1>0. /\ jobPost \in [JobPost -> [pc : {"idle", "resolved", "locked", "added", "done", "refused"},
                                    job : JobRow \union {NoJob}]]
        /\ jobPost'[r] = [pc |-> "added", job |-> n]
        /\ \A q \in JobPost : q # r => jobPost'[q] = jobPost[q]
        /\ nextJob \in 1 .. MaxJob /\ nextJob \in JobId /\ MaxJob \in Nat
        /\ j \in JobRow /\ Valid(j)
    BY BoundAssumption, NoneAssumption DEF RInv, RegistryTypeOK, JobId, Accepted
  <1>1. /\ n.id = nextJob /\ n.seen = {k.id : k \in jobs} /\ n.procedure = j.procedure
        /\ n.source = j.source /\ n.target = j.target /\ n.meant = j.meant
        /\ n.availability = j.availability /\ n.age = j.age /\ n.policy = j.policy
    BY <1>0 DEF JobRow
  <1>2. n \in JobRow
    <2>1. {k.id : k \in jobs} \in SUBSET JobId
      BY DEF RInv, RegistryTypeOK, JobRow
    <2> QED BY <1>0, <2>1 DEF JobRow
  <1> HIDE DEF n
  <1>3. Valid(n) /\ FromApi(n)
    BY <1>0, <1>1 DEF Valid, FromApi, ByName
  <1>4. RegistryTypeOK'
    <2>1. jobPost' \in [JobPost -> [pc : {"idle", "resolved", "locked", "added", "done", "refused"},
                                    job : JobRow \union {NoJob}]]
      BY <1>0, <1>2 DEF n
    <2>2. \A q \in JobPost : jobPost'[q].pc \in {"resolved", "locked", "added"} =>
             jobPost'[q].job # NoJob
      BY <1>0, <1>2, NoneAssumption DEF RInv, RegistryTypeOK
    <2>3. nextJob' \in 1 .. (MaxJob + 1)
      BY <1>0
    <2> QED BY <2>1, <2>2, <2>3 DEF RInv, RegistryTypeOK
  <1>5. Adding' = Adding \union {r} /\ r \notin Adding
    BY <1>0 DEF Adding
  <1>6. AllJobs' = AllJobs \union {n}
    <2>1. jobPost'[r].job = n /\ \A q \in Adding : jobPost'[q].job = jobPost[q].job
      BY <1>0, <1>5 DEF Adding
    <2>2. {jobPost'[q].job : q \in Adding'} = {jobPost[q].job : q \in Adding} \union {n}
      BY <1>5, <2>1
    <2> QED BY <2>2 DEF AllJobs
  <1>7. Drawn' /\ Searched' /\ Keyed'
    <2>1. n.seen \subseteq 1 .. (nextJob - 1)
      BY <1>1 DEF RInv, Drawn, AllJobs
    <2>2. ASSUME NEW k \in AllJobs, k.id \in n.seen
          PROVE  k \in jobs
      <3>1. PICK i \in jobs : i.id = k.id
        BY <1>1, <2>2
      <3> QED BY <3>1 DEF AllJobs, RInv, Distinct
    <2>3. \A k \in AllJobs : FromApi(n) /\ k.id \in n.seen => ~Matches(k, n)
      BY <1>1, <2>2 DEF Matches
    <2>4. ASSUME NEW k \in AllJobs, FromApi(k), SameNames(n, k)
          PROVE  LockKey(n) # LockKey(k)
      <3>1. Matches(k, j)
        BY <1>1, <2>4 DEF SameNames, Matches
      <3>2. PICK q \in Adding : k = jobPost[q].job
        BY <3>1 DEF AllJobs
      <3>3. LockKey(jobPost[q].job) # LockKey(j)
        BY <1>5, <3>2 DEF RInv, Exclusive, Holding, Adding
      <3> QED BY <1>1, <3>2, <3>3 DEF LockKey
    <2> QED BY <1>1, <1>6, <2>1, <2>3, <2>4, NewJob DEF RInv
  <1>8. Distinct'
    <2>1. \A k \in AllJobs : k.id # nextJob
      BY <1>0 DEF RInv, Drawn
    <2> QED BY <1>0, <1>1, <1>5, <2>1 DEF RInv, Distinct, AllJobs, Adding
  <1>9. Accepted'
    BY <1>0, <1>3 DEF RInv, Accepted
  <1>10. Exclusive'
    <2>1. LockKey(n) = LockKey(j)
      BY <1>1 DEF LockKey
    <2> QED BY <1>0, <2>1 DEF RInv, Exclusive, Holding
  <1> QED BY <1>4, <1>7, <1>8, <1>9, <1>10 DEF RInv

\* A request commits the job it has added.
LEMMA CommitStep ==
    ASSUME RInv, NEW r \in JobPost, CommitJob(r)
    PROVE  RInv'
  <1> DEFINE j == jobPost[r].job
  <1>0. /\ jobPost \in [JobPost -> [pc : {"idle", "resolved", "locked", "added", "done", "refused"},
                                    job : JobRow \union {NoJob}]]
        /\ jobPost'[r] = [pc |-> "done", job |-> j]
        /\ \A q \in JobPost : q # r => jobPost'[q] = jobPost[q]
        /\ j \in JobRow /\ Valid(j) /\ r \in Adding /\ jobs' = jobs \union {j}
        /\ UNCHANGED <<name, nextJob, changes>>
    BY NoneAssumption DEF CommitJob, RInv, RegistryTypeOK, Accepted, Adding
  <1>1. RegistryTypeOK'
    <2>1. jobPost' \in [JobPost -> [pc : {"idle", "resolved", "locked", "added", "done", "refused"},
                                    job : JobRow \union {NoJob}]]
      BY <1>0 DEF CommitJob
    <2>2. \A q \in JobPost : jobPost'[q].pc \in {"resolved", "locked", "added"} =>
             jobPost'[q].job # NoJob
      BY <1>0 DEF RInv, RegistryTypeOK
    <2>3. \A i, k \in jobs' : i.id = k.id => i = k
      BY <1>0 DEF RInv, RegistryTypeOK, Distinct
    <2>4. jobs' \subseteq JobRow
      BY <1>0 DEF RInv, RegistryTypeOK
    <2> QED BY <1>0, <2>1, <2>2, <2>3, <2>4 DEF RInv, RegistryTypeOK
  <1>2. Adding' = Adding \ {r}
    BY <1>0 DEF Adding
  <1>3. AllJobs' \subseteq AllJobs
    <2>1. \A q \in Adding' : jobPost'[q].job = jobPost[q].job
      BY <1>0, <1>2 DEF Adding
    <2>2. j \in AllJobs
      BY <1>0 DEF AllJobs
    <2> QED BY <1>0, <1>2, <2>1, <2>2 DEF AllJobs
  <1>4. Drawn' /\ Searched' /\ Keyed'
    <2>1. nextJob' \in Nat /\ nextJob <= nextJob'
      BY <1>0, BoundAssumption DEF RInv, RegistryTypeOK
    <2>2. \A i \in AllJobs' : \E k \in AllJobs : SameJob(i, k)
      BY <1>3 DEF SameJob
    <2> QED BY <2>1, <2>2, NoNewJob DEF RInv
  <1>5. Distinct'
    BY <1>0, <1>2 DEF RInv, Distinct, Adding
  <1>6. Accepted'
    BY <1>0 DEF RInv, Accepted
  <1>7. Exclusive'
    BY <1>0 DEF RInv, Exclusive, Holding
  <1> QED BY <1>1, <1>4, <1>5, <1>6, <1>7 DEF RInv

\* A PATCH of a job, or its removal.
LEMMA ChangeStep ==
    ASSUME RInv, NEW j \in jobs, DeleteBySql(j) \/ \E on \in BOOLEAN : SetEnabled(j, on)
    PROVE  RInv'
  <1>1. /\ UNCHANGED <<name, jobPost, nextJob, changes>>
        /\ \A i \in jobs' : i \in JobRow /\ \E k \in jobs : SameJob(i, k)
        /\ \A i, k \in jobs' : i.id = k.id => i = k
    <2>1. CASE DeleteBySql(j)
      BY <2>1 DEF DeleteBySql, SameJob, RInv, RegistryTypeOK
    <2>2. ASSUME NEW on \in BOOLEAN, SetEnabled(j, on)
          PROVE  /\ UNCHANGED <<name, jobPost, nextJob, changes>>
                 /\ \A i \in jobs' : i \in JobRow /\ \E k \in jobs : SameJob(i, k)
                 /\ \A i, k \in jobs' : i.id = k.id => i = k
      <3> DEFINE n == [j EXCEPT !.enabled = on]
      <3>1. j \in JobRow
        BY DEF RInv, RegistryTypeOK
      <3>2. n \in JobRow /\ SameJob(n, j)
        BY <3>1 DEF JobRow, SameJob
      <3>3. jobs' = (jobs \ {j}) \union {n} /\ UNCHANGED <<name, jobPost, nextJob, changes>>
        BY <2>2 DEF SetEnabled
      <3>4. n.id = j.id
        BY <3>2 DEF SameJob
      <3> HIDE DEF n
      <3> QED BY <3>2, <3>3, <3>4 DEF SameJob, RInv, RegistryTypeOK
    <2> QED BY <2>1, <2>2
  <1>2. RegistryTypeOK'
    BY <1>1 DEF RInv, RegistryTypeOK
  <1>3. Adding' = Adding /\ Holding' = Holding
    BY <1>1 DEF Adding, Holding
  <1>4. \A i \in AllJobs' : \E k \in AllJobs : SameJob(i, k)
    BY <1>1, <1>3 DEF AllJobs, SameJob
  <1>5. Drawn' /\ Searched' /\ Keyed'
    <2>1. nextJob' \in Nat /\ nextJob <= nextJob'
      BY <1>1, BoundAssumption DEF RInv, RegistryTypeOK
    <2> QED BY <1>4, <2>1, NoNewJob DEF RInv
  <1>6. Distinct'
    BY <1>1, <1>3 DEF RInv, Distinct, SameJob
  <1>7. Accepted'
    <2>1. ASSUME NEW i \in jobs', FromApi(i)
          PROVE  Valid(i)
      <3>1. PICK k \in jobs : SameJob(i, k)
        BY <1>1
      <3>2. FromApi(k)
        BY <2>1, <3>1 DEF FromApi, SameJob
      <3>3. Valid(k)
        BY <3>2 DEF RInv, Accepted
      <3> QED BY <3>1, <3>3 DEF Valid, SameJob
    <2> QED BY <1>1, <2>1 DEF RInv, Accepted
  <1>8. Exclusive'
    BY <1>1, <1>3 DEF RInv, Exclusive
  <1> QED BY <1>2, <1>5, <1>6, <1>7, <1>8 DEF RInv

\* An operator adds a job by SQL.
LEMMA SqlStep ==
    ASSUME RInv, NEW s \in Datastream, NEW t \in Datastream, NEW procedure \in Procedure,
           AddBySql(s, t, procedure)
    PROVE  RInv'
  <1> DEFINE n == [id |-> nextJob, procedure |-> procedure,
                   source |-> ById(s), target |-> ById(t), availability |-> {},
                   age |-> "absent", policy |-> "missing", enabled |-> TRUE,
                   meant |-> [m \in Name |-> Resolve(m)], seen |-> {}]
  <1>0. /\ jobs' = jobs \union {n} /\ nextJob' = nextJob + 1 /\ UNCHANGED <<name, jobPost, changes>>
        /\ nextJob \in 1 .. MaxJob /\ nextJob \in JobId /\ MaxJob \in Nat
    BY BoundAssumption DEF AddBySql, RInv, RegistryTypeOK, JobId
  <1>1. n \in JobRow
    <2>1. [m \in Name |-> Resolve(m)] \in [Name -> Datastream \union {NoDatastream}]
      BY Resolved DEF RInv, RegistryTypeOK
    <2>2. ById(s) \in Reference /\ ById(t) \in Reference
      BY DEF ById, Reference
    <2> QED BY <1>0, <2>1, <2>2 DEF JobRow
  <1>2. n.id = nextJob /\ n.seen = {} /\ ~FromApi(n)
    BY NoneAssumption DEF FromApi, ById
  <1> HIDE DEF n
  <1>3. Adding' = Adding /\ Holding' = Holding /\ AllJobs' = AllJobs \union {n}
    BY <1>0 DEF Adding, Holding, AllJobs
  <1>4. \A k \in AllJobs : k.id # nextJob
    BY <1>0 DEF RInv, Drawn
  <1>5. RegistryTypeOK'
    <2>1. \A i, k \in jobs' : i.id = k.id => i = k
      BY <1>0, <1>2, <1>4 DEF RInv, RegistryTypeOK, AllJobs
    <2>2. nextJob' \in 1 .. (MaxJob + 1)
      BY <1>0
    <2> QED BY <1>0, <1>1, <2>1, <2>2 DEF RInv, RegistryTypeOK
  <1>6. Drawn' /\ Searched' /\ Keyed'
    BY <1>0, <1>2, <1>3, NewJob DEF RInv
  <1>7. Distinct'
    BY <1>0, <1>2, <1>3, <1>4 DEF RInv, Distinct, AllJobs
  <1>8. Accepted'
    BY <1>0, <1>2 DEF RInv, Accepted
  <1>9. Exclusive'
    BY <1>0, <1>3 DEF RInv, Exclusive
  <1> QED BY <1>5, <1>6, <1>7, <1>8, <1>9 DEF RInv

\* Datastreams are renamed and removed.
LEMMA NameStep ==
    ASSUME RInv, NEW d \in Datastream, RemoveDatastream(d) \/ \E n \in Name : Rename(d, n)
    PROVE  RInv'
  <1>1. /\ UNCHANGED <<jobs, jobPost, nextJob>> /\ changes' \in 0 .. MaxChange
        /\ name' \in [Datastream -> Name \union {NoName}]
    BY BoundAssumption DEF RemoveDatastream, Rename, RInv, RegistryTypeOK
  <1>2. \A e, f \in Datastream : e # f /\ name'[e] # NoName => name'[e] # name'[f]
    <2>1. CASE RemoveDatastream(d)
      BY <2>1 DEF RemoveDatastream, RInv, RegistryTypeOK
    <2>2. ASSUME NEW n \in Name, Rename(d, n)
          PROVE  \A e, f \in Datastream : e # f /\ name'[e] # NoName => name'[e] # name'[f]
      <3>1. \A e \in Datastream : name[e] # n
        BY <2>2, Resolved DEF Rename, RInv, RegistryTypeOK
      <3> QED BY <2>2, <3>1 DEF Rename, RInv, RegistryTypeOK
    <2> QED BY <2>1, <2>2
  <1>3. RegistryTypeOK'
    BY <1>1, <1>2 DEF RInv, RegistryTypeOK
  <1>4. Adding' = Adding /\ Holding' = Holding /\ AllJobs' = AllJobs
    BY <1>1 DEF Adding, Holding, AllJobs
  <1> QED BY <1>1, <1>3, <1>4
          DEF RInv, Drawn, Distinct, Accepted, Searched, Exclusive, Keyed

\* Every step keeps the invariant.
LEMMA RStep == RInv /\ [RegistryNext]_registryVars => RInv'
  <1> SUFFICES ASSUME RInv, [RegistryNext]_registryVars PROVE RInv'
    OBVIOUS
  <1>0. /\ jobPost \in [JobPost -> [pc : {"idle", "resolved", "locked", "added", "done", "refused"},
                                    job : JobRow \union {NoJob}]]
        /\ \A r \in JobPost : jobPost[r].job # NoJob => Valid(jobPost[r].job)
    BY DEF RInv, RegistryTypeOK, Accepted
  <1>1. ASSUME NEW r \in JobPost, NEW p \in Payload, Receive(r, p)
        PROVE  RInv'
    <2>1. CASE Acceptable(p) /\ OptionsValid(p) /\ Resolvable(p)
      <3> DEFINE x == [pc |-> "resolved", job |-> Config(p)]
      <3>1. Config(p) \in JobRow /\ Valid(Config(p)) /\ Config(p) # NoJob
        BY <2>1, Configured, NoneAssumption DEF RInv
      <3>2. jobPost' = [jobPost EXCEPT ![r] = x] /\ UNCHANGED <<name, jobs, nextJob, changes>>
        BY <1>1, <2>1 DEF Receive
      <3> QED BY <3>1, <3>2, PostStep
    <2>2. CASE ~(Acceptable(p) /\ OptionsValid(p) /\ Resolvable(p))
      <3>1. /\ jobPost' = [jobPost EXCEPT ![r] = [pc |-> "refused", job |-> NoJob]]
            /\ UNCHANGED <<name, jobs, nextJob, changes>>
        BY <1>1, <2>2 DEF Receive
      <3> QED BY <3>1, PostStep
    <2> QED BY <2>1, <2>2
  <1>2. ASSUME NEW r \in JobPost, TakeLock(r)
        PROVE  RInv'
    <2> DEFINE x == [pc |-> "locked", job |-> jobPost[r].job]
    <2>1. x \in [pc : {"idle", "resolved", "locked", "done", "refused"}, job : JobRow \union {NoJob}]
          /\ x.job # NoJob
      BY <1>0, <1>2 DEF TakeLock, RInv, RegistryTypeOK
    <2>2. jobPost' = [jobPost EXCEPT ![r] = x] /\ UNCHANGED <<name, jobs, nextJob, changes>>
      <3>1. [jobPost[r] EXCEPT !.pc = "locked"] = x
        BY <1>0
      <3> QED BY <1>2, <3>1 DEF TakeLock
    <2>3. \A q \in Holding : q # r => LockKey(jobPost[q].job) # LockKey(x.job)
      BY <1>2 DEF TakeLock, Unlocked, Holding
    <2> QED BY <1>0, <2>1, <2>2, <2>3, PostStep
  <1>3. ASSUME NEW r \in JobPost, NEW x, x = [pc |-> "refused", job |-> jobPost[r].job],
               jobPost' = [jobPost EXCEPT ![r] = x], UNCHANGED <<name, jobs, nextJob, changes>>
        PROVE  RInv'
    <2>1. x \in [pc : {"idle", "resolved", "locked", "done", "refused"}, job : JobRow \union {NoJob}]
      BY <1>0, <1>3
    <2> QED BY <1>0, <1>3, <2>1, PostStep
  <1>4. ASSUME NEW r \in JobPost, AddJob(r)
        PROVE  RInv'
    <2>1. CASE \E k \in jobs : Matches(k, jobPost[r].job)
      <3>1. /\ jobPost' = [jobPost EXCEPT ![r] = [pc |-> "refused", job |-> jobPost[r].job]]
            /\ UNCHANGED <<name, jobs, nextJob, changes>>
        BY <1>0, <1>4, <2>1 DEF AddJob
      <3> QED BY <1>3, <3>1
    <2>2. CASE ~\E k \in jobs : Matches(k, jobPost[r].job)
      BY <1>4, <2>2, AddStep DEF AddJob
    <2> QED BY <2>1, <2>2
  <1>5. ASSUME NEW r \in JobPost, AbandonJob(r)
        PROVE  RInv'
    <2>1. /\ jobPost' = [jobPost EXCEPT ![r] = [pc |-> "refused", job |-> jobPost[r].job]]
          /\ UNCHANGED <<name, jobs, nextJob, changes>>
      <3>1. [jobPost[r] EXCEPT !.pc = "refused"] = [pc |-> "refused", job |-> jobPost[r].job]
        BY <1>0
      <3> QED BY <1>5, <3>1 DEF AbandonJob
    <2> QED BY <1>3, <2>1
  <1>6. CASE UNCHANGED registryVars
    BY <1>6 DEF registryVars, RInv, RegistryTypeOK, Drawn, Distinct, Accepted, Searched, Exclusive,
                Keyed, AllJobs, Adding, Holding
  <1> QED BY <1>1, <1>2, <1>4, <1>5, <1>6, CommitStep, ChangeStep, SqlStep, NameStep
          DEF RegistryNext

\* At the start every Datastream has a name of its own and there is no job.
LEMMA RInit == RegistryInit => RInv
  <1> SUFFICES ASSUME RegistryInit PROVE RInv
    OBVIOUS
  <1>1. name \in [Datastream -> Name] /\ \A d, e \in Datastream : d # e => name[d] # name[e]
    BY NameAssumption DEF RegistryInit
  <1>2. Adding = {} /\ AllJobs = {} /\ Holding = {}
    BY DEF RegistryInit, NotPosted, Adding, AllJobs, Holding
  <1>3. RegistryTypeOK
    BY <1>1, BoundAssumption DEF RegistryInit, NotPosted, RegistryTypeOK
  <1> QED BY <1>2, <1>3
          DEF RInv, RegistryInit, NotPosted, Drawn, Distinct, Accepted, Searched, Exclusive, Keyed

-----------------------------------------------------------------------------
(* The theorems.                                                           *)

\* What requests have added, seen and locked, in every reachable state.
THEOREM RegistryInvariance == RegistrySpec => []RInv
  BY RInit, RStep, PTL DEF RegistrySpec

\* The variables keep their types: the jobs have ids of their own, the Datastreams
\* names of their own.
THEOREM RegistryTypes == RegistrySpec => []RegistryTypeOK
  <1>1. RInv => RegistryTypeOK
    BY DEF RInv
  <1> QED BY <1>1, RegistryInvariance, PTL

\* A job that POST accepted never fails on its configuration as long as its names mean
\* the Datastreams they meant: the procedure accepts whatever the API accepts.
THEOREM JobsRun == RegistrySpec => []AcceptedJobsRun
  <1>1. RInv => AcceptedJobsRun
    <2> SUFFICES ASSUME RInv, NEW j \in jobs, FromApi(j), StillMeant(j)
                 PROVE  /\ Runs(j)
                        /\ RunUses(j.source) = j.meant[j.source.name]
                        /\ RunUses(j.target) = j.meant[j.target.name]
      BY DEF AcceptedJobsRun
    <2>1. Valid(j)
      BY DEF RInv, Accepted
    <2>2. /\ RunUses(j.source) = j.meant[j.source.name]
          /\ RunUses(j.target) = j.meant[j.target.name]
      BY <2>1 DEF Valid, ByName, RunUses, StillMeant
    <2>3. Runs(j)
      BY <2>1, <2>2, NoneAssumption DEF Valid, Runs, RunSourceAndTarget, RunAvailability, StillMeant
    <2> QED BY <2>2, <2>3
  <1> QED BY <1>1, RegistryInvariance, PTL

\* One job per procedure, source and target: no job is added for what one that was seen
\* already does, and two jobs of the API for the same names were meant for different
\* Datastreams.
THEOREM OneJob == RegistrySpec => []OneJobPerPair
  <1>1. RInv => OneJobPerPair
    <2> SUFFICES ASSUME RInv, NEW j \in jobs, NEW k \in jobs, FromApi(j), j # k, SameWork(k, j)
                 PROVE  /\ k.id \notin j.seen
                        /\ FromApi(k) => j.id \notin k.seen /\ LockKey(j) # LockKey(k)
      BY DEF OneJobPerPair
    <2>1. j \in AllJobs /\ k \in AllJobs /\ j.id # k.id /\ j \in JobRow /\ k \in JobRow
      BY DEF AllJobs, RInv, RegistryTypeOK
    <2>2. Valid(j) /\ (FromApi(k) => Valid(k))
      BY DEF RInv, Accepted
    <2>3. k.source \in Reference /\ k.target \in Reference
      BY <2>1 DEF JobRow
    <2>4. Matches(k, j)
      <3>1. CASE k.source.name = j.source.name /\ k.target.name = j.target.name
        <4>1. k.source = j.source /\ k.target = j.target
          BY <2>2, <2>3, <3>1, NoneAssumption DEF Valid, ByName, Reference
        <4> QED BY <4>1 DEF Matches, SameWork
      <3>2. CASE /\ k.source.id = j.meant[j.source.name]
                 /\ k.target.id = j.meant[j.target.name]
        <4>1. /\ k.source = ById(j.meant[j.source.name])
              /\ k.target = ById(j.meant[j.target.name])
          BY <2>2, <2>3, <3>2, NoneAssumption DEF Valid, ById, Reference
        <4> QED BY <4>1 DEF Matches, SameWork
      <3> QED BY <3>1, <3>2 DEF SameWork
    <2>5. k.id \notin j.seen
      BY <2>1, <2>4 DEF RInv, Searched
    <2>6. ASSUME FromApi(k)
          PROVE  j.id \notin k.seen /\ LockKey(j) # LockKey(k)
      <3>1. k.source = j.source /\ k.target = j.target /\ k.procedure = j.procedure
        <4>1. k.source.name = j.source.name /\ k.target.name = j.target.name
          BY <2>2, <2>6, NoneAssumption DEF SameWork, Valid, FromApi
        <4> QED BY <2>2, <2>6, <4>1 DEF Valid, SameWork
      <3>2. Matches(j, k) /\ SameNames(j, k)
        BY <3>1 DEF Matches, SameNames
      <3> QED BY <2>1, <2>6, <3>2 DEF RInv, Searched, Keyed
    <2> QED BY <2>5, <2>6
  <1> QED BY <1>1, RegistryInvariance, PTL

-----------------------------------------------------------------------------
(* Numbers.                                                                *)

\* A set of numbers that is not empty has a smallest one: < is well-founded.
LEMMA LeastNatural ==
    ASSUME NEW S \in SUBSET Nat, S # {}
    PROVE  \E x \in S : \A y \in S : x <= y
  <1> DEFINE R == {ss \in Nat \X Nat : ss[1] < ss[2]}
  <1>1. IsWellFoundedOn(R, Nat)
    BY NatLessThanWellFounded DEF OpToRel
  <1> HIDE DEF R
  <1>2. PICK x \in S : \A y \in S : ~(<<y, x>> \in R)
    BY <1>1, WFMin
  <1>3. \A y \in S : ~(y < x)
    BY <1>2 DEF R
  <1> QED BY <1>3

-----------------------------------------------------------------------------
(* Import jobs: rows, batches and what a run is up to.                     *)

Entry == Row \union {NoReading}

\* What a run has read, or is about to send: readings by instant.
Readings == UNION {[D -> Entry] : D \in SUBSET Instants}

\* Instants, or a time window of istSOS2.
Piece == (SUBSET Instants) \union [from : Int, to : Int]

Steps == {"ready", "check", "fetch", "chunk", "send", "lookup", "replace", "read", "reread",
          "grade", "mark", "done", "failed"}

JobState == [conf : Conf, pc : Steps, run : 0..MaxRuns, alone : BOOLEAN, todo : Seq(Piece),
             batch : Readings, seen : Readings]

ImportTypes ==
    /\ store \in [Instants -> Entry]
    /\ job \in [Job -> JobState]
    /\ runs \in 0..MaxRuns

\* The rows of the batch of run f, one at least.
Sendable(f) == DOMAIN f.batch # {} /\ \A t \in DOMAIN f.batch : f.batch[t] \in Row

\* A run is at a request of its kind of job, with what that request needs.
Equipped(f) ==
    /\ f.pc = "check" => f.conf.kind = "copy"
    /\ f.pc = "fetch" => f.conf.kind = "istsos2"
    /\ f.pc = "chunk" => f.conf.kind = "sheet"
    /\ f.pc \in {"lookup", "replace"} => f.conf.kind = "istsos2" /\ f.conf.override
    /\ f.pc \in {"read", "reread", "grade", "mark"} => f.conf.kind = "qc"
    /\ f.pc = "done" => f.todo = << >>
    /\ f.pc \notin {"ready", "done", "failed"} => f.todo # << >>
    /\ f.conf.kind # "istsos2" => f.todo \in Seq(SUBSET Instants)
    /\ f.pc \in {"send", "lookup", "replace", "mark"} => Sendable(f)
    /\ f.pc = "replace" => LeastIn(DOMAIN f.batch) \in DOMAIN f.seen
    /\ f.conf.kind = "qc" /\ f.pc \in {"send", "reread", "grade", "mark"}
         => DOMAIN f.seen = Instants
    /\ f.conf.kind = "qc" /\ f.pc = "send" => DOMAIN f.batch \subseteq InPeriod

\* What check_datastream would read of the rows s.
Shot(s) == [t \in Instants |-> IF t \in ReadRows(s) THEN s[t] ELSE NoReading]

\* A copy that nobody disturbed: what it is about to send is not there, but for intervals
\* that end past midnight, and what is not there is ahead of it.
CopyAhead(f, s) ==
    /\ f.pc = "failed" => \E t \in Instants : s[t] # NoReading /\ Overnight(f, t)
    /\ f.pc = "send" => \A t \in DOMAIN f.batch : s[t] = NoReading \/ Overnight(f, t)
    /\ f.pc \in {"check", "send", "done"} =>
         \A t \in Source :
            \/ s[t] # NoReading \/ (f.conf.drop /\ t \in NoData)
            \/ f.pc = "send" /\ t \in DOMAIN f.batch
            \/ \E i \in DOMAIN f.todo : t \in f.todo[i] /\ (f.pc = "send" => i > 1)

\* A quality control that nobody disturbed: what it has read is what it would read now,
\* and what it has to mark are the grades of now.
GradesAhead(f, s) ==
    /\ f.pc \in {"send", "reread"} => \A t \in Instants \ InPeriod : f.seen[t] = Shot(s)[t]
    /\ f.pc = "grade" => f.seen = Shot(s)
    /\ f.pc = "mark" => /\ Regraded(Shot(s)) \subseteq DOMAIN f.batch
                        /\ \A t \in DOMAIN f.batch : f.batch[t].q = Quality(Shot(s), t)
    /\ f.pc = "done" => Regraded(Shot(s)) = {}

Undisturbed(f, s) == f.alone =>
    /\ f.conf.kind = "copy" => CopyAhead(f, s)
    /\ f.conf.kind = "qc" => GradesAhead(f, s)

JobInv == ImportTypes /\ \A j \in Job : Equipped(job[j]) /\ Undisturbed(job[j], store)

-----------------------------------------------------------------------------

\* Functions on instants are readings, and readings are nothing else (Reads).
LEMMA Readable ==
    ASSUME NEW D \in SUBSET Instants, NEW b \in [D -> Entry]
    PROVE  b \in Readings
  BY DEF Readings

LEMMA Reads ==
    ASSUME NEW b \in Readings
    PROVE  /\ DOMAIN b \in SUBSET Instants /\ b \in [DOMAIN b -> Entry]
           /\ \A t \in DOMAIN b : b[t] \in Entry
  BY DEF Readings

LEMMA NoneReads == None \in Readings /\ DOMAIN None = {}
  <1>1. None \in [{} -> Entry]
    BY DEF None
  <1> QED BY <1>1, Readable DEF None

\* The first and the last instant of a set (Mosts).
LEMMA Leasts ==
    ASSUME NEW S \in SUBSET Instants, S # {}
    PROVE  LeastIn(S) \in S /\ \A u \in S : LeastIn(S) <= u
  <1>1. S \in SUBSET Nat
    BY JobAssumption DEF Instants
  <1> QED BY <1>1, LeastNatural DEF LeastIn

LEMMA Mosts ==
    ASSUME NEW S \in SUBSET Instants, S # {}
    PROVE  MostIn(S) \in S /\ \A u \in S : MostIn(S) >= u
  <1>0. Horizon \in Nat /\ S \in SUBSET 0..Horizon
    BY JobAssumption DEF Instants
  <1> DEFINE R == {n \in Nat : \E t \in S : n = Horizon - t}
  <1>1. PICK s \in S : TRUE
    OBVIOUS
  <1>2. Horizon - s \in R
    BY <1>0, <1>1
  <1>3. PICK m \in R : \A n \in R : m <= n
    BY <1>2, LeastNatural
  <1>4. PICK t \in S : m = Horizon - t
    BY <1>3
  <1>5. ASSUME NEW u \in S PROVE t >= u
    <2>1. Horizon - u \in R
      BY <1>0
    <2>2. m <= Horizon - u
      BY <1>3, <2>1
    <2> HIDE DEF R
    <2> QED BY <1>0, <1>4, <2>2
  <1>6. \E x \in S : \A u \in S : x >= u
    BY <1>5
  <1> QED BY <1>6 DEF MostIn

\* The quotient of two numbers is the one that fits, and it grows with the first.
LEMMA DivideBy ==
    ASSUME NEW a \in Nat, NEW b \in Nat \ {0}
    PROVE  /\ a \div b \in Nat /\ (a \div b) * b <= a /\ a < (a \div b) * b + b
           /\ \A q \in Nat : q * b <= a /\ a < q * b + b => a \div b = q
  <1>1. /\ a \div b \in Nat /\ (a \div b) * b <= a /\ a < (a \div b) * b + b
    BY SMT
  <1> DEFINE d == a \div b
  <1>2. ASSUME NEW q \in Nat, q * b <= a, a < q * b + b PROVE d = q
    <2> HIDE DEF d
    <2>1. d * b < q * b + b /\ q * b < d * b + b /\ d \in Nat
      BY <1>1, <1>2 DEF d
    <2>2. CASE d < q
      <3>1. (q - d) \in Nat \ {0} /\ (q - d) * b >= b
        BY <2>1, <2>2, SMT
      <3> QED BY <2>1, <2>2, <3>1, SMT
    <2>3. CASE q < d
      <3>1. (d - q) \in Nat \ {0} /\ (d - q) * b >= b
        BY <2>1, <2>3, SMT
      <3> QED BY <2>1, <2>3, <3>1, SMT
    <2> QED BY <2>1, <2>2, <2>3
  <1> QED BY <1>1, <1>2

LEMMA DivideOrder ==
    ASSUME NEW a \in Nat, NEW c \in Nat, NEW b \in Nat \ {0}, a <= c
    PROVE  a \div b <= c \div b
  BY SMT

\* Every element is in one of the blocks.
LEMMA ChunksCover ==
    ASSUME NEW S \in SUBSET Instants
    PROVE  /\ Chunks(S) \in Seq(SUBSET Instants)
           /\ \A t \in S : \E i \in DOMAIN Chunks(S) : t \in Chunks(S)[i]
  <1> DEFINE n == Cardinality(S)
             m == (n + Chunk - 1) \div Chunk
  <1>1. IsFiniteSet(Instants) /\ Chunk \in Nat \ {0} /\ Instants \in SUBSET Nat
    <2>1. Horizon \in Nat /\ 0 \in Int /\ Horizon \in Int /\ Chunk \in Nat \ {0}
      BY JobAssumption
    <2>2. IsFiniteSet(0..Horizon)
      BY <2>1, FS_Interval
    <2> QED BY <2>1, <2>2 DEF Instants
  <1>2. IsFiniteSet(S) /\ n \in Nat
    BY <1>1, FS_Subset, FS_CardinalityType
  <1>3. m \in Nat
    <2> HIDE DEF n
    <2> QED BY <1>1, <1>2, SMT
  <1>4. Chunks(S) = [i \in 1..m |-> {t \in S : Place(S, t) \div Chunk = i - 1}]
    BY DEF Chunks
  <1>5. Chunks(S) \in Seq(SUBSET Instants) /\ DOMAIN Chunks(S) = 1..m
    <2> HIDE DEF m
    <2> QED BY <1>3, <1>4
  <1>6. ASSUME NEW t \in S PROVE \E i \in 1..m : t \in Chunks(S)[i]
    <2> DEFINE P == {u \in S : u < t}
               p == Place(S, t)
    <2>1. IsFiniteSet(P) /\ t \notin P /\ Cardinality(P) \in Nat
      BY <1>1, <1>2, FS_Subset, FS_CardinalityType
    <2>2. Cardinality(P \union {t}) = Cardinality(P) + 1
      BY <2>1, FS_AddElement
    <2>3. Cardinality(P \union {t}) <= n
      BY <1>2, FS_Subset
    <2>4. p \in Nat /\ p < n
      <3>1. p = Cardinality(P)
        BY DEF Place
      <3> HIDE DEF P, p, n
      <3> QED BY <1>2, <2>1, <2>2, <2>3, <3>1
    <2>5. p \div Chunk \in Nat /\ (p \div Chunk) + 1 <= m
      <3> HIDE DEF p, n
      <3>1. p \div Chunk <= (n - 1) \div Chunk /\ p \div Chunk \in Nat
        <4>1. n - 1 \in Nat /\ p <= n - 1
          BY <1>2, <2>4
        <4> QED BY <1>1, <2>4, <4>1, DivideOrder, DivideBy
      <3>2. (n - 1) \div Chunk + 1 = (n + Chunk - 1) \div Chunk
        <4> DEFINE a == n - 1
                   c == n + Chunk - 1
                   q == a \div Chunk
        <4>1. a \in Nat /\ c \in Nat /\ c = a + Chunk
          BY <1>1, <1>2, <2>4
        <4> HIDE DEF a, c
        <4>2. q \in Nat /\ q * Chunk <= a /\ a < q * Chunk + Chunk
          BY <1>1, <4>1, DivideBy
        <4> HIDE DEF q
        <4>3. (q + 1) * Chunk = q * Chunk + Chunk
          BY <1>1, <4>2, SMT
        <4>4. c \div Chunk = q + 1
          BY <1>1, <4>1, <4>2, <4>3, DivideBy
        <4> QED BY <4>4 DEF a, c, q
      <3>3. (n - 1) \div Chunk \in Nat
        <4>1. n - 1 \in Nat
          BY <1>2, <2>4
        <4> QED BY <1>1, <4>1, DivideBy
      <3> DEFINE a == p \div Chunk
                 b == (n - 1) \div Chunk
      <3> HIDE DEF a, b, m
      <3>4. a \in Nat /\ b \in Nat /\ a <= b /\ m = b + 1
        BY <3>1, <3>2, <3>3 DEF a, b, m
      <3>5. a \in Nat /\ a + 1 <= m
        BY <3>4
      <3> QED BY <3>5 DEF a
    <2>6. (p \div Chunk) + 1 \in 1..m
      <3> HIDE DEF p, m
      <3> QED BY <1>3, <2>5
    <2>7. t \in Chunks(S)[(p \div Chunk) + 1]
      <3> DEFINE k == p \div Chunk
      <3>1. Chunks(S)[k + 1] = {u \in S : Place(S, u) \div Chunk = (k + 1) - 1}
        BY <1>4, <2>6
      <3>2. (k + 1) - 1 = k
        <4> HIDE DEF k
        <4> QED BY <2>5 DEF k
      <3> QED BY <3>1, <3>2
    <2> QED BY <2>6, <2>7
  <1> QED BY <1>5, <1>6

\* Every element but the first is in the tail, one place before.
LEMMA TailPlaces ==
    ASSUME NEW S, NEW s \in Seq(S), s # << >>
    PROVE  \A i \in DOMAIN s : i > 1 => /\ i - 1 \in DOMAIN Tail(s)
                                        /\ Tail(s)[i - 1] = s[i]
  <1>1. Len(s) \in Nat /\ DOMAIN s = 1..Len(s) /\ Len(Tail(s)) = Len(s) - 1
        /\ Tail(s) \in Seq(S)
    OBVIOUS
  <1>2. DOMAIN Tail(s) = 1..(Len(s) - 1) /\ \A k \in 1..(Len(s) - 1) : Tail(s)[k] = s[k + 1]
    BY <1>1
  <1> QED BY <1>1, <1>2

LEMMA InPeriodIs == InPeriod \in SUBSET Instants /\ Source \in SUBSET Instants
                    /\ Sheet \in SUBSET Instants
  BY JobAssumption DEF InPeriod, Instants

\* What a run has to go through; a copy goes through the whole source.
LEMMA PiecesOf ==
    ASSUME NEW c \in Conf
    PROVE  /\ Pieces(c) \in Seq(Piece)
           /\ c.kind # "istsos2" => Pieces(c) \in Seq(SUBSET Instants)
           /\ c.kind = "copy" =>
                \A t \in Source : \E i \in DOMAIN Pieces(c) : t \in Pieces(c)[i]
           /\ c.kind = "qc" => Pieces(c) # << >>
  <1>1. c.kind \in {"copy", "istsos2", "sheet", "qc"}
    BY ConfAssumption
  <1>2. CASE c.kind = "copy"
    <2>1. Pieces(c) = Chunks(Source)
      BY <1>2 DEF Pieces
    <2> QED BY <1>2, <2>1, ChunksCover, InPeriodIs DEF Piece
  <1>3. CASE c.kind = "sheet"
    <2>1. Pieces(c) = Chunks(Sheet)
      BY <1>3 DEF Pieces
    <2> QED BY <1>3, <2>1, ChunksCover, InPeriodIs DEF Piece
  <1>4. CASE c.kind = "qc"
    <2>1. Pieces(c) = <<InPeriod>>
      BY <1>4 DEF Pieces
    <2> QED BY <1>4, <2>1, InPeriodIs DEF Piece
  <1>5. CASE c.kind = "istsos2" /\ Cardinality(Source) < 2
    <2>1. Pieces(c) = << >>
      BY <1>5 DEF Pieces
    <2> QED BY <1>5, <2>1
  <1>6. CASE c.kind = "istsos2" /\ ~(Cardinality(Source) < 2)
    <2> DEFINE from == LeastIn(Source)
               to == MostIn(Source)
               m == (to - from + Step - 1) \div Step
    <2>1. Source # {}
      BY <1>6, FS_EmptySet
    <2>2. from \in Instants /\ to \in Instants /\ from <= to
      BY <2>1, Leasts, Mosts, InPeriodIs
    <2> HIDE DEF from, to
    <2>3. /\ to - from + Step - 1 \in Nat /\ Step \in Nat \ {0}
          /\ from \in Nat /\ to \in Nat
      BY <2>2, JobAssumption DEF Instants
    <2>4. m \in Nat
      BY <2>3, DivideBy
    <2>5. Pieces(c) = [i \in 1..m |->
            [from |-> from + (i - 1) * Step,
             to |-> IF from + i * Step > to THEN to ELSE from + i * Step]]
      BY <1>6 DEF Pieces, TimeWindows, from, to
    <2> HIDE DEF m
    <2>6. \A i \in 1..m : /\ from + (i - 1) * Step \in Int
                           /\ (IF from + i * Step > to THEN to ELSE from + i * Step) \in Int
      BY <2>3, <2>4
    <2>7. \A i \in 1..m : Pieces(c)[i] \in Piece
      BY <2>5, <2>6 DEF Piece
    <2>8. Pieces(c) \in Seq(Piece)
      BY <2>4, <2>5, <2>7
    <2> QED BY <1>6, <2>8
  <1> QED BY <1>1, <1>2, <1>3, <1>4, <1>5, <1>6

\* A run f goes on to its next piece, or is done.
LEMMA FollowingState ==
    ASSUME NEW f \in JobState, f.todo # << >>,
           f.conf.kind # "istsos2" => f.todo \in Seq(SUBSET Instants)
    PROVE  LET g == Following(f)
           IN  /\ g \in JobState /\ Equipped(g)
               /\ g.conf = f.conf /\ g.alone = f.alone /\ g.run = f.run /\ g.seen = f.seen
               /\ g.todo = Tail(f.todo)
               /\ g.pc = IF Tail(f.todo) = << >> THEN "done" ELSE FirstStep(f.conf.kind)
  <1> DEFINE g == Following(f)
  <1>1. f.conf \in Conf /\ f.conf.kind \in {"copy", "istsos2", "sheet", "qc"}
    BY ConfAssumption DEF JobState
  <1>2. f.todo \in Seq(Piece)
    BY DEF JobState
  <1>3. /\ Tail(f.todo) \in Seq(Piece)
        /\ f.conf.kind # "istsos2" => Tail(f.todo) \in Seq(SUBSET Instants)
    BY <1>2
  <1>4. /\ g.conf = f.conf /\ g.alone = f.alone /\ g.run = f.run /\ g.seen = f.seen
        /\ g.todo = Tail(f.todo) /\ g.batch = None
        /\ g.pc = IF Tail(f.todo) = << >> THEN "done" ELSE FirstStep(f.conf.kind)
    BY DEF Following, JobState
  <1>5. g.pc \in {"done", "check", "fetch", "chunk", "read"}
        /\ (g.pc # "done" => g.pc = FirstStep(g.conf.kind))
        /\ (g.pc = "done" <=> g.todo = << >>)
    BY <1>1, <1>4 DEF FirstStep
  <1>6. g \in JobState
    BY <1>1, <1>3, <1>5, NoneReads DEF Following, JobState, Steps
  <1>7. Equipped(g)
    BY <1>1, <1>3, <1>4, <1>5 DEF Equipped, FirstStep
  <1> HIDE DEF g
  <1> QED BY <1>4, <1>6, <1>7 DEF g

\* A run f sends the rows b, or goes on when there are none.
LEMMA WithState ==
    ASSUME NEW f \in JobState, f.todo # << >>,
           f.conf.kind # "istsos2" => f.todo \in Seq(SUBSET Instants),
           NEW b \in Readings, \A t \in DOMAIN b : b[t] \in Row,
           NEW p \in {"send", "lookup", "mark"},
           p = "lookup" => f.conf.kind = "istsos2" /\ f.conf.override,
           p = "mark" => f.conf.kind = "qc",
           f.conf.kind = "qc" => p # "send" /\ DOMAIN f.seen = Instants
    PROVE  LET g == With(f, b, p)
           IN  /\ g \in JobState /\ Equipped(g)
               /\ g.conf = f.conf /\ g.alone = f.alone /\ g.run = f.run /\ g.seen = f.seen
               /\ DOMAIN b = {} => g = Following(f)
               /\ DOMAIN b # {} => g.todo = f.todo /\ g.batch = b /\ g.pc = p
  <1> DEFINE g == With(f, b, p)
  <1>1. CASE DOMAIN b = {}
    <2>1. g = Following(f)
      BY <1>1 DEF With
    <2> QED BY <1>1, <2>1, FollowingState
  <1>2. CASE DOMAIN b # {}
    <2>1. g = [f EXCEPT !.batch = b, !.pc = p]
      BY <1>2 DEF With
    <2>2. /\ g.conf = f.conf /\ g.alone = f.alone /\ g.run = f.run /\ g.seen = f.seen
          /\ g.todo = f.todo /\ g.batch = b /\ g.pc = p
      BY <2>1 DEF JobState
    <2>3. g \in JobState
      BY <2>1 DEF JobState, Steps
    <2> HIDE DEF g
    <2>4. Equipped(g)
      BY <1>2, <2>2 DEF Equipped, Sendable
    <2> QED BY <1>2, <2>2, <2>3, <2>4 DEF g
  <1> QED BY <1>1, <1>2

-----------------------------------------------------------------------------
(* Import jobs: one step.                                                  *)

\* A step that writes nothing concerns only the run that takes it.
LEMMA QuietRun ==
    ASSUME JobInv, NEW j \in Job, NEW g \in JobState, Equipped(g), Undisturbed(g, store),
           Advance(j, g), store' = store, runs' \in 0..MaxRuns
    PROVE  JobInv'
  BY DEF JobInv, ImportTypes, Advance

\* A write to the Datastream disturbs the other runs.
LEMMA WritingRun ==
    ASSUME JobInv, NEW j \in Job, NEW g \in JobState, Equipped(g), Undisturbed(g, store'),
           Written(j, g), store' \in [Instants -> Entry], runs' = runs
    PROVE  JobInv'
  <1>1. ASSUME NEW k \in Job, k # j
        PROVE  job'[k] \in JobState /\ Equipped(job'[k]) /\ Undisturbed(job'[k], store')
    <2>1. job[k] \in JobState /\ Equipped(job[k]) /\ Undisturbed(job[k], store)
      BY DEF JobInv, ImportTypes
    <2>2. CASE job[k].pc = "ready"
      <3>1. job'[k] = job[k]
        BY <1>1, <2>2 DEF Written
      <3> QED BY <2>1, <2>2, <3>1 DEF Undisturbed, CopyAhead, GradesAhead
    <2>3. CASE job[k].pc # "ready"
      <3>1. job'[k] = [job[k] EXCEPT !.alone = FALSE]
        BY <1>1, <2>3 DEF Written
      <3>2. job'[k] \in JobState /\ ~job'[k].alone
        BY <2>1, <3>1 DEF JobState
      <3>3. Equipped(job'[k])
        BY <2>1, <3>1 DEF JobState, Equipped, Sendable
      <3> QED BY <3>2, <3>3 DEF Undisturbed
    <2> QED BY <2>2, <2>3
  <1>2. job' \in [Job -> JobState]
    BY <1>1 DEF Written
  <1>3. job'[j] = g
    BY DEF Written
  <1> QED BY <1>1, <1>2, <1>3 DEF JobInv, ImportTypes


\* What JobInv says of one run.
LEMMA Current ==
    ASSUME JobInv, NEW j \in Job
    PROVE  /\ job[j] \in JobState /\ Equipped(job[j]) /\ Undisturbed(job[j], store)
           /\ job[j].conf \in Conf /\ job[j].conf.kind \in {"copy", "istsos2", "sheet", "qc"}
           /\ job[j].run \in 0..MaxRuns
           /\ job[j].batch \in Readings /\ job[j].seen \in Readings
           /\ store \in [Instants -> Entry]
           /\ runs \in 0..MaxRuns /\ MaxRuns \in Nat
  <1>1. job[j] \in JobState /\ Equipped(job[j]) /\ Undisturbed(job[j], store)
    BY DEF JobInv, ImportTypes
  <1>2. /\ job[j].conf \in Conf /\ job[j].run \in 0..MaxRuns
        /\ job[j].batch \in Readings /\ job[j].seen \in Readings
    BY <1>1 DEF JobState
  <1>3. job[j].conf.kind \in {"copy", "istsos2", "sheet", "qc"}
    BY <1>2, ConfAssumption
  <1>4. store \in [Instants -> Entry] /\ runs \in 0..MaxRuns
    BY DEF JobInv, ImportTypes
  <1>5. MaxRuns \in Nat
    BY JobAssumption
  <1> QED BY <1>1, <1>2, <1>3, <1>4, <1>5

\* A run that ends with an error.
LEMMA FailedState ==
    ASSUME NEW f \in JobState, Equipped(f), f.pc \notin {"ready", "done", "failed"}
    PROVE  LET g == [f EXCEPT !.pc = "failed"]
           IN  g \in JobState /\ Equipped(g) /\ g.conf = f.conf /\ g.alone = f.alone
               /\ g.pc = "failed"
  BY DEF JobState, Equipped, Steps

LEMMA StartKeeps ==
    ASSUME JobInv, NEW j \in Job, StartJob(j)
    PROVE  JobInv'
  <1> DEFINE todo == Pieces(job[j].conf)
             g == [job[j] EXCEPT !.todo = todo, !.alone = TRUE, !.run = runs',
                                 !.pc = IF todo = << >> THEN "done"
                                        ELSE FirstStep(job[j].conf.kind)]
  <1>1. Advance(j, g) /\ store' = store /\ runs' = runs + 1 /\ runs < MaxRuns
    BY DEF StartJob
  <1>2. runs' \in 0..MaxRuns
    BY <1>1, Current
  <1>3. /\ todo \in Seq(Piece)
        /\ job[j].conf.kind # "istsos2" => todo \in Seq(SUBSET Instants)
        /\ job[j].conf.kind = "copy" =>
                \A t \in Source : \E i \in DOMAIN todo : t \in todo[i]
        /\ job[j].conf.kind = "qc" => todo # << >>
    BY Current, PiecesOf
  <1> HIDE DEF todo
  <1>4. /\ g.conf = job[j].conf /\ g.todo = todo
        /\ g.pc = IF todo = << >> THEN "done" ELSE FirstStep(job[j].conf.kind)
    BY Current DEF JobState
  <1>5. g.pc \in {"done", "check", "fetch", "chunk", "read"}
    BY <1>4, Current DEF FirstStep
  <1>6. g \in JobState
    BY <1>2, <1>3, <1>5, Current DEF JobState, Steps
  <1> HIDE DEF g
  <1>7. Equipped(g)
    BY <1>3, <1>4, <1>5, Current DEF Equipped, FirstStep
  <1>8. Undisturbed(g, store)
    <2>1. ASSUME g.conf.kind = "copy" PROVE CopyAhead(g, store)
      BY <1>3, <1>4, <1>5, <2>1 DEF CopyAhead
    <2>2. ASSUME g.conf.kind = "qc" PROVE GradesAhead(g, store)
      BY <1>3, <1>4, <2>2 DEF GradesAhead, FirstStep
    <2> QED BY <2>1, <2>2 DEF Undisturbed
  <1> QED BY <1>1, <1>2, <1>6, <1>7, <1>8, QuietRun

\* A row taken from the source.
LEMMA SourceRow ==
    ASSUME JobInv, NEW j \in Job, NEW t
    PROVE  SrcRow(j, t) \in Row
  BY Current DEF SrcRow, Row

LEMMA CheckKeeps ==
    ASSUME JobInv, NEW j \in Job, Check(j)
    PROVE  JobInv'
  <1> DEFINE f == job[j]
             block == Head(f.todo)
             existing == {t \in DaySpan(block, f.conf.until) : Held(t)}
             pending == Pending(block, existing, f.conf.drop)
             b == [t \in pending |-> SrcRow(j, t)]
             g == With(f, b, "send")
  <1>1. f.pc = "check" /\ Advance(j, g) /\ store' = store /\ runs' = runs
    BY DEF Check
  <1>2. /\ f \in JobState /\ f.conf.kind = "copy" /\ f.todo # << >>
        /\ f.todo \in Seq(SUBSET Instants) /\ Undisturbed(f, store)
    BY <1>1, Current DEF Equipped
  <1>3. block \in SUBSET Instants /\ block = f.todo[1]
    BY <1>2
  <1> HIDE DEF f, block
  <1>4. pending \in SUBSET block
    BY DEF Pending
  <1>5. \A t \in block : t \notin pending => Held(t) \/ (f.conf.drop /\ t \in NoData)
    BY DEF Pending
  <1>6. \A t \in pending : ~Held(t) \/ Overnight(f, t)
    <2>1. ASSUME NEW t \in block, ~Overnight(f, t) PROVE t \in DaySpan(block, f.conf.until)
      <3>1. /\ LeastIn(block) \in Nat /\ LeastIn(block) <= t /\ t \in Nat
            /\ MostIn(block) \in Nat /\ t <= MostIn(block) /\ Day \in Nat \ {0}
        BY <1>3, Leasts, Mosts, JobAssumption DEF Instants
      <3>2. /\ t \div Day >= LeastIn(block) \div Day
            /\ t \div Day <= MostIn(block) \div Day
        BY <3>1, DivideOrder
      <3>3. f.conf.until[t] \in Nat
        BY <1>2, <1>3, ConfAssumption DEF JobState, Instants
      <3>4. f.conf.until[t] \div Day <= t \div Day
        <4>1. ~(f.conf.until[t] \div Day > t \div Day)
          BY <2>1 DEF Overnight
        <4>2. f.conf.until[t] \div Day \in Int /\ t \div Day \in Int
          BY <3>1, <3>3
        <4> QED BY <4>1, <4>2
      <3>5. f.conf.until[t] \div Day <= MostIn(block) \div Day
        BY <3>1, <3>2, <3>3, <3>4
      <3> QED BY <1>3, <3>2, <3>5 DEF DaySpan
    <2> QED BY <1>4, <2>1 DEF Pending
  <1> HIDE DEF pending
  <1>7. b \in Readings /\ DOMAIN b = pending /\ \A t \in DOMAIN b : b[t] \in Row
    <2>1. \A t \in pending : SrcRow(j, t) \in Row
      BY SourceRow
    <2>2. b \in [pending -> Entry]
      BY <2>1 DEF Entry
    <2> QED BY <1>3, <1>4, <2>1, <2>2, Readable
  <1> HIDE DEF b
  <1>8. /\ g \in JobState /\ Equipped(g) /\ g.conf = f.conf /\ g.alone = f.alone
        /\ DOMAIN b = {} => g = Following(f)
        /\ DOMAIN b # {} => g.todo = f.todo /\ g.batch = b /\ g.pc = "send"
    <2>1. /\ f \in JobState /\ f.todo # << >> /\ f.todo \in Seq(SUBSET Instants)
          /\ f.conf.kind = "copy" /\ b \in Readings /\ \A t \in DOMAIN b : b[t] \in Row
      BY <1>2, <1>7
    <2> QED BY <2>1, WithState, SMTT(30)
  <1>9. ASSUME f.alone PROVE CopyAhead(g, store)
    <2>0. \A t : Overnight(g, t) = Overnight(f, t)
      BY <1>8 DEF Overnight
    <2>1. CopyAhead(f, store)
      BY <1>2, <1>9 DEF Undisturbed
    <2>2. ASSUME NEW t \in Source
          PROVE  \/ store[t] # NoReading \/ (f.conf.drop /\ t \in NoData)
                 \/ t \in pending
                 \/ \E i \in DOMAIN f.todo : t \in f.todo[i] /\ i > 1
      <3>1. CASE \E i \in DOMAIN f.todo : t \in f.todo[i]
        <4>1. PICK i \in DOMAIN f.todo : t \in f.todo[i]
          BY <3>1
        <4>2. i = 1 \/ i > 1
          BY <1>2
        <4> QED BY <1>3, <1>5, <4>1, <4>2 DEF Held
      <3> QED BY <1>1, <2>1, <3>1 DEF CopyAhead, f
    <2>3. CASE pending # {}
      BY <1>6, <1>7, <1>8, <2>0, <2>2, <2>3 DEF CopyAhead, Held
    <2>4. CASE pending = {}
      <3>1. /\ g.todo = Tail(f.todo)
            /\ g.pc = IF Tail(f.todo) = << >> THEN "done" ELSE "check"
        BY <1>2, <1>7, <1>8, <2>4, FollowingState DEF FirstStep
      <3>2. \A i \in DOMAIN f.todo : i > 1 => /\ i - 1 \in DOMAIN g.todo
                                              /\ g.todo[i - 1] = f.todo[i]
        BY <1>2, <3>1, TailPlaces
      <3> QED BY <1>8, <2>2, <2>4, <3>1, <3>2 DEF CopyAhead
    <2> QED BY <2>3, <2>4
  <1>10. Undisturbed(g, store)
    BY <1>2, <1>8, <1>9 DEF Undisturbed
  <1> QED BY <1>1, <1>8, <1>10, Current, QuietRun


LEMMA FetchKeeps ==
    ASSUME JobInv, NEW j \in Job, Fetch(j)
    PROVE  JobInv'
  <1>0. PICK closed \in BOOLEAN :
          Advance(j, With(job[j], ArrayOf(j, job[j].conf, Fetched(Head(job[j].todo), closed)),
                          IF job[j].conf.override THEN "lookup" ELSE "send"))
    BY DEF Fetch
  <1> DEFINE f == job[j]
             fetched == Fetched(Head(f.todo), closed)
             kept == {t \in fetched : f.conf.drop => t \notin NoData}
             ends == {e \in {BinEnd(t) : t \in kept} : e \in Instants}
             b == ArrayOf(j, f.conf, fetched)
             p == IF f.conf.override THEN "lookup" ELSE "send"
             g == With(f, b, p)
  <1>1. f.pc = "fetch" /\ Advance(j, g) /\ store' = store /\ runs' = runs
    BY <1>0 DEF Fetch
  <1>2. f \in JobState /\ f.conf.kind = "istsos2" /\ f.todo # << >>
    BY <1>1, Current DEF Equipped
  <1>3. kept \in SUBSET Instants /\ ends \in SUBSET Instants
    BY InPeriodIs DEF Fetched
  <1>4. b = IF f.conf.bin
            THEN [e \in ends |-> [by |-> f.run, of |-> {t \in kept : BinEnd(t) = e},
                                  data |-> TRUE, q |-> 100]]
            ELSE [t \in kept |-> SrcRow(j, t)]
    BY DEF ArrayOf
  <1> HIDE DEF ends, kept, fetched
  <1>5. b \in Readings /\ \A t \in DOMAIN b : b[t] \in Row
    <2>1. CASE f.conf.bin
      <3>1. b = [e \in ends |-> [by |-> f.run, of |-> {t \in kept : BinEnd(t) = e},
                                 data |-> TRUE, q |-> 100]]
        BY <1>4, <2>1
      <3>2. \A e \in ends : b[e] \in Row
        BY <1>3, <3>1, Current DEF Row
      <3>3. b \in [ends -> Entry] /\ DOMAIN b = ends
        BY <3>1, <3>2 DEF Entry
      <3> QED BY <1>3, <3>2, <3>3, Readable
    <2>2. CASE ~f.conf.bin
      <3>1. b = [t \in kept |-> SrcRow(j, t)]
        BY <1>4, <2>2
      <3>2. \A e \in kept : b[e] \in Row
        BY <3>1, SourceRow
      <3>3. b \in [kept -> Entry] /\ DOMAIN b = kept
        BY <3>1, <3>2 DEF Entry
      <3> QED BY <1>3, <3>2, <3>3, Readable
    <2> QED BY <2>1, <2>2
  <1> HIDE DEF b, f, p
  <1>6. p \in {"send", "lookup"} /\ (p = "lookup" => f.conf.override)
    BY DEF p
  <1>7. g \in JobState /\ Equipped(g) /\ g.conf = f.conf
    BY <1>2, <1>5, <1>6, WithState
  <1>8. Undisturbed(g, store)
    BY <1>2, <1>7 DEF Undisturbed
  <1> QED BY <1>1, <1>7, <1>8, Current, QuietRun

LEMMA ChunkKeeps ==
    ASSUME JobInv, NEW j \in Job, NextChunk(j)
    PROVE  JobInv'
  <1> DEFINE f == job[j]
             b == [t \in Head(f.todo) |->
                     [by |-> f.run, of |-> {}, data |-> TRUE, q |-> 100]]
             g == With(f, b, "send")
  <1>1. f.pc = "chunk" /\ Advance(j, g) /\ store' = store /\ runs' = runs
    BY DEF NextChunk
  <1>2. /\ f \in JobState /\ f.conf.kind = "sheet" /\ f.todo # << >>
        /\ f.todo \in Seq(SUBSET Instants) /\ f.run \in 0..MaxRuns
    BY <1>1, Current DEF Equipped
  <1>3. Head(f.todo) \in SUBSET Instants
    BY <1>2
  <1>4. \A t \in Head(f.todo) : b[t] \in Row
    BY <1>2 DEF Row
  <1>5. b \in Readings /\ \A t \in DOMAIN b : b[t] \in Row
    <2>1. b \in [Head(f.todo) -> Entry]
      BY <1>4 DEF Entry
    <2> QED BY <1>3, <1>4, <2>1, Readable
  <1> HIDE DEF b, f
  <1>6. g \in JobState /\ Equipped(g) /\ g.conf = f.conf
    BY <1>2, <1>5, WithState
  <1>7. Undisturbed(g, store)
    BY <1>2, <1>6 DEF Undisturbed
  <1> QED BY <1>1, <1>6, <1>7, Current, QuietRun

\* Rows outside PERIOD that check_datastream reads depend on the rows before it only.
LEMMA ShotOutside ==
    ASSUME NEW s \in [Instants -> Entry], NEW u \in [Instants -> Entry],
           \A t \in Instants \ InPeriod : u[t] = s[t]
    PROVE  \A t \in Instants \ InPeriod : Shot(u)[t] = Shot(s)[t]
  <1> SUFFICES ASSUME NEW t \in Instants \ InPeriod PROVE Shot(u)[t] = Shot(s)[t]
    OBVIOUS
  <1> DEFINE Between(x) == {v \in Rows(x) : t < v /\ v < Period.from}
  <1>1. Period.from \in Nat /\ Period.to \in Nat /\ Instants \in SUBSET Nat
    BY JobAssumption DEF Instants
  <1>2. t \in ReadRows(u) <=> t \in ReadRows(s)
    <2>1. t \in Rows(u) <=> t \in Rows(s)
      BY DEF Rows
    <2>2. t < Period.from => Between(u) = Between(s)
      <3>1. ASSUME NEW v \in Instants, v < Period.from PROVE u[v] = s[v]
        BY <1>1, <3>1 DEF InPeriod
      <3> QED BY <3>1 DEF Rows
    <2> QED BY <2>1, <2>2 DEF ReadRows
  <1> QED BY <1>2 DEF Shot

LEMMA SendKeeps ==
    ASSUME JobInv, NEW j \in Job, Send(j)
    PROVE  JobInv'
  <1> DEFINE f == job[j]
             cleared == Cleared(Forced(f.conf), f.batch)
  <1>1. /\ f.pc = "send" /\ f \in JobState /\ Equipped(f) /\ Undisturbed(f, store)
        /\ f.todo # << >> /\ Sendable(f)
        /\ f.conf.kind # "istsos2" => f.todo \in Seq(SUBSET Instants)
        /\ f.conf.kind = "qc" => DOMAIN f.seen = Instants /\ DOMAIN f.batch \subseteq InPeriod
    BY Current DEF Send, Equipped
  <1>2. f.conf.kind \in {"copy", "qc"} => cleared = {}
    BY DEF Cleared, Forced
  <1>3. CASE \E t \in DOMAIN f.batch : Held(t) /\ t \notin cleared
    <2> DEFINE g == [f EXCEPT !.pc = "failed"]
    <2>1. Advance(j, g) /\ store' = store /\ runs' = runs
      BY <1>3 DEF Send
    <2>2. g \in JobState /\ Equipped(g) /\ g.conf = f.conf /\ g.alone = f.alone /\ g.pc = "failed"
      BY <1>1, FailedState
    <2> HIDE DEF g
    <2>3. ASSUME f.alone, f.conf.kind = "copy" PROVE CopyAhead(g, store)
      <3>1. CopyAhead(f, store)
        BY <1>1, <2>3 DEF Undisturbed
      <3>2. PICK t \in DOMAIN f.batch : Held(t)
        BY <1>3
      <3>3. t \in Instants
        BY <3>2, Current, Reads
      <3>4. Overnight(f, t)
        BY <1>1, <3>1, <3>2 DEF CopyAhead, Held
      <3>5. Overnight(g, t)
        BY <2>2, <3>4 DEF Overnight
      <3> QED BY <2>2, <3>2, <3>3, <3>5 DEF CopyAhead, Held
    <2>4. Undisturbed(g, store)
      BY <2>2, <2>3 DEF Undisturbed, GradesAhead
    <2> QED BY <2>1, <2>2, <2>4, Current, QuietRun
  <1>4. CASE ~(\E t \in DOMAIN f.batch : Held(t) /\ t \notin cleared)
    <2> DEFINE g == AfterSend(f)
    <2>1. /\ store' = [t \in Instants |->
                          IF t \in DOMAIN f.batch THEN f.batch[t]
                          ELSE IF t \in cleared THEN NoReading ELSE store[t]]
          /\ Written(j, g) /\ runs' = runs
      BY <1>4 DEF Send
    <2>2. store' \in [Instants -> Entry]
      BY <1>1, <2>1, Current DEF Entry, Sendable
    <2>3. /\ g \in JobState /\ Equipped(g) /\ g.conf = f.conf /\ g.alone = f.alone
          /\ f.conf.kind = "qc" => g.pc = "reread" /\ g.seen = f.seen
          /\ f.conf.kind # "qc" => g = Following(f)
      <3>1. CASE f.conf.kind = "qc"
        <4>1. g = [f EXCEPT !.pc = "reread", !.batch = None]
          BY <3>1 DEF AfterSend
        <4>2. g \in JobState
          BY <1>1, <4>1, NoneReads DEF JobState, Steps
        <4>3. /\ g.conf = f.conf /\ g.alone = f.alone /\ g.pc = "reread" /\ g.seen = f.seen
              /\ g.todo = f.todo
          BY <1>1, <4>1 DEF JobState
        <4> HIDE DEF g
        <4>4. Equipped(g)
          BY <1>1, <3>1, <4>3 DEF Equipped
        <4> QED BY <3>1, <4>2, <4>3, <4>4
      <3>2. CASE f.conf.kind # "qc"
        <4>1. g = Following(f)
          BY <3>2 DEF AfterSend
        <4> QED BY <1>1, <3>2, <4>1, FollowingState
      <3> QED BY <3>1, <3>2
    <2> HIDE DEF g
    <2>4. ASSUME f.alone, f.conf.kind = "copy" PROVE CopyAhead(g, store')
      <3>1. CopyAhead(f, store)
        BY <1>1, <2>4 DEF Undisturbed
      <3>2. /\ g.todo = Tail(f.todo) /\ f.todo \in Seq(SUBSET Instants)
            /\ g.pc = IF Tail(f.todo) = << >> THEN "done" ELSE "check"
        <4>1. f.todo \in Seq(SUBSET Instants) /\ g = Following(f) /\ FirstStep(f.conf.kind) = "check"
          BY <1>1, <2>3, <2>4 DEF FirstStep
        <4> HIDE DEF f
        <4> QED BY <1>1, <4>1, FollowingState
      <3>3. \A i \in DOMAIN f.todo : i > 1 => /\ i - 1 \in DOMAIN g.todo
                                              /\ g.todo[i - 1] = f.todo[i]
        BY <1>1, <3>2, TailPlaces
      <3>4. \A t \in Instants : store[t] # NoReading => store'[t] # NoReading
        BY <1>1, <1>2, <2>1, <2>4, ReadingAssumption DEF Sendable
      <3>5. \A t \in DOMAIN f.batch : t \in Instants /\ store'[t] # NoReading
        BY <1>1, <2>1, Current, Reads, ReadingAssumption DEF Sendable
      <3> QED BY <1>1, <2>3, <3>1, <3>2, <3>3, <3>4, <3>5, InPeriodIs DEF CopyAhead
    <2>5. ASSUME f.alone, f.conf.kind = "qc" PROVE GradesAhead(g, store')
      <3>1. GradesAhead(f, store)
        BY <1>1, <2>5 DEF Undisturbed
      <3>2. \A t \in Instants \ InPeriod : store'[t] = store[t]
        BY <1>1, <1>2, <2>1, <2>5
      <3>3. \A t \in Instants \ InPeriod : Shot(store')[t] = Shot(store)[t]
        BY <2>2, <3>2, Current, ShotOutside
      <3> QED BY <1>1, <2>3, <2>5, <3>1, <3>3 DEF GradesAhead
    <2>6. Undisturbed(g, store')
      BY <2>3, <2>4, <2>5 DEF Undisturbed
    <2> QED BY <2>1, <2>2, <2>3, <2>6, WritingRun
  <1> QED BY <1>3, <1>4


\* The rows of a batch after its first.
LEMMA RestOf ==
    ASSUME NEW b \in Readings, DOMAIN b # {}, \A t \in DOMAIN b : b[t] \in Row
    PROVE  LET t == LeastIn(DOMAIN b)
               rest == [u \in DOMAIN b \ {t} |-> b[u]]
           IN  /\ t \in DOMAIN b /\ t \in Instants /\ b[t] \in Row
               /\ rest \in Readings /\ DOMAIN rest = DOMAIN b \ {t}
               /\ \A u \in DOMAIN rest : rest[u] \in Row /\ rest[u] = b[u]
  <1> DEFINE t == LeastIn(DOMAIN b)
             rest == [u \in DOMAIN b \ {t} |-> b[u]]
  <1>1. DOMAIN b \in SUBSET Instants
    BY Reads
  <1>2. t \in DOMAIN b /\ t \in Instants
    BY <1>1, Leasts
  <1>3. /\ DOMAIN rest = DOMAIN b \ {t}
        /\ \A u \in DOMAIN rest : rest[u] \in Row /\ rest[u] = b[u]
    OBVIOUS
  <1>4. rest \in [DOMAIN b \ {t} -> Entry]
    BY <1>3 DEF Entry
  <1>5. rest \in Readings
    BY <1>1, <1>4, Readable
  <1> QED BY <1>2, <1>3, <1>5

LEMMA LookupKeeps ==
    ASSUME JobInv, NEW j \in Job, Lookup(j)
    PROVE  JobInv'
  <1> DEFINE f == job[j]
             t == LeastIn(DOMAIN f.batch)
             rest == [u \in DOMAIN f.batch \ {t} |-> f.batch[u]]
             g == IF Held(t) THEN [f EXCEPT !.seen = [u \in {t} |-> store[t]],
                                            !.pc = "replace"]
                  ELSE With(f, rest, "lookup")
  <1>1. f.pc = "lookup" /\ Advance(j, g) /\ store' = store /\ runs' = runs
    BY DEF Lookup
  <1>2. /\ f \in JobState /\ f.conf.kind = "istsos2" /\ f.conf.override /\ f.todo # << >>
        /\ Sendable(f) /\ f.batch \in Readings /\ store \in [Instants -> Entry]
    BY <1>1, Current DEF Equipped
  <1>3. /\ t \in DOMAIN f.batch /\ t \in Instants
        /\ rest \in Readings /\ \A u \in DOMAIN rest : rest[u] \in Row
    BY <1>2, RestOf DEF Sendable
  <1> HIDE DEF f, t, rest
  <1>4. g \in JobState /\ Equipped(g) /\ g.conf = f.conf
    <2>1. CASE Held(t)
      <3> DEFINE seen == [u \in {t} |-> store[t]]
      <3>1. g = [f EXCEPT !.seen = seen, !.pc = "replace"]
        BY <2>1
      <3>2. seen \in Readings /\ DOMAIN seen = {t}
        <4>1. seen \in [{t} -> Entry]
          BY <1>2, <1>3
        <4> QED BY <1>3, <4>1, Readable
      <3> HIDE DEF seen
      <3>3. g \in JobState
        BY <1>2, <3>1, <3>2 DEF JobState, Steps
      <3>4. /\ g.conf = f.conf /\ g.todo = f.todo /\ g.batch = f.batch /\ g.pc = "replace"
            /\ g.seen = seen
        BY <1>2, <3>1 DEF JobState
      <3> HIDE DEF g
      <3>5. Equipped(g)
        BY <1>2, <3>2, <3>4 DEF Equipped, Sendable, t
      <3> QED BY <3>3, <3>4, <3>5
    <2>2. CASE ~Held(t)
      <3>1. g = With(f, rest, "lookup")
        BY <2>2
      <3> QED BY <1>2, <1>3, <3>1, WithState
    <2> QED BY <2>1, <2>2
  <1>5. Undisturbed(g, store)
    BY <1>2, <1>4 DEF Undisturbed
  <1> QED BY <1>1, <1>4, <1>5, Current, QuietRun

LEMMA ReplaceKeeps ==
    ASSUME JobInv, NEW j \in Job, Replace(j)
    PROVE  JobInv'
  <1> DEFINE f == job[j]
             t == LeastIn(DOMAIN f.batch)
             rest == [u \in DOMAIN f.batch \ {t} |-> f.batch[u]]
  <1>1. /\ f.pc = "replace" /\ f \in JobState /\ Equipped(f) /\ f.conf.kind = "istsos2"
        /\ f.conf.override /\ f.todo # << >>
        /\ Sendable(f) /\ f.batch \in Readings /\ store \in [Instants -> Entry]
    BY Current DEF Replace, Equipped
  <1>2. /\ t \in DOMAIN f.batch /\ t \in Instants /\ f.batch[t] \in Row
        /\ rest \in Readings /\ \A u \in DOMAIN rest : rest[u] \in Row
    BY <1>1, RestOf DEF Sendable
  <1>3. CASE ~StillThere(f, t)
    <2> DEFINE g == [f EXCEPT !.pc = "failed"]
    <2>1. Advance(j, g) /\ store' = store /\ runs' = runs
      BY <1>3 DEF Replace
    <2>2. g \in JobState /\ Equipped(g) /\ g.conf = f.conf
      BY <1>1, FailedState
    <2>3. Undisturbed(g, store)
      BY <1>1, <2>2 DEF Undisturbed
    <2> QED BY <2>1, <2>2, <2>3, Current, QuietRun
  <1>4. CASE StillThere(f, t)
    <2> DEFINE h == [f EXCEPT !.seen = None]
               g == With(h, rest, "lookup")
    <2>1. /\ store' = [store EXCEPT ![t].of = f.batch[t].of, ![t].data = f.batch[t].data,
                                    ![t].q = f.batch[t].q]
          /\ Written(j, g) /\ runs' = runs
      BY <1>4 DEF Replace
    <2>2. store[t] \in Row
      BY <1>1, <1>2, <1>4 DEF StillThere, Held, Entry
    <2>3. store' \in [Instants -> Entry]
      <3>1. store'[t] \in Row
        BY <1>1, <1>2, <2>1, <2>2 DEF Row
      <3>2. \A u \in Instants : u # t => store'[u] = store[u]
        BY <1>1, <2>1
      <3>3. store' = [u \in Instants |-> store'[u]]
        BY <1>1, <2>1
      <3>4. \A u \in Instants : store'[u] \in Entry
        BY <1>1, <3>1, <3>2 DEF Entry
      <3> QED BY <3>3, <3>4
    <2>4. h \in JobState /\ h.conf = f.conf /\ h.todo = f.todo
      BY <1>1, NoneReads DEF JobState
    <2> HIDE DEF h, rest
    <2>5. g \in JobState /\ Equipped(g) /\ g.conf = f.conf
      BY <1>1, <1>2, <2>4, WithState
    <2>6. Undisturbed(g, store')
      BY <1>1, <2>5 DEF Undisturbed
    <2> QED BY <2>1, <2>3, <2>5, <2>6, WritingRun
  <1> QED BY <1>3, <1>4

-----------------------------------------------------------------------------
(* Import jobs: the quality control.                                       *)

LEMMA ShotReads ==
    ASSUME NEW s \in [Instants -> Entry]
    PROVE  /\ Shot(s) \in [Instants -> Entry] /\ Shot(s) \in Readings
           /\ \A t \in InPeriod : Shot(s)[t] = s[t]
  <1>1. Shot(s) \in [Instants -> Entry]
    BY DEF Shot, Entry
  <1>2. \A t \in InPeriod : Shot(s)[t] = s[t]
    BY InPeriodIs DEF Shot, ReadRows, Rows
  <1> QED BY <1>1, <1>2, Readable

LEMMA ReadKeeps ==
    ASSUME JobInv, NEW j \in Job, ReadSource(j)
    PROVE  JobInv'
  <1> DEFINE f == job[j]
             gaps == IF f.conf.fill THEN Missing(Snapshot) ELSE {}
             fail == [f EXCEPT !.pc = "failed"]
             read == [f EXCEPT !.seen = Snapshot, !.pc = "grade"]
             b == [t \in gaps |-> [by |-> f.run, of |-> {}, data |-> FALSE, q |-> 0]]
             g == IF f.conf.fill /\ Misaligned(Snapshot) THEN fail
                  ELSE IF gaps = {} THEN read
                  ELSE [read EXCEPT !.pc = "send", !.batch = b]
  <1>1. f.pc = "read" /\ Advance(j, g) /\ store' = store /\ runs' = runs
    BY DEF ReadSource
  <1>2. /\ f \in JobState /\ Equipped(f) /\ f.conf.kind = "qc" /\ f.todo # << >>
        /\ f.todo \in Seq(SUBSET Instants) /\ store \in [Instants -> Entry]
        /\ f.run \in 0..MaxRuns
    BY <1>1, Current DEF Equipped
  <1>3. Snapshot = Shot(store)
    BY DEF Snapshot, Shot
  <1>4. /\ Snapshot \in Readings /\ DOMAIN Snapshot = Instants
    BY <1>2, <1>3, ShotReads
  <1>5. gaps \in SUBSET InPeriod
    BY DEF Missing, OnGrid
  <1>6. b \in Readings /\ DOMAIN b = gaps /\ \A t \in DOMAIN b : b[t] \in Row
    <2>1. \A t \in gaps : b[t] \in Row
      BY <1>2 DEF Row
    <2>2. b \in [gaps -> Entry]
      BY <2>1 DEF Entry
    <2> HIDE DEF gaps
    <2> QED BY <1>5, <2>1, <2>2, InPeriodIs, Readable
  <1> HIDE DEF f, b, gaps
  <1>7. CASE g = fail
    <2>1. /\ g \in JobState /\ Equipped(g) /\ g.conf = f.conf /\ g.pc = "failed"
      BY <1>1, <1>2, <1>7, FailedState DEF f
    <2>2. Undisturbed(g, store)
      BY <1>2, <2>1 DEF Undisturbed, GradesAhead
    <2> HIDE DEF g
    <2> QED BY <1>1, <2>1, <2>2, Current, QuietRun
  <1>8. CASE g = read
    <2>1. g \in JobState
      BY <1>2, <1>4, <1>8 DEF JobState, Steps
    <2>2. /\ g.conf = f.conf /\ g.pc = "grade" /\ g.todo = f.todo /\ g.seen = Snapshot
      BY <1>2, <1>8 DEF JobState
    <2> HIDE DEF g
    <2>3. Equipped(g)
      BY <1>2, <1>4, <2>2 DEF Equipped
    <2>4. Undisturbed(g, store)
      BY <1>2, <1>3, <2>2 DEF Undisturbed, GradesAhead
    <2> QED BY <1>1, <2>1, <2>3, <2>4, Current, QuietRun
  <1>9. CASE gaps # {} /\ g = [read EXCEPT !.pc = "send", !.batch = b]
    <2>1. g \in JobState
      BY <1>2, <1>4, <1>6, <1>9 DEF JobState, Steps
    <2>2. /\ g.conf = f.conf /\ g.pc = "send" /\ g.todo = f.todo /\ g.seen = Snapshot
          /\ g.batch = b
      BY <1>2, <1>9 DEF JobState
    <2> HIDE DEF g
    <2>3. Equipped(g)
      BY <1>2, <1>4, <1>5, <1>6, <1>9, <2>2 DEF Equipped, Sendable
    <2>4. Undisturbed(g, store)
      BY <1>2, <1>3, <2>2 DEF Undisturbed, GradesAhead
    <2> QED BY <1>1, <2>1, <2>3, <2>4, Current, QuietRun
  <1> QED BY <1>7, <1>8, <1>9

LEMMA RereadKeeps ==
    ASSUME JobInv, NEW j \in Job, Reread(j)
    PROVE  JobInv'
  <1> DEFINE f == job[j]
             seen == [t \in Instants |-> IF t \in InPeriod THEN store[t] ELSE f.seen[t]]
             g == [f EXCEPT !.seen = seen, !.pc = "grade"]
  <1>1. f.pc = "reread" /\ Advance(j, g) /\ store' = store /\ runs' = runs
    BY DEF Reread
  <1>2. /\ f \in JobState /\ Equipped(f) /\ f.conf.kind = "qc" /\ f.todo # << >>
        /\ f.todo \in Seq(SUBSET Instants) /\ store \in [Instants -> Entry]
        /\ f.seen \in Readings /\ DOMAIN f.seen = Instants /\ Undisturbed(f, store)
    BY <1>1, Current DEF Equipped
  <1>3. seen \in Readings /\ DOMAIN seen = Instants
    <2>1. seen \in [Instants -> Entry]
      BY <1>2, Reads
    <2> QED BY <2>1, Readable
  <1>4. f.alone => seen = Shot(store)
    <2> HAVE f.alone
    <2>1. \A t \in Instants \ InPeriod : f.seen[t] = Shot(store)[t]
      BY <1>1, <1>2 DEF Undisturbed, GradesAhead
    <2>2. \A t \in Instants : seen[t] = Shot(store)[t]
      BY <1>2, <2>1, ShotReads
    <2>3. Shot(store) \in [Instants -> Entry]
      BY <1>2, ShotReads
    <2> QED BY <2>2, <2>3
  <1> HIDE DEF seen, f
  <1>5. g \in JobState
    BY <1>2, <1>3 DEF JobState, Steps
  <1>6. /\ g.conf = f.conf /\ g.pc = "grade" /\ g.todo = f.todo /\ g.seen = seen
        /\ g.alone = f.alone
    BY <1>2 DEF JobState
  <1> HIDE DEF g
  <1>7. Equipped(g)
    BY <1>2, <1>3, <1>6 DEF Equipped
  <1>8. Undisturbed(g, store)
    BY <1>2, <1>4, <1>6 DEF Undisturbed, GradesAhead
  <1> QED BY <1>1, <1>5, <1>7, <1>8, Current, QuietRun

LEMMA QualityIs ==
    ASSUME NEW s, NEW t PROVE Quality(s, t) \in {0, 3, 15}
  BY DEF Quality

LEMMA GradeKeeps ==
    ASSUME JobInv, NEW j \in Job, Grade(j)
    PROVE  JobInv'
  <1> DEFINE f == job[j]
             b == [t \in Regraded(f.seen) |-> [f.seen[t] EXCEPT !.q = Quality(f.seen, t)]]
             g == With(f, b, "mark")
  <1>1. f.pc = "grade" /\ Advance(j, g) /\ store' = store /\ runs' = runs
    BY DEF Grade
  <1>2. /\ f \in JobState /\ Equipped(f) /\ f.conf.kind = "qc" /\ f.todo # << >>
        /\ f.todo \in Seq(SUBSET Instants)
        /\ f.seen \in Readings /\ DOMAIN f.seen = Instants /\ Undisturbed(f, store)
    BY <1>1, Current DEF Equipped
  <1> HIDE DEF f
  <1>3. Regraded(f.seen) \in SUBSET Instants /\ DOMAIN b = Regraded(f.seen)
    BY DEF Regraded, Rows
  <1>4. ASSUME NEW t \in Regraded(f.seen) PROVE b[t] \in Row /\ b[t].q = Quality(f.seen, t)
    <2>1. f.seen[t] \in Row
      BY <1>2, <1>4, Reads DEF Regraded, Rows, Entry
    <2>2. b[t] = [f.seen[t] EXCEPT !.q = Quality(f.seen, t)]
      OBVIOUS
    <2> QED BY <2>1, <2>2, QualityIs DEF Row
  <1>5. b \in Readings /\ \A t \in DOMAIN b : b[t] \in Row
    <2>1. b \in [Regraded(f.seen) -> Entry]
      BY <1>4 DEF Entry
    <2> QED BY <1>3, <1>4, <2>1, Readable
  <1> HIDE DEF b
  <1>6. /\ g \in JobState /\ Equipped(g) /\ g.conf = f.conf /\ g.alone = f.alone
        /\ DOMAIN b = {} => g = Following(f)
        /\ DOMAIN b # {} => g.todo = f.todo /\ g.batch = b /\ g.pc = "mark"
    BY <1>2, <1>5, WithState
  <1>7. ASSUME f.alone PROVE GradesAhead(g, store)
    <2>1. f.seen = Shot(store)
      BY <1>1, <1>2, <1>7 DEF Undisturbed, GradesAhead, f
    <2>2. CASE DOMAIN b # {}
      BY <1>3, <1>4, <1>6, <2>1, <2>2 DEF GradesAhead
    <2>3. CASE DOMAIN b = {}
      <3>1. g.pc \in {"done", "read"}
        BY <1>2, <1>6, <2>3, FollowingState DEF FirstStep
      <3> QED BY <1>3, <2>1, <2>3, <3>1 DEF GradesAhead
    <2> QED BY <2>2, <2>3
  <1>8. Undisturbed(g, store)
    BY <1>2, <1>6, <1>7 DEF Undisturbed
  <1> QED BY <1>1, <1>6, <1>8, Current, QuietRun


\* The rows s, once the one at t has the grade q.
Marked(s, t, q) == [s EXCEPT ![t].q = q]

\* A grade changes neither the rows that are read nor the grades of others.
LEMMA SameGrades ==
    ASSUME NEW s \in [Instants -> Entry], NEW t \in Instants, s[t] \in Row,
           NEW q \in {0, 3, 15, 100}, NEW u, u = Marked(s, t, q)
    PROVE  /\ u \in [Instants -> Entry] /\ u[t] \in Row /\ u[t].q = q
           /\ \A x \in Instants : x # t => u[x] = s[x] /\ Shot(u)[x] = Shot(s)[x]
           /\ Rows(Shot(u)) = Rows(Shot(s))
           /\ \A x \in Instants : Quality(Shot(u), x) = Quality(Shot(s), x)
  <1>1. /\ u[t] = [s[t] EXCEPT !.q = q] /\ u[t] \in Row /\ u[t].q = q
        /\ u[t].data = s[t].data
    BY DEF Row, Marked
  <1>2. \A x \in Instants : x # t => u[x] = s[x]
    BY DEF Marked
  <1>3. u \in [Instants -> Entry]
    <2>1. u = [x \in Instants |-> u[x]] /\ \A x \in Instants : u[x] \in Entry
      BY <1>1, <1>2 DEF Entry, Marked
    <2> QED BY <2>1
  <1>4. Rows(u) = Rows(s)
    BY <1>1, <1>2, ReadingAssumption DEF Rows
  <1>5. ReadRows(u) = ReadRows(s)
    BY <1>4 DEF ReadRows
  <1>6. \A x \in Instants : x # t => Shot(u)[x] = Shot(s)[x]
    BY <1>2, <1>5 DEF Shot
  <1>7. Rows(Shot(u)) = Rows(Shot(s))
    BY <1>1, <1>2, <1>5, ReadingAssumption DEF Shot, Rows
  <1>8. \A x \in Instants : Shot(u)[x].data = Shot(s)[x].data
    BY <1>1, <1>2, <1>5 DEF Shot
  <1>9. ASSUME NEW x \in Instants PROVE Quality(Shot(u), x) = Quality(Shot(s), x)
    <2>1. \A y : Earlier(Shot(u), y) = Earlier(Shot(s), y)
      BY <1>7 DEF Earlier
    <2>2. Buffer(Shot(u), x) = Buffer(Shot(s), x)
      BY <2>1 DEF Buffer
    <2>3. {v \in Rows(Shot(u)) : Shot(u)[v].data /\ v > x - BufferWindow /\ v <= x}
            = {v \in Rows(Shot(s)) : Shot(s)[v].data /\ v > x - BufferWindow /\ v <= x}
      <3>1. Rows(Shot(s)) \in SUBSET Instants
        BY DEF Rows
      <3> QED BY <1>7, <1>8, <3>1
    <2>4. Shot(u)[x].data = Shot(s)[x].data
      BY <1>8
    <2> QED BY <2>2, <2>3, <2>4 DEF Quality
  <1> QED BY <1>1, <1>2, <1>3, <1>6, <1>7, <1>9

LEMMA MarkKeeps ==
    ASSUME JobInv, NEW j \in Job, Mark(j)
    PROVE  JobInv'
  <1> DEFINE f == job[j]
             t == LeastIn(DOMAIN f.batch)
             rest == [u \in DOMAIN f.batch \ {t} |-> f.batch[u]]
  <1>1. /\ f.pc = "mark" /\ f \in JobState /\ Equipped(f) /\ f.conf.kind = "qc"
        /\ f.todo # << >> /\ f.todo \in Seq(SUBSET Instants) /\ DOMAIN f.seen = Instants
        /\ Sendable(f) /\ f.batch \in Readings /\ store \in [Instants -> Entry]
        /\ Undisturbed(f, store)
    BY Current DEF Mark, Equipped
  <1>2. /\ t \in DOMAIN f.batch /\ t \in Instants /\ f.batch[t] \in Row
        /\ rest \in Readings /\ DOMAIN rest = DOMAIN f.batch \ {t}
        /\ \A u \in DOMAIN rest : rest[u] \in Row /\ rest[u] = f.batch[u]
    BY <1>1, RestOf DEF Sendable
  <1>3. CASE ~StillThere(f, t)
    <2> DEFINE g == [f EXCEPT !.pc = "failed"]
    <2>1. Advance(j, g) /\ store' = store /\ runs' = runs
      BY <1>3 DEF Mark
    <2>2. g \in JobState /\ Equipped(g) /\ g.conf = f.conf /\ g.pc = "failed"
      BY <1>1, FailedState
    <2>3. Undisturbed(g, store)
      BY <1>1, <2>2 DEF Undisturbed, GradesAhead
    <2> QED BY <2>1, <2>2, <2>3, Current, QuietRun
  <1>4. CASE StillThere(f, t)
    <2> DEFINE g == With(f, rest, "mark")
    <2>1. /\ store' = [store EXCEPT ![t].q = f.batch[t].q]
          /\ Written(j, g) /\ runs' = runs
      BY <1>4 DEF Mark
    <2>2. store[t] \in Row /\ f.batch[t].q \in {0, 3, 15, 100}
      BY <1>1, <1>2, <1>4 DEF StillThere, Held, Entry, Row
    <2>3. /\ store' \in [Instants -> Entry] /\ store'[t].q = f.batch[t].q
          /\ \A x \in Instants : x # t => Shot(store')[x] = Shot(store)[x]
          /\ Rows(Shot(store')) = Rows(Shot(store))
          /\ \A x \in Instants : Quality(Shot(store'), x) = Quality(Shot(store), x)
      <3> DEFINE q == f.batch[t].q
                 u == store'
      <3>1. u = Marked(store, t, q) /\ q \in {0, 3, 15, 100} /\ store[t] \in Row
            /\ t \in Instants /\ store \in [Instants -> Entry]
        BY <1>1, <1>2, <2>1, <2>2 DEF Marked
      <3> HIDE DEF f, t, q, u
      <3>2. /\ u \in [Instants -> Entry] /\ u[t].q = q
            /\ \A x \in Instants : x # t => Shot(u)[x] = Shot(store)[x]
            /\ Rows(Shot(u)) = Rows(Shot(store))
            /\ \A x \in Instants : Quality(Shot(u), x) = Quality(Shot(store), x)
        BY <3>1, SameGrades
      <3> QED BY <3>2 DEF q, u
    <2> HIDE DEF f, rest, t
    <2>4. /\ g \in JobState /\ Equipped(g) /\ g.conf = f.conf /\ g.alone = f.alone
          /\ DOMAIN rest = {} => g = Following(f)
          /\ DOMAIN rest # {} => g.todo = f.todo /\ g.batch = rest /\ g.pc = "mark"
      <3>1. /\ f \in JobState /\ f.todo # << >> /\ f.todo \in Seq(SUBSET Instants)
            /\ f.conf.kind = "qc" /\ DOMAIN f.seen = Instants
            /\ rest \in Readings /\ \A u \in DOMAIN rest : rest[u] \in Row
        BY <1>1, <1>2
      <3> QED BY <3>1, WithState
    <2>5. ASSUME f.alone PROVE GradesAhead(g, store')
      <3>1. /\ Regraded(Shot(store)) \subseteq DOMAIN f.batch
            /\ \A x \in DOMAIN f.batch : f.batch[x].q = Quality(Shot(store), x)
        BY <1>1, <2>5 DEF Undisturbed, GradesAhead
      <3>2. ASSUME NEW x \in Regraded(Shot(store')) PROVE x \in DOMAIN rest
        <4>1. x \in InPeriod /\ x \in Instants /\ x \in Rows(Shot(store))
          BY <2>3 DEF Regraded, Rows
        <4>2. x # t
          <5>1. Shot(store')[t].q = Quality(Shot(store'), t) \/ t \notin InPeriod
            BY <1>2, <2>3, <3>1, ShotReads
          <5> QED BY <4>1, <5>1 DEF Regraded
        <4>3. x \in Regraded(Shot(store))
          BY <2>3, <4>1, <4>2 DEF Regraded
        <4> QED BY <1>2, <3>1, <4>2, <4>3
      <3>3. \A x \in DOMAIN rest : rest[x].q = Quality(Shot(store'), x)
        BY <1>1, <1>2, <2>3, <3>1, Reads
      <3>4. CASE DOMAIN rest # {}
        BY <2>4, <3>2, <3>3, <3>4 DEF GradesAhead
      <3>5. CASE DOMAIN rest = {}
        <4>1. g.pc \in {"done", "read"}
          BY <1>1, <2>4, <3>5, FollowingState DEF FirstStep
        <4> QED BY <3>2, <3>5, <4>1 DEF GradesAhead
      <3> QED BY <3>4, <3>5
    <2>6. Undisturbed(g, store')
      BY <1>1, <2>4, <2>5 DEF Undisturbed
    <2> QED BY <2>1, <2>3, <2>4, <2>6, WritingRun
  <1> QED BY <1>3, <1>4

-----------------------------------------------------------------------------
(* Import jobs: the theorems.                                              *)

LEMMA ReadyState ==
    ASSUME NEW c \in Conf
    PROVE  LET g == Ready(c) IN g \in JobState /\ Equipped(g) /\ ~g.alone
  BY NoneReads, JobAssumption DEF Ready, JobState, Equipped, Steps

LEMMA RerunKeeps ==
    ASSUME JobInv, NEW j \in Job, Rerun(j)
    PROVE  JobInv'
  <1> DEFINE g == Ready(job[j].conf)
  <1>1. Advance(j, g) /\ store' = store /\ runs' = runs
    BY DEF Rerun
  <1>2. g \in JobState /\ Equipped(g) /\ ~g.alone
    BY Current, ReadyState
  <1> HIDE DEF g
  <1> QED BY <1>1, <1>2, Current, QuietRun DEF Undisturbed

LEMMA SensorKeeps ==
    ASSUME JobInv, NEW t \in Instants, SensorPost(t)
    PROVE  JobInv'
  <1>1. store' \in [Instants -> Entry]
    BY JobAssumption DEF JobInv, ImportTypes, SensorPost, Entry, Row, Measured
  <1>2. ASSUME NEW k \in Job
        PROVE  job'[k] \in JobState /\ Equipped(job'[k]) /\ Undisturbed(job'[k], store')
    <2>1. job[k] \in JobState /\ Equipped(job[k]) /\ Undisturbed(job[k], store)
      BY DEF JobInv, ImportTypes
    <2>2. CASE job[k].pc = "ready"
      <3>1. job'[k] = job[k]
        BY <2>2 DEF SensorPost
      <3> QED BY <2>1, <2>2, <3>1 DEF Undisturbed, CopyAhead, GradesAhead
    <2>3. CASE job[k].pc # "ready"
      <3>1. job'[k] = [job[k] EXCEPT !.alone = FALSE]
        BY <2>3 DEF SensorPost
      <3>2. job'[k] \in JobState /\ ~job'[k].alone
        BY <2>1, <3>1 DEF JobState
      <3>3. Equipped(job'[k])
        BY <2>1, <3>1 DEF JobState, Equipped, Sendable
      <3> QED BY <3>2, <3>3 DEF Undisturbed
    <2> QED BY <2>2, <2>3
  <1>3. job' \in [Job -> JobState]
    BY <1>2 DEF SensorPost
  <1>4. runs' = runs
    BY DEF SensorPost
  <1> QED BY <1>1, <1>2, <1>3, <1>4 DEF JobInv, ImportTypes

LEMMA JobStep == JobInv /\ [ImportNext]_importVars => JobInv'
  <1> SUFFICES ASSUME JobInv, [ImportNext]_importVars PROVE JobInv'
    OBVIOUS
  <1>1. ASSUME NEW j \in Job, StartJob(j) \/ Check(j) \/ Fetch(j) \/ NextChunk(j) \/ Send(j)
        PROVE  JobInv'
    BY <1>1, StartKeeps, CheckKeeps, FetchKeeps, ChunkKeeps, SendKeeps
  <1>2. ASSUME NEW j \in Job, Lookup(j) \/ Replace(j) \/ ReadSource(j) \/ Reread(j) \/ Grade(j)
        PROVE  JobInv'
    BY <1>2, LookupKeeps, ReplaceKeeps, ReadKeeps, RereadKeeps, GradeKeeps
  <1>3. ASSUME NEW j \in Job, Mark(j) \/ Rerun(j) PROVE JobInv'
    BY <1>3, MarkKeeps, RerunKeeps
  <1>4. ASSUME NEW t \in Instants, SensorPost(t) PROVE JobInv'
    BY <1>4, SensorKeeps
  <1>5. CASE UNCHANGED importVars
    BY <1>5 DEF importVars, JobInv, ImportTypes
  <1> QED BY <1>1, <1>2, <1>3, <1>4, <1>5 DEF ImportNext

LEMMA JobInit == ImportInit => JobInv
  <1> SUFFICES ASSUME ImportInit PROVE JobInv
    OBVIOUS
  <1>1. store \in [Instants -> Entry]
    BY JobAssumption DEF ImportInit, Entry, Row, Measured
  <1>2. ASSUME NEW j \in Job
        PROVE  job[j] \in JobState /\ Equipped(job[j]) /\ Undisturbed(job[j], store)
    <2>1. PICK c \in Conf : job[j] = Ready(c)
      BY DEF ImportInit
    <2> QED BY <2>1, ReadyState DEF Undisturbed
  <1>3. job \in [Job -> JobState]
    BY <1>2 DEF ImportInit
  <1>4. runs \in 0..MaxRuns
    BY JobAssumption DEF ImportInit
  <1> QED BY <1>1, <1>2, <1>3, <1>4 DEF JobInv, ImportTypes

\* In every reachable state a run is at a request of its kind of job and has what that
\* request needs; an undisturbed one has ahead of it all that its end promises
\* (src/utils/jobs).
THEOREM JobInvariance == ImportSpec => []JobInv
  BY JobInit, JobStep, PTL DEF ImportSpec

\* The variables of ImportJobs keep their types.
THEOREM ImportJobTypes == ImportSpec => []ImportTypeOK
  <1>1. JobInv => ImportTypeOK
    <2> SUFFICES ASSUME JobInv PROVE ImportTypeOK
      OBVIOUS
    <2>1. \A t \in Instants : Held(t) => store[t] \in Row
      BY DEF JobInv, ImportTypes, Held, Entry
    <2>2. ASSUME NEW j \in Job
          PROVE  /\ job[j].pc \in Steps
                 /\ job[j].pc \in {"mark", "replace"} =>
                      LeastIn(DOMAIN job[j].batch) \in DOMAIN job[j].seen
                 /\ job[j].pc \in {"mark", "send", "lookup", "replace"} =>
                      DOMAIN job[j].batch # {}
      <3>1. job[j] \in JobState /\ Equipped(job[j]) /\ DOMAIN job[j].batch \in SUBSET Instants
        BY Current, Reads
      <3> QED BY <3>1, Leasts DEF JobState, Equipped, Sendable
    <2> QED BY <2>1, <2>2 DEF ImportTypeOK, Steps
  <1> QED BY <1>1, JobInvariance, PTL

\* A copy and a quality control that nobody disturbs do all their work, however often they
\* were killed before: the copy that ends has every Observation but the no-data ones it
\* drops, and meets a 409 only over an interval that ends past midnight; the quality
\* control leaves nothing to patch.
THEOREM UndisturbedComplete == ImportSpec => []AloneComplete
  <1>1. JobInv => AloneComplete
    <2> SUFFICES ASSUME JobInv, NEW j \in Job, job[j].alone
                 PROVE  /\ job[j].conf.kind = "copy" => CopyCompletes(job[j])
                        /\ job[j].conf.kind = "qc" => GradesSettled(job[j])
      BY DEF AloneComplete
    <2>1. Equipped(job[j]) /\ Undisturbed(job[j], store)
      BY Current
    <2>2. Snapshot = Shot(store)
      BY DEF Snapshot, Shot
    <2>3. ASSUME job[j].conf.kind = "copy" PROVE CopyCompletes(job[j])
      <3>1. CopyAhead(job[j], store)
        BY <2>1, <2>3 DEF Undisturbed
      <3>2. job[j].pc = "done" => DOMAIN job[j].todo = {}
        BY <2>1 DEF Equipped
      <3> QED BY <3>1, <3>2 DEF CopyAhead, CopyCompletes, Held
    <2>4. ASSUME job[j].conf.kind = "qc" PROVE GradesSettled(job[j])
      BY <2>1, <2>2, <2>4 DEF Undisturbed, GradesAhead, GradesSettled
    <2> QED BY <2>3, <2>4
  <1> QED BY <1>1, JobInvariance, PTL


\* What a step leaves of the measurement at t: but for a forced sheet and an override, all
\* but its grade.
Spared(t) ==
    \/ store'[t] # NoReading /\ store'[t] = [store[t] EXCEPT !.q = store'[t].q]
    \/ \E j \in Job : /\ Forced(job[j].conf) \/ job[j].conf.override
                      /\ job'[j] # job[j]

LEMMA UnchangedSpares ==
    ASSUME JobInv, NEW t \in Instants, Held(t), store'[t] = store[t]
    PROVE  Spared(t)
  <1>1. store[t] \in Row
    BY DEF JobInv, ImportTypes, Entry, Held
  <1>2. store[t] = [store[t] EXCEPT !.q = store[t].q]
    BY <1>1 DEF Row
  <1> QED BY <1>1, <1>2, ReadingAssumption DEF Spared

LEMMA SendSpares ==
    ASSUME JobInv, NEW t \in Instants, Held(t), NEW j \in Job, Send(j)
    PROVE  Spared(t)
  <1> DEFINE f == job[j]
             cleared == Cleared(Forced(f.conf), f.batch)
  <1>1. /\ f.pc = "send" /\ f \in JobState /\ f.todo # << >> /\ store \in [Instants -> Entry]
        /\ f.conf.kind # "istsos2" => f.todo \in Seq(SUBSET Instants)
        /\ job \in [Job -> JobState]
    BY Current DEF Send, Equipped, JobInv, ImportTypes
  <1>2. CASE \E x \in DOMAIN f.batch : Held(x) /\ x \notin cleared
    <2>1. store' = store
      BY <1>2 DEF Send
    <2> QED BY <2>1, UnchangedSpares
  <1>3. CASE ~(\E x \in DOMAIN f.batch : Held(x) /\ x \notin cleared)
    <2>1. /\ store' = [x \in Instants |->
                          IF x \in DOMAIN f.batch THEN f.batch[x]
                          ELSE IF x \in cleared THEN NoReading ELSE store[x]]
          /\ Written(j, AfterSend(f))
      BY <1>3 DEF Send
    <2>2. CASE ~Forced(f.conf)
      <3>1. cleared = {}
        BY <2>2 DEF Cleared
      <3>2. store'[t] = store[t]
        BY <1>3, <2>1, <3>1
      <3> QED BY <3>2, UnchangedSpares
    <2>3. CASE Forced(f.conf)
      <3>1. f.conf.kind = "sheet" /\ job'[j] = Following(f)
        BY <2>1, <2>3 DEF Forced, AfterSend, Written
      <3>2. Following(f).pc \in {"done", "chunk"}
        <4> HIDE DEF f
        <4> QED BY <1>1, <3>1, FollowingState DEF FirstStep
      <3>3. job'[j] # job[j]
        BY <1>1, <3>1, <3>2
      <3> QED BY <2>3, <3>3 DEF Spared
    <2> QED BY <2>2, <2>3
  <1> QED BY <1>2, <1>3

LEMMA ReplaceSpares ==
    ASSUME JobInv, NEW t \in Instants, Held(t), NEW j \in Job, Replace(j)
    PROVE  Spared(t)
  <1> DEFINE f == job[j]
             u == LeastIn(DOMAIN f.batch)
             rest == [x \in DOMAIN f.batch \ {u} |-> f.batch[x]]
  <1>1. /\ f.pc = "replace" /\ f \in JobState /\ f.conf.override /\ f.conf.kind = "istsos2"
        /\ f.todo # << >> /\ Sendable(f) /\ f.batch \in Readings
    BY Current DEF Replace, Equipped
  <1>2. CASE ~StillThere(f, u)
    <2>1. store' = store
      BY <1>2 DEF Replace
    <2> QED BY <2>1, UnchangedSpares
  <1>3. CASE StillThere(f, u)
    <2> DEFINE h == [f EXCEPT !.seen = None]
               g == With(h, rest, "lookup")
    <2>1. job'[j] = g
      BY <1>3 DEF Replace, Written
    <2>2. rest \in Readings /\ \A x \in DOMAIN rest : rest[x] \in Row
      BY <1>1, RestOf DEF Sendable
    <2>3. h \in JobState /\ h.conf = f.conf /\ h.todo = f.todo
      BY <1>1, NoneReads DEF JobState
    <2>4. g.pc \in {"lookup", "done", "fetch"}
      <3> HIDE DEF h, rest, f
      <3>1. /\ DOMAIN rest = {} => g = Following(h)
            /\ DOMAIN rest # {} => g.pc = "lookup"
        BY <1>1, <2>2, <2>3, WithState
      <3>2. Following(h).pc \in {"done", "fetch"}
        BY <1>1, <2>3, FollowingState DEF FirstStep
      <3> QED BY <3>1, <3>2
    <2>5. job'[j] # job[j]
      BY <1>1, <2>1, <2>4
    <2> QED BY <1>1, <2>5 DEF Spared
  <1> QED BY <1>2, <1>3

LEMMA MarkSpares ==
    ASSUME JobInv, NEW t \in Instants, Held(t), NEW j \in Job, Mark(j)
    PROVE  Spared(t)
  <1> DEFINE f == job[j]
             u == LeastIn(DOMAIN f.batch)
             q == f.batch[u].q
  <1>1. store \in [Instants -> Entry] /\ store[t] \in Row
    BY DEF JobInv, ImportTypes, Entry, Held
  <1>2. CASE store'[t] = store[t]
    BY <1>2, UnchangedSpares
  <1>3. CASE store'[t] # store[t]
    <2>1. q \in {0, 3, 15, 100}
      <3>1. Sendable(f) /\ f.batch \in Readings
        BY Current DEF Mark, Equipped
      <3>2. f.batch[u] \in Row
        BY <3>1, RestOf DEF Sendable
      <3> QED BY <3>2 DEF Row
    <2>2. store' = [store EXCEPT ![u].q = q]
      BY <1>3 DEF Mark
    <2>3. t = u
      BY <1>1, <1>3, <2>2
    <2> HIDE DEF u, q
    <2>4. store'[t] = [store[t] EXCEPT !.q = q]
      BY <1>1, <2>2, <2>3
    <2>5. store'[t] \in Row /\ store'[t].q = q
      BY <1>1, <2>1, <2>4 DEF Row
    <2> QED BY <2>4, <2>5, ReadingAssumption DEF Spared
  <1> QED BY <1>2, <1>3

\* Only a forced sheet or an override replaces what someone else measured, at most its
\* grade changes otherwise: a gap that a sensor fills after fill_missing read it keeps the
\* measurement (bulk_observations, patch by id).
THEOREM MeasurementsStay == ImportSpec => MeasurementsKept
  <1> DEFINE Stay == \A t \in Instants :
               (Held(t) /\ store[t].data) =>
                  \/ /\ store'[t] # NoReading
                     /\ store'[t] = [store[t] EXCEPT !.q = store'[t].q]
                  \/ \E j \in Job : /\ Forced(job[j].conf) \/ job[j].conf.override
                                    /\ job'[j] # job[j]
  <1>1. ASSUME JobInv, [ImportNext]_importVars PROVE [Stay]_importVars
    <2> SUFFICES ASSUME NEW t \in Instants, Held(t) PROVE Spared(t)
      BY DEF Spared
    <2>1. CASE store' = store
      BY <1>1, <2>1, UnchangedSpares
    <2>2. ASSUME NEW j \in Job, Send(j) \/ Replace(j) \/ Mark(j) PROVE Spared(t)
      BY <1>1, <2>2, SendSpares, ReplaceSpares, MarkSpares
    <2>3. ASSUME NEW x \in Instants, SensorPost(x) PROVE Spared(t)
      <3>1. store'[t] = store[t]
        BY <2>3 DEF SensorPost
      <3> QED BY <1>1, <3>1, UnchangedSpares
    <2>4. CASE UNCHANGED importVars
      BY <2>1, <2>4 DEF importVars
    <2>5. ASSUME NEW j \in Job,
                 \/ StartJob(j) \/ Check(j) \/ Fetch(j) \/ NextChunk(j) \/ Lookup(j)
                 \/ ReadSource(j) \/ Reread(j) \/ Grade(j) \/ Rerun(j)
          PROVE  Spared(t)
      BY <2>1, <2>5 DEF StartJob, Check, Fetch, NextChunk, Lookup, ReadSource, Reread, Grade, Rerun
    <2> QED BY <1>1, <2>2, <2>3, <2>4, <2>5 DEF ImportNext
  <1>2. JobInv /\ [ImportNext]_importVars => [Stay]_importVars
    BY <1>1
  <1> HIDE DEF Stay
  <1>3. ImportSpec => [][Stay]_importVars
    BY <1>2, JobInvariance, PTL DEF ImportSpec
  <1> QED BY <1>3 DEF MeasurementsKept, Stay
=============================================================================
