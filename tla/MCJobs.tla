------------------------------ MODULE MCJobs --------------------------------
(* The components around scheduled jobs, side by side: "part" says whose   *)
(* steps a behaviour takes, the others rest.                               *)
EXTENDS Aggregation, Buckets, JobRegistry, ImportJobs, TLC

\* Writers, FeaturesOfInterest, requests and import jobs share their model values, each
\* of which one component only compares for equality.
Symmetry == Permutations(Writer)

(* Buckets: the configurations of a job.                                   *)
Plain == [rightClosed |-> TRUE, function |-> "AVG", minObs |-> Null, maxMissing |-> Null,
         allowed |-> Null, least |-> Null, most |-> Null, age |-> Null, zero |-> FALSE,
         emptyQuality |-> 1, foi |-> Null, incremental |-> TRUE]

MCReading == {[number |-> 1, quality |-> 2], [number |-> Null, quality |-> Null]}
MCJobConfig ==
    {[Plain EXCEPT !.rightClosed = FALSE, !.maxMissing = 1],
     [Plain EXCEPT !.zero = TRUE, !.age = 25, !.function = "COUNT", !.least = 1]}
MCWindows == {{0, 1}}

(* JobRegistry: what the POSTs carry.                                    *)
PayloadOf(s, t, av, age, pol) == [procedure |-> "10min", source |-> s, target |-> t, availability |-> av, age |-> age, policy |-> pol, enabled |-> TRUE]
MCPayload == { PayloadOf("x", "y", {}, "absent", "missing"),
         PayloadOf("x", "x", {}, "absent", "missing"),
         PayloadOf("x", "y", {"y"}, "positive", "missing"),
         PayloadOf("x", "y", {"z"}, "positive", "zero_when_available"),
         PayloadOf("x", "y", {"z"}, "zero", "missing"),
         PayloadOf("x", "y", {}, "positive", "zero_when_available") }

(* ImportJobs: a configuration of each kind of job.                         *)
\* The intervals start on the first day, and one ends with the first instant of the next.
NoOption == [kind |-> "copy", drop |-> FALSE, bin |-> FALSE, override |-> FALSE, force |-> FALSE, fill |-> FALSE,
             until |-> [t \in 0 .. Horizon |-> t]]
MCConf == {[NoOption EXCEPT !.drop = TRUE],
          [NoOption EXCEPT !.until = [@ EXCEPT ![1] = 2, ![2] = 3]],
          [NoOption EXCEPT !.kind = "istsos2", !.drop = TRUE],
          [NoOption EXCEPT !.kind = "istsos2", !.bin = TRUE, !.override = TRUE],
          [NoOption EXCEPT !.kind = "sheet", !.force = TRUE],
          [NoOption EXCEPT !.kind = "qc", !.fill = TRUE]}
MCPeriod == [from |-> 2, to |-> 5]

VARIABLE part

JobsVars == <<part, vars, bucketVars, registryVars, importVars>>

\* The initial state of a component whose turn it is not.
JobsInit ==
    /\ part \in {"aggregation", "buckets", "registry", "import"}
    /\ Init
    /\ BucketInit /\ (part # "buckets" => config = CHOOSE c \in JobConfig : TRUE)
    /\ RegistryInit
    /\ ImportInit /\ (part # "import" => Held(0) /\ (\A j \in Job : job[j].conf = CHOOSE c \in Conf : TRUE))

JobsNext ==
    /\ UNCHANGED part
    /\ \/ part = "aggregation" /\ Next
          /\ UNCHANGED <<bucketVars, registryVars, importVars>>
       \/ part = "buckets" /\ BucketNext
          /\ UNCHANGED <<vars, registryVars, importVars>>
       \/ part = "registry" /\ RegistryNext
          /\ UNCHANGED <<vars, bucketVars, importVars>>
       \/ part = "import" /\ ImportNext
          /\ UNCHANGED <<vars, bucketVars, registryVars>>

\* The variables of every component keep their types; a row that a run writes has a
\* number of the source, or the one that stands for none, and a quality that is known.
JobsTypeOK == TypeOK /\ BucketTypeOK /\ RegistryTypeOK /\ ImportTypeOK

JobsSpec == JobsInit /\ [][JobsNext]_JobsVars
=============================================================================
