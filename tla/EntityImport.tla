---------------------------- MODULE EntityImport ----------------------------
(***************************************************************************)
(* The two jobs that create entities as they import:                       *)
(*   eyeonwater2istsos/eyeonwater2istsos.py  per citizen observation a     *)
(*       Party, a Sensor, a FeatureOfInterest, per water parameter a       *)
(*       Datastream with its ObservedProperty nested, then the Observation;*)
(*   xlsx2istsos/xlsx2istsos.py  per row of the sheet a Location, a Thing, *)
(*       a Sensor, the ObservedProperties, the Networks and a Datastream.  *)
(*                                                                         *)
(* Both go through their own get_or_create: look by name, POST when there  *)
(* is none.  Look and POST are two requests, so another run (cron starts   *)
(* one a day, an operator another) may come in between; a run may be       *)
(* killed at any request and started again.                                *)
(***************************************************************************)
EXTENDS Integers, Sequences, FiniteSets

CONSTANTS
    Run,          \* runs of the jobs
    EyeOnWater,   \* the runs of eyeonwater2istsos, the others are xlsx2istsos
    Wanted,       \* for each run, what it goes through in order
    Standing,     \* the <<kind, name>> of the entities there at first
    UniqueNames,  \* DUPLICATES=0
    MaxStarts     \* bound: starts of all runs together

(* An entry of Wanted is an entity to look for and create, with what its   *)
(* payload nests, for an item (an observation or a row of the sheet).  An  *)
(* Observation is named by its Datastream and its time and is only POSTed. *)
Entity == STRING \X STRING
Entry == [kind : STRING, name : STRING, nested : SUBSET Entity, item : Nat]

(* datastream_payload: a water parameter has a Datastream and an           *)
(* ObservedProperty, nested, of its own.                                   *)
NestedOnce ==
    \A r, s \in EyeOnWater : \A i \in DOMAIN Wanted[r], j \in DOMAIN Wanted[s] :
       LET v == Wanted[r][i]
           w == Wanted[s][j] IN
       v.nested \cap ({<<w.kind, w.name>>} \cup w.nested) # {}
          => v.kind = w.kind /\ v.name = w.name

ASSUME ImportAssumption ==
    /\ EyeOnWater \subseteq Run /\ "was" \notin EyeOnWater
    /\ UniqueNames \in BOOLEAN
    /\ Wanted \in [Run -> Seq(Entry)]
    /\ \A r \in Run : \A i \in DOMAIN Wanted[r] :
         Wanted[r][i].kind = "Observation" => Wanted[r][i].nested = {}
    /\ NestedOnce
    /\ MaxStarts \in Nat

VARIABLES
    rows,    \* the entities, each [kind, name, by, start]
    run,     \* where each run is
    starts,  \* runs started so far
    overlap  \* whether two runs were ever under way together

entityVars == <<rows, run, starts, overlap>>

Of(k, n) == {e \in rows : e.kind = k /\ e.name = n}
There(k, n) == Of(k, n) # {}

(* Party belongs to a plug-in of the API: this schema has no constraint    *)
(* for it.  An Observation is unique by time and Datastream.               *)
UniqueEntity(k) == UniqueNames /\ k \notin {"Party", "Observation"}
Unique(k) == UniqueNames /\ k # "Party"

(* POST: the entity and what it nests are inserted together, or 409.       *)
Inserted(w) == {<<w.kind, w.name>>} \cup w.nested
Conflict(w) == \E e \in Inserted(w) : Unique(e[1]) /\ There(e[1], e[2])
PostRows(r, w) ==
    {[kind |-> e[1], name |-> e[2], by |-> r, start |-> run[r].start] :
        e \in Inserted(w)}

Want(r) == Wanted[r][run[r].at]

(* After one request: the next wanted entity, or, when this one is given   *)
(* up, the first one of the next item.                                     *)
NextItem(r) ==
    CHOOSE i \in run[r].at + 1 .. Len(Wanted[r]) + 1 :
       /\ i <= Len(Wanted[r]) => Wanted[r][i].item # Want(r).item
       /\ \A k \in run[r].at + 1 .. i - 1 : Wanted[r][k].item = Want(r).item

Enter(r, at) ==
    [run[r] EXCEPT !.at = at,
        !.pc = IF at > Len(Wanted[r]) THEN "done"
               ELSE IF Wanted[r][at].kind = "Observation" THEN "post"
               ELSE "look"]
Onward(r) == Enter(r, run[r].at + 1)
Went(r, f) == run' = [run EXCEPT ![r] = f]

UnderWay(r) == run[r].pc \in {"look", "post", "again"}

BeginImport(r) ==
    /\ run[r].pc = "ready" /\ starts < MaxStarts
    /\ starts' = starts + 1
    /\ Went(r, [Enter(r, 1) EXCEPT !.start = starts + 1])
    /\ overlap' = (overlap \/ \E s \in Run \ {r} : UnderWay(s))
    /\ UNCHANGED rows

(* get_or_create: the first entity of that name is reused.                 *)
Found(w) == There(w.kind, w.name)
LookUp(r) ==
    /\ run[r].pc = "look"
    /\ Went(r, IF Found(Want(r)) THEN Onward(r)
               ELSE [run[r] EXCEPT !.pc = "post"])
    /\ UNCHANGED <<rows, starts, overlap>>

(* The POST.  On 409 eyeonwater2istsos looks again (an Observation that    *)
(* exists is skipped); xlsx2istsos stops.                                  *)
AfterConflict(r) ==
    IF r \notin EyeOnWater THEN [run[r] EXCEPT !.pc = "failed"]
    ELSE IF Want(r).kind = "Observation" THEN Onward(r)
    ELSE [run[r] EXCEPT !.pc = "again"]
PostItem(r) ==
    /\ run[r].pc = "post"
    /\ IF Conflict(Want(r))
       THEN Went(r, AfterConflict(r)) /\ UNCHANGED rows
       ELSE /\ rows' = rows \cup PostRows(r, Want(r))
            /\ Went(r, Onward(r))
    /\ UNCHANGED <<starts, overlap>>

(* The second look: the other run's entity, or nothing when the conflict   *)
(* was in the nested one, and then the item is skipped.                    *)
AfterSecondLookSkip(r) == Enter(r, NextItem(r))
AfterSecondLook(r) ==
    IF Found(Want(r)) THEN Onward(r) ELSE Enter(r, NextItem(r))
LookAgain(r) ==
    /\ run[r].pc = "again"
    /\ Went(r, AfterSecondLook(r))
    /\ UNCHANGED <<rows, starts, overlap>>

(* The run is killed, or ends; later it is started again.                  *)
Stop(r) ==
    /\ run[r].pc # "ready" /\ starts < MaxStarts
    /\ Went(r, [run[r] EXCEPT !.pc = "ready"])
    /\ UNCHANGED <<rows, starts, overlap>>

-----------------------------------------------------------------------------
EntityInit ==
    /\ rows = {[kind |-> e[1], name |-> e[2], by |-> "was", start |-> 0] :
                 e \in Standing}
    /\ run = [r \in Run |-> [pc |-> "ready", at |-> 1, start |-> 0]]
    /\ starts = 0
    /\ overlap = FALSE

EntityNext ==
    \E r \in Run : BeginImport(r) \/ LookUp(r) \/ PostItem(r) \/ LookAgain(r) \/ Stop(r)

EntitySpec == EntityInit /\ [][EntityNext]_entityVars

-----------------------------------------------------------------------------
(* A run is at one of its wanted entities, and looks again only for one    *)
(* that eyeonwater2istsos could not create (get_or_create).                *)
EntityTypeOK ==
    \A r \in Run :
       /\ run[r].pc \in {"ready", "look", "post", "again", "done", "failed"}
       /\ run[r].at \in 1..Len(Wanted[r]) + 1
       /\ UnderWay(r) => run[r].at <= Len(Wanted[r])
       /\ run[r].pc = "again" => r \in EyeOnWater /\ Conflict(Want(r))
       /\ run[r].pc = "look" => Want(r).kind # "Observation"

(* Someone else had made what an entity of this item nests, so that the    *)
(* POST gives 409 although the look finds nothing.                         *)
Foreign(r, i) ==
    \E k \in 1..i :
       /\ Wanted[r][k].item = Wanted[r][i].item
       /\ \E e \in Wanted[r][k].nested :
            \E x \in Of(e[1], e[2]) : x.by \notin EyeOnWater

(* When a run ends, each observation is stored and each entity there,      *)
(* whoever won the race for it, unless someone else had made the           *)
(* ObservedProperty that a Datastream of the item nests                    *)
(* (post_eyeonwater_to_istsos4).                                           *)
EveryItemStored ==
    \A r \in Run :
       run[r].pc = "done" =>
         \A i \in 1..Len(Wanted[r]) : Found(Wanted[r][i]) \/ Foreign(r, i)

(* "Re-running is safe: existing entities are reused and observations      *)
(* already stored (HTTP 409) are skipped": after a run has ended, another  *)
(* run over the same data adds nothing, except what that one had to skip.  *)
RerunAddsNothing ==
    [][\A r \in Run :
         (/\ UniqueNames /\ ~overlap
          /\ \E s \in Run : run[s].pc = "done" /\ Wanted[s] = Wanted[r])
            => run'[r] = run[r] \/ rows' = rows \/ Foreign(r, run[r].at)]_entityVars

=============================================================================
