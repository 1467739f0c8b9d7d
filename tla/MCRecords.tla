----------------------------- MODULE MCRecords ------------------------------
(* The components that change records, side by side: "part" says whose     *)
(* steps a behaviour takes, the others rest.                               *)
EXTENDS DatastreamTime, EntityGraph, EntityImport, Accounts, Patching, TLC

Symmetry ==
    Permutations(Req) \union Permutations(Datastream)

(* EntityImport: a citizen-science feed and a sheet that name the same      *)
(* entities.                                                               *)
WantedItem(k, n, nested, item) == [kind |-> k, name |-> n, nested |-> nested, item |-> item]
Citizen == <<
  WantedItem("Party", "p", {}, 1), WantedItem("Sensor", "s", {}, 1),
  WantedItem("Datastream", "fu", {<<"ObservedProperty", "Fu">>}, 1), WantedItem("Observation", "fu@1", {}, 1),
  WantedItem("Datastream", "ph", {<<"ObservedProperty", "pH">>}, 2), WantedItem("Observation", "ph@1", {}, 2)>>
SheetRows == <<
  WantedItem("Sensor", "s", {}, 1), WantedItem("ObservedProperty", "Fu", {}, 1),
  WantedItem("Datastream", "fu", {}, 1)>>
MCWanted == [r \in Run |-> IF r \in EyeOnWater THEN Citizen ELSE SheetRows]
MCStanding == {<<"ObservedProperty", "pH">>}

(* Patching: a document with a scalar, an object and an array.             *)
MCOriginal == [name |-> Scalar("a"), properties |-> Object([k |-> Scalar("x"), l |-> Array(<<Scalar("x"), Scalar("y")>>)]),
               time |-> Scalar("t1")]
Op(o, path, from, v) == [op |-> o, path |-> path, from |-> from, value |-> v]
KeyPath == <<"properties", "k">>
JsonBody(ops) == [kind |-> "json", ops |-> ops]
Element(i) == <<"properties", "l", i>>
ListEdits == {JsonBody(<<Op("add", Element(i), <<>>, Scalar("z"))>>) : i \in {"0", "1", "2", "3", "-"}}
   \union {JsonBody(<<Op("replace", Element(i), <<>>, Scalar("z"))>>) : i \in {"0", "1", "2", "-"}}
   \union {JsonBody(<<Op(o, Element(i), Element(j), JsonNull)>>) : o \in {"move", "copy"}, i \in {"0", "1", "2"}, j \in {"0", "1"}}
MCBody ==
  {[kind |-> "merge", set |-> "name" :> Scalar("b")],
   [kind |-> "merge", set |-> "time" :> Scalar("t2")],
   [kind |-> "put", set |-> ("name" :> Scalar("c")) @@ ("time" :> Scalar("t2"))],
   [kind |-> "put", set |-> "name" :> Scalar("c")],
   [kind |-> "delete"],
   JsonBody(<<Op("test", <<"name">>, <<>>, Scalar("a")), Op("replace", KeyPath, <<>>, Scalar("y"))>>),
   JsonBody(<<Op("remove", <<"properties", "l", "0">>, <<>>, JsonNull), Op("move", <<"properties", "l", "-">>, KeyPath, JsonNull)>>),
   JsonBody(<<Op("copy", <<"properties", "m">>, <<"properties">>, JsonNull), Op("remove", KeyPath, <<>>, JsonNull)>>),
   JsonBody(<<Op("move", <<"properties", "k", "n">>, <<"properties">>, JsonNull)>>),
   JsonBody(<<Op("remove", <<"properties">>, <<>>, JsonNull), Op("add", KeyPath, <<>>, JsonNull)>>)} \union ListEdits

VARIABLE part

RecordsVars == <<part, vars, graphVars, entityVars, accountVars, patchVars>>

\* The initial state of a component whose turn it is not.
RecordsInit ==
    /\ part \in {"times", "graph", "import", "accounts", "patching"}
    /\ Init
    /\ GraphInit
    /\ EntityInit
    /\ AccountInit /\ (part # "accounts" => (policy = {} /\ \A u \in User : role[u] = NoRole))
    /\ PatchInit

RecordsNext ==
    /\ UNCHANGED part
    /\ \/ part = "times" /\ Next
          /\ UNCHANGED <<graphVars, entityVars, accountVars, patchVars>>
       \/ part = "graph" /\ GraphNext
          /\ UNCHANGED <<vars, entityVars, accountVars, patchVars>>
       \/ part = "import" /\ EntityNext
          /\ UNCHANGED <<vars, graphVars, accountVars, patchVars>>
       \/ part = "accounts" /\ AccountNext
          /\ UNCHANGED <<vars, graphVars, entityVars, patchVars>>
       \/ part = "patching" /\ PatchNext
          /\ UNCHANGED <<vars, graphVars, entityVars, accountVars>>

\* The variables of every component keep their types; in the entity graph the rows of a
\* request that failed are gone and those of one that succeeded are complete.
RecordsTypeOK == TypeOK /\ GraphTypeOK /\ EntityTypeOK /\ AccountTypeOK /\ PatchTypeOK

RecordsSpec == RecordsInit /\ [][RecordsNext]_RecordsVars
=============================================================================
