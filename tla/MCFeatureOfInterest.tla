------------------------ MODULE MCFeatureOfInterest -------------------------
(* Small instances of FeatureOfInterest.                                   *)
EXTENDS FeatureOfInterest, TLC

\* Which request is of which kind does not matter, since the specification only
\* compares requests for equality: they are numbered by their kinds.
Order == <<"post", "explicit", "bulk", "move", "delete", "reshape", "remove">>
Rank(r) == CHOOSE k \in DOMAIN Order : Order[k] = req[r].kind
Arrived(r) == req[r].pc # "idle"
Numbered == \A r, s \in Req : r < s /\ Arrived(r) /\ Arrived(s) => Rank(r) <= Rank(s)

\* Nor which Datastream the first insert names.
First == CHOOSE d \in Datastream : TRUE
Untouched == \A r \in Req : Arrived(r) => req[r].kind \notin {"post", "explicit", "bulk"}
NamesFirst == \A r \in Req : req[r].sets \in {<<>>, <<First>>}

Load == Numbered' /\ (Untouched => NamesFirst')

LoadSpec == Init /\ [][Next /\ Load]_vars /\ Fairness
=============================================================================
