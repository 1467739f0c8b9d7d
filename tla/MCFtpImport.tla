---------------------------- MODULE MCFtpImport -----------------------------
(* The files of the FTP import.                                            *)
EXTENDS FtpImport

FileRow(s, t, v) == [stream |-> s, time |-> t, value |-> v]

\* A file of two Datastreams and a later one of the first.
MCForeign == {<<"a", 1>>}
MCContent ==
    [f \in File |->
        IF f = "f1"
        THEN <<FileRow("a", 1, "v1"), FileRow("b", 1, "v1"), FileRow("a", 2, "v1")>>
        ELSE <<FileRow("a", 2, "v2")>>]

\* A file whose row fills a gap before the row of another.
LateContent ==
    [f \in File |-> IF f = "f1" THEN <<FileRow("a", 2, "v1")>> ELSE <<FileRow("a", 1, "v1")>>]
=============================================================================
