---------------------------- MODULE MCDriverCalls ----------------------------
(* Small instances of DriverCalls for TLC. *)
EXTENDS DriverCalls, TLC

(* A search that comes alone varies one setting at a time.                 *)
Plain == [given |-> TRUE, ownCodes |-> FALSE, ownCount |-> FALSE, ownRate |-> FALSE]
OwnRate == [Plain EXCEPT !.ownRate = TRUE]
Varied ==
    {[Plain EXCEPT !.given = FALSE], [Plain EXCEPT !.ownCodes = TRUE],
     [Plain EXCEPT !.ownCount = TRUE], OwnRate}
ManyAsks == ({Plain} \X Counts) \cup (Varied \X {5})
AFewAsks == {Plain, OwnRate} \X {5}
AFewReplies == {Lost("timeout"), Text(401), Text(200)}
=============================================================================
