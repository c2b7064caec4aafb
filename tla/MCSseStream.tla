---------------------------- MODULE MCSseStream ----------------------------
(***************************************************************************)
(* Instances of SseStream for TLC.  The buffers hold every event of the    *)
(* request or one less, so that both a whole and a trimmed trace occur, and *)
(* one other request is enough to evict the key of this one.               *)
(***************************************************************************)
EXTENDS SseStream

CONSTANTS b1, b2, r1

TwoBranches == {b1, b2}
OtherRequests == {r1}
NoOtherRequest == {}

=============================================================================
