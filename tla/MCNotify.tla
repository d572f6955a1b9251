------------------------------ MODULE MCNotify ------------------------------
(* Model values for the run of Notify: two users, and what the publisher    *)
(* and one of the users are told.                                           *)
EXTENDS Notify

CONSTANTS u1, u2

TwoUsers == {u1, u2}
Followed == ({u1} \X {"paid"}) \cup ({u1, Publisher} \X VerdictEvents)
=============================================================================
