----------------------------- MODULE MCPublish -----------------------------
(* Model values for the run of Publish.                                     *)
EXTENDS Publish

CONSTANTS u1, u2

OneUser    == {u1}
TwoUsers   == {u1, u2}
NoRequests == {}
=============================================================================
