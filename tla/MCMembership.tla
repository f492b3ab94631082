---------------------------- MODULE MCMembership ----------------------------
(* Values of the constants of Membership for the runs.                     *)
EXTENDS Membership

CONSTANTS u1, u2, u3, h1

Member(i, h, u, role, active) ==
  [id |-> i, household |-> h, user |-> u, role |-> role, active |-> active]

(* An owner with two members.                                              *)
SomeStarts ==
  {{Member(1, h1, u1, "owner", TRUE), Member(2, h1, u2, "member", TRUE),
    Member(3, h1, u3, "member", TRUE)}}

ASSUME StartsAreOrderly == Orderly
=============================================================================
