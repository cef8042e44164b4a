---------------------------- MODULE MCAdmission ----------------------------
(* Instances of Admission: two requests, each with its own set of tasks, so *)
(* that every pair that shares a gate, the site mutex or a manager meets.   *)
EXTENDS Admission, TLC

CONSTANTS h1, h2, b1

MCTasksOf == h1 :> {"apply"} @@ h2 :> {"mutate", "job", "live", "confirm", "resume"}
=============================================================================
