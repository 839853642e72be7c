---------------------------- MODULE SingleWriter ----------------------------
(***************************************************************************)
(* What the SQLite backend promises of one session: its log is extended    *)
(* only by the latest writer that claimed the session, so a writer that    *)
(* was superseded never commits again, and a session that is created anew  *)
(* starts with an empty log.  Writers are numbered in the order of their   *)
(* claims.                                                                 *)
(***************************************************************************)
EXTENDS Naturals, Sequences

VARIABLES
  exists,  \* the session is in the catalog
  writer,  \* the latest writer to have claimed it; 0 before the first
  log      \* the writer of every committed mutation, in commit order

Init == exists = FALSE /\ writer = 0 /\ log = <<>>

Create == /\ ~exists
          /\ exists' = TRUE
          /\ writer' = writer + 1
          /\ UNCHANGED log

Claim == /\ exists
         /\ writer' = writer + 1
         /\ UNCHANGED <<exists, log>>

Commit == /\ exists
          /\ log' = Append(log, writer)
          /\ UNCHANGED <<exists, writer>>

Delete == /\ exists
          /\ exists' = FALSE
          /\ log' = <<>>
          /\ UNCHANGED writer

Next == Create \/ Claim \/ Commit \/ Delete

Spec == Init /\ [][Next]_<<exists, writer, log>>
=============================================================================
