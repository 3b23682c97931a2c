----------------------------- MODULE AtomicSave -----------------------------
(***************************************************************************)
(* What saving a file promises, the pipes, rounds and pointers left out:   *)
(* the audio file holds the old file until, in one step, it holds the new  *)
(* one. The process may stop at any time, and whoever then reads the audio *)
(* file gets what it holds, or an error, and nothing in between.           *)
(***************************************************************************)
CONSTANTS
  SavedFiles,    (* the hidden files there may be                          *)
  Nothing,       (* what has been read while nothing has                   *)
  Failure        (* what reading gives when it fails                       *)

VARIABLES
  new,           (* the file that is being saved                           *)
  stored,        (* the file that the audio file holds                     *)
  running,       (* whether the process that saves still runs              *)
  saved,         (* whether it said that it has saved                      *)
  got            (* what was read after the process had stopped            *)

vars == <<new, stored, running, saved, got>>

Init ==
  /\ new \in SavedFiles /\ stored \in SavedFiles
  /\ running = TRUE /\ saved = FALSE
  /\ got = Nothing

Commit ==
  /\ running /\ ~saved
  /\ stored' = new /\ saved' = TRUE
  /\ UNCHANGED <<new, running, got>>

Stop ==
  /\ running
  /\ running' = FALSE
  /\ UNCHANGED <<new, stored, saved, got>>

Read ==
  /\ ~running /\ got = Nothing
  /\ got' \in {stored, Failure}
  /\ UNCHANGED <<new, stored, running, saved>>

Next == Commit \/ Stop \/ Read

Spec == Init /\ [][Next]_vars
=============================================================================
