----------------------------- MODULE SharedPcm -----------------------------
(***************************************************************************)
(* Threads of the file system in encode_bits at the same time, each with a *)
(* file of its own (src/src/sfsfssfsf_file.cc:170): its pcm_buf is static, *)
(* so there is one for all of them. fuse_main starts as many threads as it *)
(* sees fit; with the option -s it runs one handler at a time. The kernel  *)
(* keeps two fsyncs of one file apart, not those of two files.             *)
(*                                                                         *)
(* A thread's file is a sequence of loud samples here, and of as many      *)
(* bits: which of them are silent, and where a file ends, is in Fsync.     *)
(***************************************************************************)
EXTENDS Integers, Sequences

CONSTANTS
  Threads,       (* the threads that fsync, each its own file              *)
  Total,         (* the samples of each recording                          *)
  Round,         (* the most that one fread is asked for                   *)
  Unset,         (* the low bit of a sample as it was recorded             *)
  Multi          (* TRUE: fuse_main as it is called. FALSE: with -s        *)

VARIABLES
  pc,            (* where each thread is: "idle", "fread", "for" or "done" *)
  pos,           (* the samples that each has read                         *)
  num_read,      (* how many of them its last fread gave                   *)
  i,             (* its loop variable, from 1                              *)
  out,           (* the samples that it has sent to its pipe               *)
  pcm_buf        (* the buffer of them all                                 *)

vars == <<pc, pos, num_read, i, out, pcm_buf>>

(* The k-th sample of t's recording; and with the bit of t's file in it.   *)
Recorded(t, k) == [of |-> t, at |-> k, bit |-> Unset]
Covered(t, k) == [of |-> t, at |-> k, bit |-> <<t, k>>]

Left(t) == Total - pos[t]

Asked(t) == IF Left(t) < Round THEN Left(t) ELSE Round

Init ==
  /\ pc = [t \in Threads |-> "idle"]
  /\ pos = [t \in Threads |-> 0]
  /\ num_read = [t \in Threads |-> 0]
  /\ i = [t \in Threads |-> 1]
  /\ out = [t \in Threads |-> <<>>]
  /\ pcm_buf = <<>>

(* A handler gets its thread.                                              *)
Begin(t) ==
  /\ pc[t] = "idle"
  /\ Multi \/ \A u \in Threads : pc[u] \in {"idle", "done"}
  /\ pc' = [pc EXCEPT ![t] = "fread"]
  /\ UNCHANGED <<pos, num_read, i, out, pcm_buf>>

(* fread into the front of pcm_buf.                                        *)
FRead(t) ==
  /\ pc[t] = "fread" /\ Left(t) > 0
  /\ pcm_buf' = [k \in 1 .. (IF Asked(t) > Len(pcm_buf) THEN Asked(t)
                                                        ELSE Len(pcm_buf)) |->
                   IF k <= Asked(t) THEN Recorded(t, pos[t] + k)
                                    ELSE pcm_buf[k]]
  /\ pos' = [pos EXCEPT ![t] = @ + Asked(t)]
  /\ num_read' = [num_read EXCEPT ![t] = Asked(t)]
  /\ i' = [i EXCEPT ![t] = 1]
  /\ pc' = [pc EXCEPT ![t] = "for"]
  /\ UNCHANGED out

(* One turn of the loop: the bit is put into whatever sample is there.     *)
PutSample(t) ==
  /\ pc[t] = "for" /\ i[t] <= num_read[t]
  /\ pcm_buf' = [pcm_buf EXCEPT ![i[t]].bit =
                   <<t, pos[t] - num_read[t] + i[t]>>]
  /\ i' = [i EXCEPT ![t] = @ + 1]
  /\ UNCHANGED <<pc, pos, num_read, out>>

(* fwrite of the round.                                                    *)
FWrite(t) ==
  /\ pc[t] = "for" /\ i[t] > num_read[t]
  /\ out' = [out EXCEPT ![t] = @ \o SubSeq(pcm_buf, 1, num_read[t])]
  /\ pc' = [pc EXCEPT ![t] = "fread"]
  /\ UNCHANGED <<pos, num_read, i, pcm_buf>>

(* The end of the recording: the handler returns.                          *)
End(t) ==
  /\ pc[t] = "fread" /\ Left(t) = 0
  /\ pc' = [pc EXCEPT ![t] = "done"]
  /\ UNCHANGED <<pos, num_read, i, out, pcm_buf>>

Next == \E t \in Threads :
          Begin(t) \/ FRead(t) \/ PutSample(t) \/ FWrite(t) \/ End(t)

Spec == Init /\ [][Next]_vars

-----------------------------------------------------------------------------
(* "single thread, so that we avoid locking problems [...] By using only   *)
(* one thread, we won't handle new FS calls while handling something like  *)
(* a _fsync_" (doc/notes.md:156): what an fsync writes is its own          *)
(* recording with its own file in it, sample for sample, whatever other    *)
(* files are fsynced meanwhile.                                            *)
OwnSamples ==
  \A t \in Threads :
    \A k \in 1 .. Len(out[t]) : out[t][k] = Covered(t, k)
=============================================================================
