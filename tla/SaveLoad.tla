------------------------------ MODULE SaveLoad ------------------------------
(***************************************************************************)
(* Fsync and Load put together: an audio file holds an old file; fsync     *)
(* writes another one over it; the process stops, after the fsync or at    *)
(* any moment of it; a new process loads what the audio file then holds.   *)
(* The whole is shown to implement AtomicSave.                             *)
(***************************************************************************)
EXTENDS HiddenFile

CONSTANTS
  Audios, Payloads, SignedCounter,      (* of Fsync                        *)
  Garbage, IsMagic(_), SizeOf(_),       (* of Load                         *)
  Nothing, Failure                      (* of AtomicSave                   *)

(* As FsyncAssumption and LoadAssumption.                                  *)
ASSUME SaveLoadAssumption ==
  /\ Audios \subseteq Seq(Sample) /\ Payloads \subseteq Payload
  /\ SignedCounter \in BOOLEAN
  /\ Garbage \subseteq Header
  /\ \A p \in Payloads : IsMagic(p.pfi) /\ SizeOf(p.pfi) = p.size
  /\ \A h \in Header : IsMagic(h) \in BOOLEAN /\ SizeOf(h) \in 0 .. DataLen

VARIABLES
  old,           (* the file that the audio file holds at first            *)
  running,       (* whether the process that saves still runs              *)
  saved,         (* history: whether its fsync has returned                *)
  (* the writer: the variables of Fsync                                    *)
  audio, payload, location, pos, eof, out, pc, buf, base, nbytes, still,
  ptr, bit_index, pcm, i, num_encoded,
  (* the reader: the variables of Load                                     *)
  rimage, rpos, reof, rpc, rbuf, rbase, rmaxbytes, rbits_read, rptr,
  rbit_index, rpcm, ri, rpfi, rdata, rtotal, rthrown

disk == <<audio, payload, location>>
writer == <<pos, eof, out, pc, buf, base, nbytes, still, ptr, bit_index, pcm,
            i, num_encoded>>
reader == <<rimage, rpos, reof, rpc, rbuf, rbase, rmaxbytes, rbits_read, rptr,
            rbit_index, rpcm, ri, rpfi, rdata, rtotal, rthrown>>
vars == <<old, running, saved, disk, writer, reader>>

Writer == INSTANCE Fsync

Reader == INSTANCE Load WITH
  Images <- Seq(Sample),
  image <- rimage, pos <- rpos, eof <- reof, pc <- rpc, buf <- rbuf,
  base <- rbase, maxbytes <- rmaxbytes, bits_read <- rbits_read, ptr <- rptr,
  bit_index <- rbit_index, pcm <- rpcm, i <- ri, pfi <- rpfi, data <- rdata,
  total <- rtotal, thrown <- rthrown

(* The header of a new object, its first byte zeroed, and its data buffer. *)
Zeroed(g) == [g EXCEPT ![0] = Reader!ZeroByte]
EmptyData == [d \in 0 .. DataLen - 1 |-> Reader!ZeroByte]

(* No reader yet.                                                          *)
NoReader ==
  /\ rimage = <<>> /\ rpos = 0 /\ reof = FALSE /\ rpc = "off"
  /\ rbuf = "pfi" /\ rbase = 0 /\ rmaxbytes = HeaderLen /\ rbits_read = 0
  /\ rptr = 0 /\ rbit_index = 0 /\ rpcm = <<>> /\ ri = 1
  /\ rpfi = <<>> /\ rdata = <<>> /\ rtotal = 0 /\ rthrown = ""

(* Recordings with room for both files.                                    *)
Init ==
  /\ Writer!Init
  /\ old \in Payloads
  /\ Carries(audio, old) /\ Room(audio, old) /\ Room(audio, payload)
  /\ running = TRUE /\ saved = FALSE
  /\ NoReader

(* A step of fsync; its last one is the rename. *)
Save ==
  /\ running
  /\ Writer!Next
  /\ saved' = (pc' = "done")
  /\ UNCHANGED <<old, running, reader>>

(* The process stops: what it had in memory is gone, and so is the file    *)
(* <location>.tmp as far as anybody looks.                                 *)
Stop ==
  /\ running
  /\ running' = FALSE
  /\ pos' = 0 /\ eof' = FALSE /\ out' = <<>> /\ pc' = "done"
  /\ buf' = "pfi" /\ base' = 0 /\ nbytes' = HeaderLen /\ still' = TRUE
  /\ ptr' = 0 /\ bit_index' = 0 /\ pcm' = <<>> /\ i' = 1 /\ num_encoded' = 0
  /\ UNCHANGED <<old, saved, disk, reader>>

(* A new process makes an object from the audio file.                      *)
Open ==
  /\ ~running /\ rpc = "off"
  /\ rimage' = location /\ rpc' = "loop"
  /\ \E g \in Garbage : rpfi' = Zeroed(g)
  /\ rdata' = EmptyData
  /\ UNCHANGED <<old, running, saved, disk, writer, rpos, reof, rbuf, rbase,
                 rmaxbytes, rbits_read, rptr, rbit_index, rpcm, ri, rtotal,
                 rthrown>>

(* A step of the constructor.                                              *)
Load ==
  /\ ~running /\ rpc # "off"
  /\ Reader!Next
  /\ UNCHANGED <<old, running, saved, disk, writer>>

Next == Save \/ Stop \/ Open \/ Load

Spec == Init /\ [][Next]_vars

-----------------------------------------------------------------------------
(* The file that the object holds, with the rest of its chunk taken for    *)
(* zero: applications see the first pst_size bytes.                        *)
Seen(header, data, size) ==
  [pfi |-> header, size |-> size,
   data |-> [d \in 0 .. size - 1 |-> data[d]]]

SeenOf(p) == Seen(p.pfi, p.data, p.size)

(* The file that an audio file's samples carry, if they carry one of the   *)
(* two whole.                                                              *)
FileIn(samples) ==
  IF Carries(samples, payload) /\ Room(samples, payload) THEN SeenOf(payload)
  ELSE IF Carries(samples, old) /\ Room(samples, old) THEN SeenOf(old)
  ELSE Failure

Got ==
  CASE rpc = "done"   -> Seen(rpfi, rdata, SizeOf(rpfi))
    [] rpc = "thrown" -> Failure
    [] OTHER          -> Nothing

Promise == INSTANCE AtomicSave WITH
  SavedFiles <- {SeenOf(p) : p \in Payloads},
  new <- SeenOf(payload), stored <- FileIn(location), got <- Got

(* Saving is atomic: what a new process reads is the old file or the new   *)
(* one, whole, wherever the old process stopped, and the new one once its  *)
(* fsync has returned. (the separate file of sfsfssfsf_file.cc:237, the    *)
(* rename of line 264, and a reader that looks for each bit where the      *)
(* writer has put it)                                                      *)
SaveIsAtomic == Promise!Spec
=============================================================================
