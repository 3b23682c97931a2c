------------------------------ MODULE ByteFile ------------------------------
(***************************************************************************)
(* What is expected of a file: a sequence of bytes that is written at any  *)
(* offset, a gap in front of the bytes being zero; a save; and after the   *)
(* process has stopped, what was last saved.                               *)
(***************************************************************************)
EXTENDS Integers, Sequences

CONSTANTS
  Bytes,         (* what a byte may be                                     *)
  Zero,          (* the byte of a gap                                      *)
  Largest        (* the largest size of a file                             *)

VARIABLES
  content,       (* what reads are answered from                           *)
  saved,         (* what is left after a crash                             *)
  last           (* the latest write that was asked for                    *)

vars == <<content, saved, last>>

Init ==
  /\ content = <<>> /\ saved = <<>>
  /\ last = [offset |-> 0, bytes |-> <<>>]

(* The bytes at the offset, the old ones around them, zero in a gap.       *)
Write(offset, bytes) ==
  LET end  == offset + Len(bytes)
      size == IF end > Len(content) THEN end ELSE Len(content)
  IN  /\ last' = [offset |-> offset, bytes |-> bytes]
      /\ content' = [j \in 1 .. size |->
                       IF offset < j /\ j <= end THEN bytes[j - offset]
                       ELSE IF j <= Len(content) THEN content[j] ELSE Zero]
      /\ UNCHANGED saved

Save == saved' = content /\ UNCHANGED <<content, last>>

Crash == content' = saved /\ UNCHANGED <<saved, last>>

Next ==
  \/ \E offset \in 0 .. Largest, n \in 1 .. Largest :
       /\ offset + n <= Largest
       /\ \E bytes \in [1 .. n -> Bytes] : Write(offset, bytes)
  \/ Save
  \/ Crash

Spec == Init /\ [][Next]_vars
=============================================================================
