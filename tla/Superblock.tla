----------------------------- MODULE Superblock -----------------------------
(***************************************************************************)
(* The text of the superblock: serialize_superblock and                    *)
(* deserialize_superblock of src/src/fuse_service.cc. Two numbers, a line  *)
(* each, then path and key of every file, a line each, then the keys of    *)
(* the free list, a line each. A line is a path, a key or empty; what is   *)
(* in it does not matter to the reader, only which line it is.             *)
(***************************************************************************)
EXTENDS Integers, Sequences, FiniteSets

CONSTANTS
  Order,   (* every path and key, and the empty string, in string order:   *)
           (* the order in which a std::map is walked                      *)
  Empty,   (* the empty string                                             *)
  SkipWs   (* FALSE: as the code is. TRUE: with the two lines              *)
           (* `//SuperBlock>>ws;` (125 and 131) taken out of comment       *)

ASSUME SuperblockAssumption ==
  /\ Order \in Seq({Order[j] : j \in 1 .. Len(Order)})
  /\ Empty \in {Order[j] : j \in 1 .. Len(Order)}
  /\ \A j, k \in 1 .. Len(Order) : Order[j] = Order[k] => j = k
  /\ SkipWs \in BOOLEAN

Line == {Order[j] : j \in 1 .. Len(Order)}

(* A std::map<string, string>.                                             *)
StringMap == UNION {[names -> Line] : names \in SUBSET Line}

EmptyMap == [t \in {} |-> Empty]

(* map[key] = value                                                        *)
Assign(map, key, value) ==
  [t \in DOMAIN map \cup {key} |-> IF t = key THEN value ELSE map[t]]

(* The j-th of a set of names, in the order of the strings: it and j - 1   *)
(* others are not behind it.                                               *)
Position(t) == CHOOSE j \in 1 .. Len(Order) : Order[j] = t
Rank(names, t) == Cardinality({u \in names : Position(u) <= Position(t)})
NameAt(names, j) == CHOOSE t \in names : Rank(names, t) = j

(* The pairs of a map as lines, in the order of the names.                 *)
PairLines(map) ==
  LET names == DOMAIN map
  IN  [j \in 1 .. 2 * Cardinality(names) |->
         IF j % 2 = 1 THEN NameAt(names, (j + 1) \div 2)
                      ELSE map[NameAt(names, j \div 2)]]

(* serialize_superblock: the loop that copies the stream to buf line by    *)
(* line changes nothing.                                                   *)
Serialize(map, free) ==
  [map_size |-> Cardinality(DOMAIN map), free_size |-> Len(free),
   text |-> PairLines(map) \o free]

(* Mutant of LinesLeft: the newline is not skipped whatever SkipWs says.   *)
LinesLeftShifted(sb) == <<Empty>> \o sb.text

(* The lines that getline sees: `>> free_list_size` stops in front of the  *)
(* newline of its own line, so the first getline reads the rest of that    *)
(* line unless the white space is skipped.                                 *)
LinesLeft(sb) == IF SkipWs THEN sb.text ELSE <<Empty>> \o sb.text

(* The first n pairs of lines as a map: a name that comes again replaces   *)
(* the earlier value.                                                      *)
ReadPairs(lines, n) ==
  [t \in {lines[2 * j - 1] : j \in 1 .. n} |->
     lines[2 * (CHOOSE j \in 1 .. n :
                  /\ lines[2 * j - 1] = t
                  /\ \A k \in j + 1 .. n : lines[2 * k - 1] # t)]]

(* deserialize_superblock, into an empty map and an empty list; each key   *)
(* is pushed in front of the keys before it.                               *)
Deserialize(sb) ==
  LET lines == LinesLeft(sb)
      n     == 2 * sb.map_size
  IN  [map  |-> ReadPairs(lines, sb.map_size),
       free |-> [j \in 1 .. sb.free_size |-> lines[n + sb.free_size + 1 - j]]]

(* What a superblock says, read by the format that Serialize writes.       *)
FilesOf(sb) == ReadPairs(sb.text, sb.map_size)
FreeOf(sb) ==
  {sb.text[j] : j \in 2 * sb.map_size + 1 .. 2 * sb.map_size + sb.free_size}
=============================================================================
