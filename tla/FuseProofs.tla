----------------------------- MODULE FuseProofs -----------------------------
(***************************************************************************)
(* The file system for any number of names, audio files and contents, if   *)
(* no two lines of the playlist have one key, as it is built (CREATEFS     *)
(* defined) and as a build that reads the superblock: every handle of a    *)
(* file leads to one object, the disk holds what the last fsync of each    *)
(* file wrote, every key is in one place, and the superblock says so.      *)
(*                                                                         *)
(* The properties need each other's support, and more. Of the directory    *)
(* (Inv): a key that a running mknod has taken counts as held by the path  *)
(* that is being made (Held), so that the step from "taken" to "in the     *)
(* map" changes nothing; keys that are held are not free, and not held     *)
(* twice (KeysApart); every object is stored in the audio file of the key  *)
(* that its path holds (Objects); and a held key's audio file is up to     *)
(* date, but for the path whose first fsync is still to come (Synced).     *)
(*                                                                         *)
(* Of the superblock (Super): its text can be read back and names audio    *)
(* files that were written (Readable), and, where it is read, it has every *)
(* key in one place, names what memory has under the same name, and after  *)
(* a stop what was last fsynced (Recoverable). The lemmas about Superblock *)
(* say that what is written is what is read.                               *)
(*                                                                         *)
(* The last section is about the threads of the handlers: with one of them *)
(* at a time, the static pcm_buf is as good as a buffer of their own.      *)
(***************************************************************************)
EXTENDS FuseService, SequenceTheorems, FiniteSetTheorems, TLAPS

(* No audio file is listed twice, or has the key of another one.           *)
DistinctKeys ==
  \A j, l \in 1 .. Len(Playlist) :
    KeyOf[Playlist[j]] = KeyOf[Playlist[l]] => j = l

PKeys == DOMAIN PlaylistMap

Object == [file : Files \cup {NoFile}, content : Contents]

(* The running mknod has taken a key and not put it into the map.          *)
Taken == mk.pc \in {"fsync", "map"}

Held(p, k) ==
  \/ p \in DOMAIN key_rpath_map /\ key_rpath_map[p] = k
  \/ Taken /\ mk.path = p /\ mk.key = k

Free(k) == \E j \in 1 .. Len(free_list) : free_list[j] = k

Types ==
  /\ mounted \in BOOLEAN
  /\ disk \in [Files -> Contents \cup {Raw}]
  /\ synced \in [Paths -> Contents \cup {Raw}]
  /\ heap \in Seq(Object)
  /\ free_list \in Seq(PKeys)
  /\ DOMAIN key_rpath_map \subseteq Paths
  /\ key_rpath_map \in [DOMAIN key_rpath_map -> PKeys]
  /\ DOMAIN rpath_fileobj \subseteq Paths
  /\ \A p \in DOMAIN rpath_fileobj : rpath_fileobj[p] \in 1 .. Len(heap)
  /\ mk \in [pc : {"idle", "fsync", "map", "superblock"},
             path : Paths \cup {Empty}, key : PKeys \cup {Empty}]
  /\ mk # Idle => mk.pc # "idle" /\ mk.path \in Paths
  /\ Taken => mk.key \in PKeys
  /\ handles \subseteq [path : Paths, obj : Nat]

(* Between a stop and a start there is nothing in memory.                  *)
Stopped ==
  /\ mounted => key_apath_map = PlaylistMap
  /\ ~mounted => /\ DOMAIN key_apath_map = {} /\ DOMAIN key_rpath_map = {}
                 /\ DOMAIN rpath_fileobj = {} /\ handles = {} /\ mk = Idle

KeysApart ==
  /\ \A i, j \in 1 .. Len(free_list) : free_list[i] = free_list[j] => i = j
  /\ \A p \in Paths, k \in PKeys : Held(p, k) => ~Free(k)
  /\ \A p, q \in Paths, k \in PKeys : Held(p, k) /\ Held(q, k) => p = q
  /\ Taken => mk.path \notin DOMAIN key_rpath_map
  /\ mounted => \A k \in PKeys : Free(k) \/ \E p \in Paths : Held(p, k)

Objects ==
  /\ \A p \in DOMAIN rpath_fileobj :
       \E k \in PKeys : /\ Held(p, k)
                        /\ heap[rpath_fileobj[p]].file = PlaylistMap[k]
  /\ \A h \in handles : /\ h.path \in DOMAIN key_rpath_map
                        /\ h.path \in DOMAIN rpath_fileobj
                        /\ rpath_fileobj[h.path] = h.obj
  /\ Taken => mk.path \in DOMAIN rpath_fileobj

Synced ==
  \A p \in Paths, k \in PKeys :
    Held(p, k) /\ ~(mk.pc = "fsync" /\ mk.path = p)
      => disk[PlaylistMap[k]] = synced[p]

Inv == Types /\ Stopped /\ KeysApart /\ Objects /\ Synced

(* A file whose first fsync is over is a file.                             *)
InUse ==
  \A p \in Paths, k \in PKeys :
    Held(p, k) /\ ~(mk.pc = "fsync" /\ mk.path = p) => synced[p] # Raw

(* The j-th key that a superblock says is free.                            *)
FreeKey(sb, j) == sb.text[2 * sb.map_size + j]

(* The superblock names audio files that hold a file, and free keys.       *)
Readable ==
  superblock # NoSuperblock =>
    /\ superblock \in Superblocks
    /\ FilesOf(superblock) \in [DOMAIN FilesOf(superblock) -> PKeys]
    /\ DOMAIN FilesOf(superblock) \subseteq Paths
    /\ \A p \in DOMAIN FilesOf(superblock) :
         disk[PlaylistMap[FilesOf(superblock)[p]]] # Raw
    /\ \A j \in 1 .. superblock.free_size : FreeKey(superblock, j) \in PKeys
    /\ FreeOf(superblock) =
         {FreeKey(superblock, j) : j \in 1 .. superblock.free_size}

(* A superblock says of every key where it is, of none twice.              *)
Accounts(sb) ==
  LET files == FilesOf(sb)
      frees == 1 .. sb.free_size
  IN  /\ \A i, j \in frees : FreeKey(sb, i) = FreeKey(sb, j) => i = j
      /\ \A p \in DOMAIN files, j \in frees : files[p] # FreeKey(sb, j)
      /\ \A p, q \in DOMAIN files : files[p] = files[q] => p = q
      /\ \A k \in PKeys : \/ \E j \in frees : FreeKey(sb, j) = k
                          \/ \E p \in DOMAIN files : files[p] = k

(* Where the superblock is read at a start: the directory has only grown   *)
(* since it was written, and what it names is what was last fsynced.       *)
Recoverable ==
  CreatefsBuild = "once" /\ superblock # NoSuperblock =>
    LET files == FilesOf(superblock)
    IN  /\ Accounts(superblock)
        /\ mounted => \A p \in DOMAIN files :
             p \in DOMAIN key_rpath_map /\ key_rpath_map[p] = files[p]
        /\ ~mounted => \A p \in DOMAIN files :
             disk[PlaylistMap[files[p]]] = synced[p]

(* The superblock names every file but the one that is being made.         *)
Recorded ==
  mounted => \A p \in DOMAIN key_rpath_map \ {mk.path} :
               /\ superblock # NoSuperblock
               /\ p \in DOMAIN FilesOf(superblock)
               /\ FilesOf(superblock)[p] = key_rpath_map[p]

Super ==
  InUse /\ Readable /\ SuperblockCurrent /\ Recoverable /\ Recorded

-----------------------------------------------------------------------------
(* The superblock. First the lines: there are finitely many.               *)
LEMMA LineFinite == IsFiniteSet(Line)
<1> DEFINE n == Len(Order)
<1>1. Order \in Seq(Line) /\ n \in Nat
  BY SuperblockAssumption DEF Line
<1>2. Order \in [1 .. n -> Line]
  BY <1>1
<1>3. Order \in Surjection(1 .. n, Line)
  BY <1>2 DEF Surjection, Line
<1>4. IsFiniteSet(1 .. n)
  BY <1>1, FS_Interval
<1>5. QED
  BY <1>3, <1>4, FS_Surjection

(* Two lines are not at one position.                                      *)
LEMMA Positions ==
  /\ \A t \in Line : Position(t) \in 1 .. Len(Order)
                     /\ Order[Position(t)] = t
  /\ \A t, u \in Line : Position(t) = Position(u) => t = u
  /\ \A t \in Line : Position(t) \in Int
<1>1. ASSUME NEW t \in Line
      PROVE  Position(t) \in 1 .. Len(Order) /\ Order[Position(t)] = t
  <2>1. \E j \in 1 .. Len(Order) : Order[j] = t
    BY DEF Line
  <2>2. QED
    BY <2>1 DEF Position
<1>2. QED
  BY <1>1, SuperblockAssumption

(* The ranks of a set's members are 1, 2 and so on, one each.              *)
LEMMA Ranks ==
  ASSUME NEW names \in SUBSET Line
  PROVE  /\ IsFiniteSet(names) /\ Cardinality(names) \in Nat
         /\ \A t \in names : Rank(names, t) \in 1 .. Cardinality(names)
         /\ \A t, u \in names : Rank(names, t) = Rank(names, u) => t = u
         /\ \A j \in 1 .. Cardinality(names) :
              \E t \in names : Rank(names, t) = j
<1> DEFINE n == Cardinality(names)
           UpTo(t) == {u \in names : Position(u) <= Position(t)}
           r == [t \in names |-> Rank(names, t)]
<1>1. IsFiniteSet(names) /\ n \in Nat
  BY LineFinite, FS_Subset, FS_CardinalityType
<1>2. ASSUME NEW t \in names
      PROVE  /\ IsFiniteSet(UpTo(t)) /\ Rank(names, t) = Cardinality(UpTo(t))
             /\ Rank(names, t) \in 1 .. n
  <2>1. UpTo(t) \in SUBSET names /\ t \in UpTo(t)
    BY Positions
  <2>2. IsFiniteSet(UpTo(t)) /\ Cardinality(UpTo(t)) <= n
    BY <1>1, <2>1, FS_Subset
  <2>3. Cardinality(UpTo(t)) \in Nat /\ Cardinality(UpTo(t)) # 0
    BY <2>1, <2>2, FS_CardinalityType, FS_EmptySet
  <2>4. Rank(names, t) = Cardinality(UpTo(t))
    BY DEF Rank
  <2>5. QED
    BY <1>1, <2>2, <2>3, <2>4
<1>3. ASSUME NEW t \in names, NEW u \in names, Rank(names, t) = Rank(names, u),
             Position(t) <= Position(u)
      PROVE  t = u
  <2>1. UpTo(t) \in SUBSET UpTo(u)
    BY <1>3, Positions
  <2>2. UpTo(t) = UpTo(u)
    BY <1>2, <1>3, <2>1, FS_Subset
  <2>3. u \in UpTo(u)
    BY Positions
  <2>4. Position(u) <= Position(t)
    BY <2>2, <2>3
  <2>5. QED
    BY <1>3, <2>4, Positions
<1>4. ASSUME NEW t \in names, NEW u \in names, Rank(names, t) = Rank(names, u)
      PROVE  t = u
  BY <1>3, <1>4, Positions
<1>5. r \in Injection(names, 1 .. n)
  BY <1>2, <1>4 DEF Injection, IsInjective
<1>6. IsFiniteSet(1 .. n) /\ Cardinality(1 .. n) = n
  BY <1>1, FS_Interval
<1>7. r \in Surjection(names, 1 .. n)
  BY <1>5, <1>6, FS_Injection
<1>8. ASSUME NEW j \in 1 .. n
      PROVE  \E t \in names : Rank(names, t) = j
  BY <1>7 DEF Surjection
<1>9. QED
  BY <1>1, <1>2, <1>4, <1>8

(* The names by their ranks: each once.                                    *)
LEMMA Names ==
  ASSUME NEW names \in SUBSET Line
  PROVE  /\ Cardinality(names) \in Nat
         /\ \A j \in 1 .. Cardinality(names) : NameAt(names, j) \in names
         /\ \A j, k \in 1 .. Cardinality(names) :
              NameAt(names, j) = NameAt(names, k) => j = k
         /\ \A t \in names : \E j \in 1 .. Cardinality(names) :
              NameAt(names, j) = t
<1>1. ASSUME NEW j \in 1 .. Cardinality(names)
      PROVE  NameAt(names, j) \in names /\ Rank(names, NameAt(names, j)) = j
  <2>1. \E t \in names : Rank(names, t) = j
    BY Ranks
  <2>2. QED
    BY <2>1 DEF NameAt
<1>2. ASSUME NEW t \in names
      PROVE  \E j \in 1 .. Cardinality(names) : NameAt(names, j) = t
  <2>1. Rank(names, t) \in 1 .. Cardinality(names)
    BY Ranks
  <2>2. NameAt(names, Rank(names, t)) = t
    BY <2>1, <1>1, Ranks
  <2>3. QED
    BY <2>1, <2>2
<1>3. QED
  BY <1>1, <1>2, Ranks

(* What is written about a map: a line for each name, and its value after  *)
(* it.                                                                     *)
LEMMA PairText ==
  ASSUME NEW map, DOMAIN map \in SUBSET Line,
         \A t \in DOMAIN map : map[t] \in Line
  PROVE  LET n == Cardinality(DOMAIN map)
         IN  /\ n \in Nat
             /\ PairLines(map) \in Seq(Line) /\ Len(PairLines(map)) = 2 * n
             /\ \A j \in 1 .. n :
                  /\ PairLines(map)[2 * j - 1] = NameAt(DOMAIN map, j)
                  /\ PairLines(map)[2 * j] = map[NameAt(DOMAIN map, j)]
<1> DEFINE n == Cardinality(DOMAIN map)
           Name(j) == NameAt(DOMAIN map, j)
           line(j) == IF j % 2 = 1 THEN Name((j + 1) \div 2)
                                   ELSE map[Name(j \div 2)]
<1>1. /\ n \in Nat
      /\ \A j \in 1 .. n : Name(j) \in DOMAIN map
  BY Names
<1>2. PairLines(map) = [j \in 1 .. 2 * n |-> line(j)]
  BY DEF PairLines
<1>3. ASSUME NEW j \in 1 .. 2 * n
      PROVE  line(j) \in Line
  <2>1. CASE j % 2 = 1
    <3>1. (j + 1) \div 2 \in 1 .. n
      BY <1>1, <2>1
    <3>2. QED
      BY <3>1, <2>1, <1>1
  <2>2. CASE j % 2 # 1
    <3>1. j \div 2 \in 1 .. n
      BY <1>1, <2>2
    <3>2. QED
      BY <3>1, <2>2, <1>1
  <2>3. QED
    BY <2>1, <2>2
<1>4. PairLines(map) \in [1 .. 2 * n -> Line] /\ 2 * n \in Nat
  BY <1>1, <1>2, <1>3
<1>5. PairLines(map) \in Seq(Line) /\ Len(PairLines(map)) = 2 * n
  BY <1>4
<1>6. ASSUME NEW j \in 1 .. n
      PROVE  /\ PairLines(map)[2 * j - 1] = Name(j)
             /\ PairLines(map)[2 * j] = map[Name(j)]
  <2>1. /\ 2 * j - 1 \in 1 .. 2 * n /\ (2 * j - 1) % 2 = 1
        /\ (2 * j - 1 + 1) \div 2 = j
    BY <1>1
  <2>2. 2 * j \in 1 .. 2 * n /\ (2 * j) % 2 = 0 /\ (2 * j) \div 2 = j
    BY <1>1
  <2>3. QED
    BY <1>2, <2>1, <2>2
<1>7. QED
  BY <1>1, <1>5, <1>6

(* What is written about a map and a list.                                 *)
LEMMA Text ==
  ASSUME NEW map, DOMAIN map \in SUBSET Line,
         \A t \in DOMAIN map : map[t] \in Line, NEW free \in Seq(Line)
  PROVE  LET n  == Cardinality(DOMAIN map)
             sb == Serialize(map, free)
         IN  /\ n \in Nat /\ sb \in Superblocks
             /\ sb.map_size = n /\ sb.free_size = Len(free)
             /\ Len(sb.text) = 2 * n + Len(free)
             /\ \A j \in 1 .. n :
                  /\ sb.text[2 * j - 1] = NameAt(DOMAIN map, j)
                  /\ sb.text[2 * j] = map[NameAt(DOMAIN map, j)]
             /\ \A j \in 1 .. Len(free) : sb.text[2 * n + j] = free[j]
<1> DEFINE n  == Cardinality(DOMAIN map)
           sb == Serialize(map, free)
           pairs == PairLines(map)
<1>1. /\ n \in Nat /\ pairs \in Seq(Line) /\ Len(pairs) = 2 * n
      /\ \A j \in 1 .. n :
           /\ pairs[2 * j - 1] = NameAt(DOMAIN map, j)
           /\ pairs[2 * j] = map[NameAt(DOMAIN map, j)]
  BY PairText
<1>2. /\ sb.map_size = n /\ sb.free_size = Len(free)
      /\ sb.text = pairs \o free /\ Len(free) \in Nat
      /\ sb = [map_size |-> n, free_size |-> Len(free),
               text |-> pairs \o free]
  BY DEF Serialize
<1> HIDE DEF n, sb, pairs
<1>3. /\ sb.text \in Seq(Line) /\ Len(sb.text) = 2 * n + Len(free)
      /\ \A j \in 1 .. 2 * n + Len(free) :
           sb.text[j] = IF j <= 2 * n THEN pairs[j] ELSE free[j - 2 * n]
  <2>1. /\ pairs \o free \in Seq(Line)
        /\ Len(pairs \o free) = Len(pairs) + Len(free)
        /\ \A j \in 1 .. Len(pairs) + Len(free) : (pairs \o free)[j] =
             IF j <= Len(pairs) THEN pairs[j] ELSE free[j - Len(pairs)]
    BY <1>1, ConcatProperties
  <2>2. QED
    BY <1>1, <1>2, <2>1
<1>4. sb \in Superblocks
  BY <1>1, <1>2, <1>3 DEF Superblocks
<1>5. ASSUME NEW j \in 1 .. n
      PROVE  /\ sb.text[2 * j - 1] = NameAt(DOMAIN map, j)
             /\ sb.text[2 * j] = map[NameAt(DOMAIN map, j)]
  <2>1. /\ 2 * j - 1 \in 1 .. 2 * n + Len(free) /\ 2 * j - 1 <= 2 * n
        /\ 2 * j \in 1 .. 2 * n + Len(free) /\ 2 * j <= 2 * n
    BY <1>1, <1>2
  <2>2. QED
    BY <1>1, <1>3, <2>1
<1>6. ASSUME NEW j \in 1 .. Len(free)
      PROVE  sb.text[2 * n + j] = free[j]
  <2> DEFINE m == 2 * n + j
  <2>1. n \in Nat /\ Len(free) \in Nat /\ j \in Nat
    BY <1>1, <1>2
  <2>2. m \in 1 .. 2 * n + Len(free) /\ ~(m <= 2 * n) /\ m - 2 * n = j
    BY <2>1
  <2> HIDE DEF m
  <2>3. sb.text[m] = free[m - 2 * n]
    BY <1>3, <2>2
  <2>4. QED
    BY <2>2, <2>3 DEF m
<1>7. QED
  BY <1>1, <1>2, <1>3, <1>4, <1>5, <1>6 DEF n, sb

(* The superblock's text says what was written: the files of the map, the  *)
(* keys of the list.                                                       *)
LEMMA ReadsBack ==
  ASSUME NEW map, DOMAIN map \in SUBSET Line,
         \A t \in DOMAIN map : map[t] \in Line, NEW free \in Seq(Line),
         map = [t \in DOMAIN map |-> map[t]]
  PROVE  LET sb == Serialize(map, free)
         IN  /\ FilesOf(sb) = map
             /\ FreeOf(sb) = {free[j] : j \in 1 .. Len(free)}
<1> DEFINE n  == Cardinality(DOMAIN map)
           sb == Serialize(map, free)
           Name(j) == NameAt(DOMAIN map, j)
<1>1. /\ n \in Nat /\ sb.map_size = n /\ sb.free_size = Len(free)
      /\ Len(sb.text) = 2 * n + Len(free) /\ Len(free) \in Nat
      /\ \A j \in 1 .. n : /\ sb.text[2 * j - 1] = Name(j)
                           /\ sb.text[2 * j] = map[Name(j)]
      /\ \A j \in 1 .. Len(free) : sb.text[2 * n + j] = free[j]
  BY Text
<1>2. /\ \A j \in 1 .. n : Name(j) \in DOMAIN map
      /\ \A j, k \in 1 .. n : Name(j) = Name(k) => j = k
      /\ \A t \in DOMAIN map : \E j \in 1 .. n : Name(j) = t
  BY Names
<1>3. {sb.text[2 * j - 1] : j \in 1 .. n} = DOMAIN map
  <2> HIDE DEF n, sb, Name
  <2>1. \A j \in 1 .. n : sb.text[2 * j - 1] \in DOMAIN map
    BY <1>1, <1>2
  <2>2. ASSUME NEW t \in DOMAIN map
        PROVE  \E j \in 1 .. n : sb.text[2 * j - 1] = t
    <3>1. PICK j \in 1 .. n : Name(j) = t
      BY <1>2
    <3>2. QED
      BY <1>1, <3>1
  <2>3. QED
    BY <2>1, <2>2
<1>4. ASSUME NEW t \in DOMAIN map
      PROVE  LET k == CHOOSE j \in 1 .. n :
                        /\ sb.text[2 * j - 1] = t
                        /\ \A l \in j + 1 .. n : sb.text[2 * l - 1] # t
             IN  k \in 1 .. n /\ sb.text[2 * k] = map[t]
  <2> DEFINE Last(j) == /\ sb.text[2 * j - 1] = t
                        /\ \A l \in j + 1 .. n : sb.text[2 * l - 1] # t
  <2>1. PICK j \in 1 .. n : Name(j) = t
    BY <1>2
  <2>2. ASSUME NEW l \in j + 1 .. n
        PROVE  sb.text[2 * l - 1] # t
    <3>1. l \in 1 .. n /\ l # j
      BY <1>1
    <3>2. QED
      BY <3>1, <2>1, <1>1, <1>2
  <2>3. Last(j)
    BY <1>1, <2>1, <2>2
  <2>4. \E k \in 1 .. n : Last(k)
    BY <2>3
  <2>5. ASSUME NEW k \in 1 .. n, Last(k)
        PROVE  sb.text[2 * k] = map[t]
    BY <2>5, <1>1
  <2> HIDE DEF Last
  <2>6. LET k == CHOOSE k \in 1 .. n : Last(k)
        IN  k \in 1 .. n /\ Last(k)
    BY <2>4
  <2>7. LET k == CHOOSE k \in 1 .. n : Last(k)
        IN  k \in 1 .. n /\ sb.text[2 * k] = map[t]
    BY <2>5, <2>6
  <2>8. QED
    BY <2>7 DEF Last
<1>5. FilesOf(sb) = map
  <2>1. FilesOf(sb) = ReadPairs(sb.text, n)
    BY <1>1 DEF FilesOf
  <2>2. ReadPairs(sb.text, n) = [t \in DOMAIN map |-> map[t]]
    BY <1>3, <1>4 DEF ReadPairs
  <2>3. QED
    BY <2>1, <2>2
<1>6. FreeOf(sb) = {free[j] : j \in 1 .. Len(free)}
  <2>1. FreeOf(sb) = {sb.text[j] : j \in 2 * n + 1 .. 2 * n + Len(free)}
    BY <1>1 DEF FreeOf
  <2>2. ASSUME NEW j \in 2 * n + 1 .. 2 * n + Len(free)
        PROVE  /\ j - 2 * n \in 1 .. Len(free)
               /\ sb.text[j] = free[j - 2 * n]
    <3>1. j - 2 * n \in 1 .. Len(free) /\ 2 * n + (j - 2 * n) = j
      BY <1>1
    <3>2. QED
      BY <3>1, <1>1
  <2>3. ASSUME NEW j \in 1 .. Len(free)
        PROVE  /\ 2 * n + j \in 2 * n + 1 .. 2 * n + Len(free)
               /\ sb.text[2 * n + j] = free[j]
    BY <1>1
  <2>4. QED
    BY <2>1, <2>2, <2>3, SMTT(30)
<1>7. QED
  BY <1>5, <1>6

-----------------------------------------------------------------------------
(* The playlist.                                                           *)

(* apath gives an audio file for each of its keys, and the key's own.      *)
LEMMA PlaylistFiles ==
  ASSUME DistinctKeys
  PROVE  /\ PKeys \subseteq Keys
         /\ \A k \in PKeys : /\ PlaylistMap[k] \in Files
                             /\ KeyOf[PlaylistMap[k]] = k
<1>1. ASSUME NEW k \in PKeys
      PROVE  /\ k \in Keys
             /\ PlaylistMap[k] \in Files /\ KeyOf[PlaylistMap[k]] = k
  <2> DEFINE Last(j) == /\ KeyOf[Playlist[j]] = k
                        /\ \A l \in j + 1 .. Len(Playlist) :
                             KeyOf[Playlist[l]] # k
  <2>1. PICK j \in 1 .. Len(Playlist) : KeyOf[Playlist[j]] = k
    BY DEF PKeys, PlaylistMap
  <2>2. Len(Playlist) \in Nat /\ Playlist \in Seq(Files)
    BY FuseServiceAssumption
  <2>3. ASSUME NEW l \in j + 1 .. Len(Playlist)
        PROVE  KeyOf[Playlist[l]] # k
    <3>1. l \in 1 .. Len(Playlist) /\ l # j
      BY <2>2
    <3>2. QED
      BY <3>1, <2>1 DEF DistinctKeys
  <2>4. Last(j)
    BY <2>1, <2>3
  <2>5. \E n \in 1 .. Len(Playlist) : Last(n)
    BY <2>4
  <2>6. LET n == CHOOSE n \in 1 .. Len(Playlist) : Last(n)
        IN  n \in 1 .. Len(Playlist) /\ Last(n)
    BY <2>5
  <2>7. PlaylistMap[k] = Playlist[CHOOSE n \in 1 .. Len(Playlist) : Last(n)]
    BY DEF PKeys, PlaylistMap
  <2>8. Playlist[j] \in Files
    BY <2>2
  <2>9. QED
    BY <2>1, <2>2, <2>6, <2>7, <2>8, FuseServiceAssumption
<1>2. QED
  BY <1>1

(* The first free list holds each of the keys, once.                       *)
LEMMA PlaylistKeysApart ==
  ASSUME DistinctKeys
  PROVE  /\ PlaylistKeys \in Seq(PKeys)
         /\ \A i, j \in 1 .. Len(PlaylistKeys) :
              PlaylistKeys[i] = PlaylistKeys[j] => i = j
         /\ \A k \in PKeys : \E j \in 1 .. Len(PlaylistKeys) :
                               PlaylistKeys[j] = k
<1> DEFINE n == Len(Playlist)
<1>1. n \in Nat /\ Playlist \in Seq(Files)
  BY FuseServiceAssumption
<1>2. PKeys = {KeyOf[Playlist[j]] : j \in 1 .. n}
  BY DEF PKeys, PlaylistMap
<1>3. \A j \in 1 .. n : n + 1 - j \in 1 .. n
  BY <1>1
<1>4. \A j \in 1 .. n : KeyOf[Playlist[n + 1 - j]] \in PKeys
  BY <1>2, <1>3
<1>5. PlaylistKeys = [j \in 1 .. n |-> KeyOf[Playlist[n + 1 - j]]]
  BY DEF PlaylistKeys
<1>6. PlaylistKeys \in [1 .. n -> PKeys]
  BY <1>4, <1>5
<1>7. PlaylistKeys \in Seq(PKeys) /\ Len(PlaylistKeys) = n
  BY <1>1, <1>6
<1>8. ASSUME NEW i \in 1 .. n, NEW j \in 1 .. n,
             PlaylistKeys[i] = PlaylistKeys[j]
      PROVE  i = j
  <2>1. KeyOf[Playlist[n + 1 - i]] = KeyOf[Playlist[n + 1 - j]]
    BY <1>5, <1>8
  <2>2. n + 1 - i = n + 1 - j
    BY <2>1, <1>3 DEF DistinctKeys
  <2>3. QED
    BY <2>2, <1>1
<1>9. ASSUME NEW k \in PKeys
      PROVE  \E j \in 1 .. n : PlaylistKeys[j] = k
  <2>1. PICK j \in 1 .. n : KeyOf[Playlist[j]] = k
    BY <1>2
  <2>2. n + 1 - (n + 1 - j) = j
    BY <1>1
  <2>3. PlaylistKeys[n + 1 - j] = k
    BY <1>3, <1>5, <2>1, <2>2
  <2>4. QED
    BY <1>3, <2>3
<1>10. QED
  BY <1>7, <1>8, <1>9

(* A key of the playlist leads to its audio file, while the process runs.  *)
LEMMA ApathOfKey ==
  ASSUME DistinctKeys, Stopped, mounted, NEW k \in PKeys
  PROVE  Apath(k) = PlaylistMap[k] /\ Apath(k) \in Files
  BY PlaylistFiles DEF Stopped, Apath, PKeys

(* Two keys have two audio files.                                          *)
LEMMA FilesApart ==
  ASSUME DistinctKeys, NEW k \in PKeys, NEW l \in PKeys,
         PlaylistMap[k] = PlaylistMap[l]
  PROVE  k = l
  BY PlaylistFiles

-----------------------------------------------------------------------------
(* Start and stop.                                                         *)

LEMMA InitInv == Init => Inv
<1> SUFFICES ASSUME Init
             PROVE  Inv
  OBVIOUS
<1>1. /\ DOMAIN key_rpath_map = {} /\ DOMAIN rpath_fileobj = {}
      /\ mk = Idle /\ ~Taken
  BY DEF Init, EmptyMap, Idle, Taken
<1>2. Types
  <2>1. heap \in Seq(Object) /\ free_list \in Seq(PKeys)
    BY DEF Init
  <2>2. mk \in [pc : {"idle", "fsync", "map", "superblock"},
               path : Paths \cup {Empty}, key : PKeys \cup {Empty}]
    BY <1>1 DEF Idle
  <2>3. key_rpath_map \in [DOMAIN key_rpath_map -> PKeys]
    BY DEF Init, EmptyMap
  <2>4. QED
    BY <1>1, <2>1, <2>2, <2>3 DEF Init, Types
<1>3. Stopped
  BY <1>1 DEF Init, Stopped
<1>4. \A p, k : ~Held(p, k)
  BY <1>1 DEF Held
<1>5. KeysApart
  BY <1>1, <1>4 DEF Init, KeysApart
<1>6. Objects
  BY <1>1 DEF Init, Objects
<1>7. Synced
  BY <1>4 DEF Synced
<1>8. QED
  BY <1>2, <1>3, <1>5, <1>6, <1>7 DEF Inv

LEMMA MountCreateInv == DistinctKeys /\ Inv /\ MountCreate => Inv'
<1> SUFFICES ASSUME DistinctKeys, Inv, MountCreate
             PROVE  Inv'
  OBVIOUS
<1>1. Types /\ Stopped /\ ~mounted
  BY DEF Inv, MountCreate
<1>2. /\ DOMAIN key_rpath_map' = {} /\ DOMAIN rpath_fileobj' = {}
      /\ handles' = {} /\ mk' = Idle /\ ~Taken'
  BY <1>1 DEF Stopped, MountCreate, Idle, Taken
<1>3. free_list' = PlaylistKeys /\ mounted'
  BY DEF MountCreate
<1>4. Types'
  BY <1>1, <1>2, <1>3, PlaylistKeysApart DEF Types, MountCreate
<1>5. Stopped'
  BY <1>3 DEF Stopped, MountCreate
<1>6. \A p, k : ~Held(p, k)'
  BY <1>2 DEF Held
<1>7. KeysApart'
  BY <1>2, <1>3, <1>6, PlaylistKeysApart DEF KeysApart, Free
<1>8. Objects'
  BY <1>2 DEF Objects
<1>9. Synced'
  BY <1>6 DEF Synced
<1>10. QED
  BY <1>4, <1>5, <1>7, <1>8, <1>9 DEF Inv

(* Whatever ends the process.                                              *)
LEMMA ForgetInv ==
  ASSUME Inv, Forget, UNCHANGED <<disk, synced>>
  PROVE  Inv'
<1>1. /\ DOMAIN key_apath_map' = {} /\ DOMAIN key_rpath_map' = {}
      /\ DOMAIN rpath_fileobj' = {} /\ mk' = Idle /\ ~Taken'
      /\ handles' = {} /\ mounted' = FALSE /\ free_list' = <<>>
      /\ heap' = <<>>
  BY DEF Forget, EmptyMap, Idle, Taken
<1>2. Types'
  <2>1. heap' \in Seq(Object) /\ free_list' \in Seq(PKeys)
    BY <1>1
  <2>2. mk' \in [pc : {"idle", "fsync", "map", "superblock"},
                path : Paths \cup {Empty}, key : PKeys \cup {Empty}]
    BY <1>1 DEF Idle
  <2>3. key_rpath_map' \in [DOMAIN key_rpath_map' -> PKeys]
    BY DEF Forget, EmptyMap
  <2>4. Types
    BY DEF Inv
  <2>5. QED
    BY <1>1, <2>1, <2>2, <2>3, <2>4 DEF Types
<1>3. Stopped'
  BY <1>1 DEF Stopped
<1>4. \A p, k : ~Held(p, k)'
  BY <1>1 DEF Held
<1>5. KeysApart'
  BY <1>1, <1>4 DEF KeysApart
<1>6. Objects'
  BY <1>1 DEF Objects
<1>7. Synced'
  BY <1>4 DEF Synced
<1>8. QED
  BY <1>2, <1>3, <1>5, <1>6, <1>7 DEF Inv

-----------------------------------------------------------------------------
(* mknod.                                                                  *)

LEMMA MknodBeginInv ==
  ASSUME DistinctKeys, Inv, NEW path \in Paths, MknodBegin(path)
  PROVE  Inv'
<1>1. Types /\ Stopped /\ KeysApart /\ Objects /\ Synced /\ mounted
      /\ mk = Idle /\ path \notin DOMAIN key_rpath_map /\ free_list # <<>>
  BY DEF Inv, MknodBegin
<1>0. PICK key \in PKeys : key = Head(free_list)
  BY <1>1, HeadTailProperties DEF Types
<1> DEFINE f == [file |-> Apath(key), content |-> Fresh]
<1>2. ~Taken /\ Taken' /\ mk' = [pc |-> "fsync", path |-> path, key |-> key]
  BY <1>0, <1>1 DEF Taken, Idle, MknodBegin
<1>3. /\ key = free_list[1] /\ Len(free_list) \in Nat \ {0}
      /\ Tail(free_list) \in Seq(PKeys)
      /\ Len(Tail(free_list)) = Len(free_list) - 1
      /\ \A j \in 1 .. Len(Tail(free_list)) :
           Tail(free_list)[j] = free_list[j + 1]
  BY <1>0, <1>1, HeadTailProperties DEF Types
<1>4. Apath(key) = PlaylistMap[key] /\ f \in Object
  BY <1>1, <1>3, ApathOfKey, FuseServiceAssumption DEF Object
<1>5. /\ heap' \in Seq(Object) /\ Len(heap') = Len(heap) + 1
      /\ \A o \in 1 .. Len(heap) : heap'[o] = heap[o]
      /\ heap'[Len(heap) + 1] = f /\ Len(heap) \in Nat
  <2>1. heap' = Append(heap, f)
    BY <1>0 DEF MknodBegin
  <2>2. QED
    BY <1>1, <1>4, <2>1, AppendProperties DEF Types
<1>6. /\ DOMAIN rpath_fileobj' = DOMAIN rpath_fileobj \cup {path}
      /\ rpath_fileobj'[path] = Len(heap) + 1
      /\ \A p \in DOMAIN rpath_fileobj :
           p # path => rpath_fileobj'[p] = rpath_fileobj[p]
  BY DEF MknodBegin, Assign
<1>7. path \notin DOMAIN rpath_fileobj
  BY <1>1, <1>2 DEF Objects, Held
<1>8. Types'
  <2>1. \A p \in DOMAIN rpath_fileobj' : rpath_fileobj'[p] \in 1 .. Len(heap')
    BY <1>1, <1>5, <1>6 DEF Types
  <2>2. free_list' \in Seq(PKeys)
    BY <1>3 DEF MknodBegin
  <2>3. QED
    BY <1>1, <1>2, <1>3, <1>5, <1>6, <2>1, <2>2 DEF Types, MknodBegin
<1>9. Stopped'
  BY <1>1 DEF Stopped, MknodBegin
<1>10. \A p, k : Held(p, k)' <=> (Held(p, k) \/ (p = path /\ k = key))
  BY <1>2 DEF Held, MknodBegin
<1>11. \A k : Free(k) <=> (Free(k)' \/ k = key)
  <2>1. ASSUME NEW j \in 1 .. Len(free_list), j # 1
        PROVE  j - 1 \in 1 .. Len(Tail(free_list))
               /\ Tail(free_list)[j - 1] = free_list[j]
    BY <2>1, <1>3
  <2>2. ASSUME NEW j \in 1 .. Len(Tail(free_list))
        PROVE  j + 1 \in 1 .. Len(free_list)
               /\ Tail(free_list)[j] = free_list[j + 1]
    BY <2>2, <1>3
  <2>3. free_list' = Tail(free_list) /\ 1 \in 1 .. Len(free_list)
    BY <1>3 DEF MknodBegin
  <2>4. QED
    BY <1>3, <2>1, <2>2, <2>3 DEF Free
<1>12. ~Free(key)'
  <2>1. ASSUME NEW j \in 1 .. Len(Tail(free_list)),
               Tail(free_list)[j] = key
        PROVE  FALSE
    <3>1. j + 1 \in 1 .. Len(free_list) /\ 1 \in 1 .. Len(free_list)
          /\ free_list[j + 1] = free_list[1] /\ j + 1 # 1
      BY <2>1, <1>3
    <3>2. QED
      BY <3>1, <1>1 DEF KeysApart
  <2>2. QED
    BY <2>1 DEF Free, MknodBegin
<1>13. KeysApart'
  <2>1. \A i, j \in 1 .. Len(free_list') :
          free_list'[i] = free_list'[j] => i = j
    <3>1. TAKE i, j \in 1 .. Len(free_list')
    <3>2. free_list' = Tail(free_list)
      BY DEF MknodBegin
    <3>3. /\ i + 1 \in 1 .. Len(free_list) /\ j + 1 \in 1 .. Len(free_list)
          /\ free_list'[i] = free_list[i + 1]
          /\ free_list'[j] = free_list[j + 1] /\ i \in Int /\ j \in Int
      BY <1>3, <3>2
    <3>4. free_list[i + 1] = free_list[j + 1] => i + 1 = j + 1
      BY <3>3, <1>1 DEF KeysApart
    <3>5. QED
      BY <3>3, <3>4
  <2>2. \A k \in PKeys : Free(k)' => Free(k)
    BY <1>11
  <2>3. Free(key)
    BY <1>11
  <2>4. \A p \in Paths, k \in PKeys : Held(p, k)' => ~Free(k)'
    BY <1>1, <1>10, <1>12, <2>2 DEF KeysApart
  <2>5. \A p \in Paths : ~Held(p, key)
    BY <1>1, <1>3, <2>3 DEF KeysApart
  <2>6. \A p, q \in Paths, k \in PKeys : Held(p, k)' /\ Held(q, k)' => p = q
    BY <1>1, <1>10, <2>5 DEF KeysApart
  <2>7. mk'.path \notin DOMAIN key_rpath_map'
    BY <1>1, <1>2 DEF MknodBegin
  <2>8. \A k \in PKeys : Free(k)' \/ \E p \in Paths : Held(p, k)'
    BY <1>1, <1>10, <1>11 DEF KeysApart
  <2>9. QED
    BY <2>1, <2>4, <2>6, <2>7, <2>8 DEF KeysApart
<1>14. Objects'
  <2>1. ASSUME NEW p \in DOMAIN rpath_fileobj
        PROVE  \E k \in PKeys :
                 Held(p, k)' /\ heap'[rpath_fileobj'[p]].file = PlaylistMap[k]
    <3>1. PICK k \in PKeys : /\ Held(p, k)
                             /\ heap[rpath_fileobj[p]].file = PlaylistMap[k]
      BY <1>1 DEF Objects
    <3>2. rpath_fileobj'[p] = rpath_fileobj[p] /\ p # path
      BY <1>6, <1>7
    <3>3. heap'[rpath_fileobj[p]] = heap[rpath_fileobj[p]]
      BY <1>1, <1>5 DEF Types
    <3>4. QED
      BY <3>1, <3>2, <3>3, <1>10
  <2>2. Held(path, key)' /\ heap'[rpath_fileobj'[path]].file = PlaylistMap[key]
    BY <1>4, <1>5, <1>6, <1>10
  <2>3. ASSUME NEW h \in handles'
        PROVE  /\ h.path \in DOMAIN key_rpath_map'
               /\ h.path \in DOMAIN rpath_fileobj'
               /\ rpath_fileobj'[h.path] = h.obj
    <3>1. /\ h.path \in DOMAIN key_rpath_map
          /\ h.path \in DOMAIN rpath_fileobj
          /\ rpath_fileobj[h.path] = h.obj
      BY <1>1 DEF Objects, MknodBegin
    <3>2. h.path # path
      BY <3>1, <1>7
    <3>3. QED
      BY <3>1, <3>2, <1>6 DEF MknodBegin
  <2>4. mk'.path \in DOMAIN rpath_fileobj'
    BY <1>2, <1>6
  <2>5. QED
    BY <1>6, <2>1, <2>2, <2>3, <2>4 DEF Objects
<1>15. Synced'
  <2>1. \A p, k : Held(p, k)' /\ ~(mk'.pc = "fsync" /\ mk'.path = p)
                    => Held(p, k) /\ ~(mk.pc = "fsync" /\ mk.path = p)
    BY <1>1, <1>2, <1>10 DEF Idle
  <2>2. QED
    BY <1>1, <2>1 DEF Synced, MknodBegin
<1>16. QED
  BY <1>8, <1>9, <1>13, <1>14, <1>15 DEF Inv

LEMMA MknodFsyncInv ==
  ASSUME DistinctKeys, Inv, MknodFsync
  PROVE  Inv'
<1> DEFINE o == rpath_fileobj[mk.path]
<1>1. Types /\ Stopped /\ KeysApart /\ Objects /\ Synced /\ mk.pc = "fsync"
  BY DEF Inv, MknodFsync
<1>2. mounted /\ Taken /\ mk.path \in Paths /\ mk.key \in PKeys
  BY <1>1 DEF Taken, Types, Stopped, Idle
<1>3. mk' = [pc |-> "map", path |-> mk.path, key |-> mk.key] /\ Taken'
  BY <1>1 DEF Types, MknodFsync, Taken
<1>4. \A p, k : Held(p, k)' <=> Held(p, k)
  BY <1>2, <1>3 DEF Held, MknodFsync
<1>5. Held(mk.path, mk.key) /\ \A k : Held(mk.path, k) => k = mk.key
  BY <1>1, <1>2 DEF Held, KeysApart
<1>6. o \in 1 .. Len(heap) /\ heap[o].file = PlaylistMap[mk.key]
  BY <1>1, <1>2, <1>5 DEF Objects, Types
<1>7. heap[o] \in Object /\ heap[o].file \in Files
      /\ heap[o].content \in Contents
  <2>1. heap[o] \in Object
    BY <1>1, <1>6 DEF Types
  <2>2. QED
    BY <1>2, <1>6, <2>1, PlaylistFiles DEF Object
<1>8. /\ disk' = [disk EXCEPT ![PlaylistMap[mk.key]] = heap[o].content]
      /\ synced' = [synced EXCEPT ![mk.path] = heap[o].content]
  BY <1>6, <1>7 DEF MknodFsync, Store
<1>9. Types'
  <2>1. /\ disk' \in [Files -> Contents \cup {Raw}]
        /\ synced' \in [Paths -> Contents \cup {Raw}]
    BY <1>1, <1>7, <1>8 DEF Types
  <2>2. QED
    BY <1>1, <1>2, <1>3, <2>1 DEF Types, MknodFsync
<1>10. Stopped'
  BY <1>1, <1>2 DEF Stopped, MknodFsync
<1>11. KeysApart'
  BY <1>1, <1>2, <1>3, <1>4 DEF KeysApart, Free, MknodFsync
<1>12. Objects'
  BY <1>1, <1>2, <1>3, <1>4 DEF Objects, MknodFsync
<1>13. Synced'
  <2>1. ASSUME NEW p \in Paths, NEW k \in PKeys, Held(p, k)
        PROVE  disk'[PlaylistMap[k]] = synced'[p]
    <3>1. CASE p = mk.path
      <4>1. k = mk.key
        BY <1>5, <2>1, <3>1
      <4>2. QED
        BY <3>1, <4>1, <1>1, <1>2, <1>6, <1>7, <1>8 DEF Types
    <3>2. CASE p # mk.path
      <4>1. k # mk.key
        BY <1>1, <1>2, <1>5, <2>1, <3>2 DEF KeysApart
      <4>2. PlaylistMap[k] # PlaylistMap[mk.key] /\ PlaylistMap[k] \in Files
        BY <4>1, <1>2, FilesApart, PlaylistFiles
      <4>3. disk[PlaylistMap[k]] = synced[p]
        BY <1>1, <2>1, <3>2 DEF Synced
      <4>4. QED
        BY <4>2, <4>3, <3>2, <1>1, <1>8 DEF Types
    <3>3. QED
      BY <3>1, <3>2
  <2>2. QED
    BY <1>4, <2>1 DEF Synced
<1>14. QED
  BY <1>9, <1>10, <1>11, <1>12, <1>13 DEF Inv

(* The key goes from the mknod to the map.                                 *)
LEMMA MknodMapInv ==
  ASSUME Inv, MknodMap
  PROVE  Inv'
<1>1. Types /\ Stopped /\ KeysApart /\ Objects /\ Synced /\ mk.pc = "map"
  BY DEF Inv, MknodMap
<1>2. /\ mounted /\ Taken /\ mk.path \in Paths /\ mk.key \in PKeys
      /\ mk.path \notin DOMAIN key_rpath_map
  BY <1>1 DEF Taken, Types, Stopped, Idle, KeysApart
<1>3. /\ mk' = [pc |-> "superblock", path |-> mk.path, key |-> mk.key]
      /\ ~Taken'
  BY <1>1 DEF Types, MknodMap, Taken
<1>4. /\ DOMAIN key_rpath_map' = DOMAIN key_rpath_map \cup {mk.path}
      /\ key_rpath_map'[mk.path] = mk.key
      /\ \A p \in DOMAIN key_rpath_map : key_rpath_map'[p] = key_rpath_map[p]
  BY <1>2 DEF MknodMap, Assign
<1>5. \A p, k : Held(p, k)' <=> Held(p, k)
  BY <1>2, <1>3, <1>4 DEF Held
<1>6. Types'
  <2>1. key_rpath_map' \in [DOMAIN key_rpath_map' -> PKeys]
    BY <1>1, <1>2 DEF Types, MknodMap, Assign
  <2>2. DOMAIN key_rpath_map' \subseteq Paths
    BY <1>1, <1>2, <1>4 DEF Types
  <2>3. QED
    BY <1>1, <1>2, <1>3, <2>1, <2>2 DEF Types, MknodMap
<1>7. Stopped'
  BY <1>1, <1>2 DEF Stopped, MknodMap
<1>8. KeysApart'
  BY <1>1, <1>2, <1>3, <1>5 DEF KeysApart, Free, MknodMap
<1>9. Objects'
  BY <1>1, <1>3, <1>4, <1>5 DEF Objects, MknodMap
<1>10. Synced'
  BY <1>1, <1>5 DEF Synced, MknodMap
<1>11. QED
  BY <1>6, <1>7, <1>8, <1>9, <1>10 DEF Inv

LEMMA MknodSuperblockInv ==
  ASSUME Inv, MknodSuperblock
  PROVE  Inv'
<1>1. Types /\ Stopped /\ KeysApart /\ Objects /\ Synced
      /\ mk.pc = "superblock"
  BY DEF Inv, MknodSuperblock
<1>2. mounted /\ ~Taken /\ mk' = Idle /\ ~Taken'
  BY <1>1 DEF Taken, Types, Stopped, Idle, MknodSuperblock
<1>3. \A p, k : Held(p, k)' <=> Held(p, k)
  BY <1>2 DEF Held, MknodSuperblock
<1>4. Types'
  <2>1. mk' \in [pc : {"idle", "fsync", "map", "superblock"},
                path : Paths \cup {Empty}, key : PKeys \cup {Empty}]
    BY <1>2 DEF Idle
  <2>2. QED
    BY <1>1, <1>2, <2>1 DEF Types, MknodSuperblock
<1>5. Stopped'
  BY <1>1, <1>2 DEF Stopped, MknodSuperblock
<1>6. KeysApart'
  BY <1>1, <1>2, <1>3 DEF KeysApart, Free, MknodSuperblock
<1>7. Objects'
  BY <1>1, <1>2, <1>3 DEF Objects, MknodSuperblock
<1>8. Synced'
  BY <1>1, <1>3 DEF Synced, MknodSuperblock
<1>9. QED
  BY <1>4, <1>5, <1>6, <1>7, <1>8 DEF Inv

-----------------------------------------------------------------------------
(* The other handlers. None of them moves a key.                           *)

LEMMA KeysStay ==
  ASSUME Inv, UNCHANGED <<mounted, free_list, key_rpath_map, key_apath_map,
                          mk>>
  PROVE  /\ KeysApart'
         /\ \A p, k : Held(p, k)' <=> Held(p, k)
         /\ Taken' <=> Taken
  BY DEF Inv, KeysApart, Held, Free, Taken

(* A handler that loads a file: what the object is, and who may find it.   *)
LEMMA LoadObjectInv ==
  ASSUME DistinctKeys, Inv, NEW path, Known(path),
         path \notin DOMAIN rpath_fileobj, LoadObject(path),
         UNCHANGED <<disk, mounted, free_list, key_rpath_map, key_apath_map,
                     mk, synced>>,
         handles' \in {handles,
                       handles \cup {[path |-> path, obj |-> Len(heap) + 1]}}
  PROVE  Inv'
<1>1. Types /\ Stopped /\ KeysApart /\ Objects /\ Synced /\ mounted
      /\ path \in DOMAIN key_rpath_map
  BY DEF Inv, Known
<1>2. path \in Paths /\ key_rpath_map[path] \in PKeys
  BY <1>1 DEF Types
<1> DEFINE key == key_rpath_map[path]
           f   == [file |-> Apath(key), content |-> OnDisk(Apath(key))]
<1>3. Apath(key) = PlaylistMap[key] /\ Apath(key) \in Files
  BY <1>1, <1>2, ApathOfKey
<1>4. f \in Object
  <2>1. OnDisk(Apath(key)) = disk[Apath(key)]
    BY <1>3 DEF OnDisk
  <2>2. disk[Apath(key)] \in Contents \cup {Raw}
    BY <1>1, <1>3 DEF Types
  <2>3. OnDisk(Apath(key)) # Raw
    BY DEF LoadObject
  <2>4. QED
    BY <1>3, <2>1, <2>2, <2>3 DEF Object
<1>5. /\ heap' \in Seq(Object) /\ Len(heap') = Len(heap) + 1
      /\ \A o \in 1 .. Len(heap) : heap'[o] = heap[o]
      /\ heap'[Len(heap) + 1] = f /\ Len(heap) \in Nat
  <2>1. heap' = Append(heap, f)
    BY DEF LoadObject
  <2>2. QED
    BY <1>1, <1>4, <2>1, AppendProperties DEF Types
<1>6. /\ DOMAIN rpath_fileobj' = DOMAIN rpath_fileobj \cup {path}
      /\ rpath_fileobj'[path] = Len(heap) + 1
      /\ \A p \in DOMAIN rpath_fileobj : rpath_fileobj'[p] = rpath_fileobj[p]
  BY DEF LoadObject, Assign
<1>7. /\ KeysApart' /\ (Taken' <=> Taken)
      /\ \A p, k : Held(p, k)' <=> Held(p, k)
  BY KeysStay
<1>8. Types'
  <2>1. \A p \in DOMAIN rpath_fileobj' : rpath_fileobj'[p] \in 1 .. Len(heap')
    BY <1>1, <1>5, <1>6 DEF Types
  <2>2. QED
    BY <1>1, <1>2, <1>5, <1>6, <1>7, <2>1 DEF Types
<1>9. Stopped'
  BY <1>1 DEF Stopped
<1>10. Objects'
  <2>1. ASSUME NEW p \in DOMAIN rpath_fileobj
        PROVE  \E k \in PKeys :
                 Held(p, k)' /\ heap'[rpath_fileobj'[p]].file = PlaylistMap[k]
    <3>1. PICK k \in PKeys : /\ Held(p, k)
                             /\ heap[rpath_fileobj[p]].file = PlaylistMap[k]
      BY <1>1 DEF Objects
    <3>2. rpath_fileobj'[p] = rpath_fileobj[p]
      BY <1>6
    <3>3. heap'[rpath_fileobj[p]] = heap[rpath_fileobj[p]]
      BY <1>1, <1>5 DEF Types
    <3>4. QED
      BY <3>1, <3>2, <3>3, <1>7
  <2>2. \E k \in PKeys :
          Held(path, k)' /\ heap'[rpath_fileobj'[path]].file = PlaylistMap[k]
    <3>1. PICK k \in PKeys : k = key
      BY <1>2
    <3>2. Held(path, k)
      BY <1>1, <3>1 DEF Held
    <3>3. heap'[rpath_fileobj'[path]].file = PlaylistMap[k]
      BY <1>3, <1>5, <1>6, <3>1
    <3>4. QED
      BY <1>7, <3>2, <3>3
  <2>3. ASSUME NEW h \in handles'
        PROVE  /\ h.path \in DOMAIN key_rpath_map'
               /\ h.path \in DOMAIN rpath_fileobj'
               /\ rpath_fileobj'[h.path] = h.obj
    BY <1>1, <1>6 DEF Objects
  <2>4. Taken' => mk'.path \in DOMAIN rpath_fileobj'
    BY <1>1, <1>6, <1>7 DEF Objects
  <2>5. QED
    BY <1>6, <2>1, <2>2, <2>3, <2>4 DEF Objects
<1>11. Synced'
  BY <1>1, <1>7 DEF Synced
<1>12. QED
  BY <1>7, <1>8, <1>9, <1>10, <1>11 DEF Inv

LEMMA OpenExistingInv ==
  ASSUME Inv, NEW path, OpenExisting(path)
  PROVE  Inv'
<1>1. Types /\ Stopped /\ KeysApart /\ Objects /\ Synced
      /\ path \in DOMAIN key_rpath_map /\ path \in DOMAIN rpath_fileobj
      /\ mounted
  BY DEF Inv, OpenExisting, Known
<1>2. /\ KeysApart' /\ (Taken' <=> Taken)
      /\ \A p, k : Held(p, k)' <=> Held(p, k)
  BY KeysStay DEF OpenExisting
<1>3. Types'
  BY <1>1, <1>2 DEF Types, OpenExisting
<1>4. Stopped'
  BY <1>1 DEF Stopped, OpenExisting
<1>5. Objects'
  <2>1. \A h \in handles' : /\ h.path \in DOMAIN key_rpath_map
                            /\ h.path \in DOMAIN rpath_fileobj
                            /\ rpath_fileobj[h.path] = h.obj
    BY <1>1 DEF Objects, OpenExisting
  <2>2. QED
    BY <1>1, <1>2, <2>1 DEF Objects, OpenExisting
<1>6. Synced'
  BY <1>1, <1>2 DEF Synced, OpenExisting
<1>7. QED
  BY <1>2, <1>3, <1>4, <1>5, <1>6 DEF Inv

(* What a handle leads to.                                                 *)
LEMMA HandleObject ==
  ASSUME Inv, NEW h \in handles
  PROVE  /\ mounted /\ h.path \in DOMAIN key_rpath_map /\ h.path \in Paths
         /\ h.obj \in 1 .. Len(heap) /\ heap[h.obj] \in Object
         /\ key_rpath_map[h.path] \in PKeys
         /\ heap[h.obj].file = PlaylistMap[key_rpath_map[h.path]]
<1>1. Types /\ Stopped /\ KeysApart /\ Objects
  BY DEF Inv
<1>2. /\ mounted /\ h.path \in DOMAIN key_rpath_map
      /\ h.path \in DOMAIN rpath_fileobj /\ rpath_fileobj[h.path] = h.obj
  BY <1>1 DEF Stopped, Objects
<1>3. /\ h.path \in Paths /\ h.obj \in 1 .. Len(heap)
      /\ key_rpath_map[h.path] \in PKeys
  BY <1>1, <1>2 DEF Types
<1>4. heap[h.obj] \in Object
  BY <1>1, <1>3 DEF Types
<1>5. PICK k \in PKeys : /\ Held(h.path, k)
                         /\ heap[h.obj].file = PlaylistMap[k]
  BY <1>1, <1>2 DEF Objects
<1>6. k = key_rpath_map[h.path]
  BY <1>1, <1>2, <1>5 DEF Held, KeysApart
<1>7. QED
  BY <1>2, <1>3, <1>4, <1>5, <1>6

LEMMA WriteInv ==
  ASSUME Inv, NEW h \in handles, NEW content \in Contents, Write(h, content)
  PROVE  Inv'
<1> DEFINE f == [heap[h.obj] EXCEPT !.content = content]
<1>1. Types /\ Stopped /\ KeysApart /\ Objects /\ Synced
  BY DEF Inv
<1>2. h.obj \in 1 .. Len(heap) /\ heap[h.obj] \in Object
  BY HandleObject
<1>3. f \in Object /\ f.file = heap[h.obj].file
  BY <1>2 DEF Object
<1>4. /\ heap' \in Seq(Object) /\ Len(heap') = Len(heap)
      /\ \A o \in 1 .. Len(heap) : heap'[o].file = heap[o].file
  <2>1. heap' = [heap EXCEPT ![h.obj] = f]
    BY DEF Write
  <2>2. heap \in Seq(Object)
    BY <1>1 DEF Types
  <2>3. /\ heap' \in Seq(Object) /\ Len(heap') = Len(heap)
        /\ \A o \in 1 .. Len(heap) :
             heap'[o] = IF o = h.obj THEN f ELSE heap[o]
    BY <1>2, <1>3, <2>1, <2>2, ExceptSeq
  <2>4. QED
    BY <1>3, <2>3
<1>5. /\ KeysApart' /\ (Taken' <=> Taken)
      /\ \A p, k : Held(p, k)' <=> Held(p, k)
  BY KeysStay DEF Write
<1>6. Types'
  BY <1>1, <1>4, <1>5 DEF Types, Write
<1>7. Stopped'
  BY <1>1 DEF Stopped, Write
<1>8. Objects'
  <2>1. ASSUME NEW p \in DOMAIN rpath_fileobj
        PROVE  heap'[rpath_fileobj[p]].file = heap[rpath_fileobj[p]].file
    BY <1>1, <1>4 DEF Types
  <2>2. QED
    BY <1>1, <1>5, <2>1 DEF Objects, Write
<1>9. Synced'
  BY <1>1, <1>5 DEF Synced, Write
<1>10. QED
  BY <1>5, <1>6, <1>7, <1>8, <1>9 DEF Inv

LEMMA FsyncInv ==
  ASSUME DistinctKeys, Inv, NEW h \in handles, Fsync(h)
  PROVE  Inv'
<1> DEFINE key == key_rpath_map[h.path]
           content == heap[h.obj].content
<1>1. Types /\ Stopped /\ KeysApart /\ Objects /\ Synced
  BY DEF Inv
<1>2. /\ mounted /\ h.path \in DOMAIN key_rpath_map /\ h.path \in Paths
      /\ heap[h.obj] \in Object /\ key \in PKeys
      /\ heap[h.obj].file = PlaylistMap[key]
  BY HandleObject
<1>3. PlaylistMap[key] \in Files /\ content \in Contents
  BY <1>2, PlaylistFiles DEF Object
<1>4. /\ disk' = [disk EXCEPT ![PlaylistMap[key]] = content]
      /\ synced' = [synced EXCEPT ![h.path] = content]
  BY <1>2, <1>3 DEF Fsync, Store
<1>5. /\ KeysApart' /\ (Taken' <=> Taken)
      /\ \A p, k : Held(p, k)' <=> Held(p, k)
  BY KeysStay DEF Fsync, volatile
<1>6. Types'
  <2>1. /\ disk' \in [Files -> Contents \cup {Raw}]
        /\ synced' \in [Paths -> Contents \cup {Raw}]
    BY <1>1, <1>3, <1>4 DEF Types
  <2>2. QED
    BY <1>1, <1>5, <2>1 DEF Types, Fsync, volatile
<1>7. Stopped'
  BY <1>1 DEF Stopped, Fsync, volatile
<1>8. Objects'
  BY <1>1, <1>5 DEF Objects, Fsync, volatile
<1>9. Synced'
  <2>1. Held(h.path, key) /\ \A k : Held(h.path, k) => k = key
    BY <1>1, <1>2 DEF Held, KeysApart
  <2>2. ASSUME NEW p \in Paths, NEW k \in PKeys, Held(p, k),
               ~(mk.pc = "fsync" /\ mk.path = p)
        PROVE  disk'[PlaylistMap[k]] = synced'[p]
    <3>1. CASE p = h.path
      BY <1>1, <1>2, <1>3, <1>4, <2>1, <2>2, <3>1 DEF Types
    <3>2. CASE p # h.path
      <4>1. k # key
        BY <1>1, <1>2, <2>1, <2>2, <3>2 DEF KeysApart
      <4>2. PlaylistMap[k] # PlaylistMap[key] /\ PlaylistMap[k] \in Files
        BY <4>1, <1>2, FilesApart, PlaylistFiles
      <4>3. disk[PlaylistMap[k]] = synced[p]
        BY <1>1, <2>2 DEF Synced
      <4>4. QED
        BY <4>2, <4>3, <3>2, <1>1, <1>4 DEF Types
    <3>3. QED
      BY <3>1, <3>2
  <2>3. QED
    BY <1>5, <2>2 DEF Synced, Fsync, volatile
<1>10. QED
  BY <1>5, <1>6, <1>7, <1>8, <1>9 DEF Inv

LEMMA CloseInv ==
  ASSUME Inv, NEW h \in handles, Close(h)
  PROVE  Inv'
<1>1. Types /\ Stopped /\ Objects /\ Synced /\ handles' \subseteq handles
  BY DEF Inv, Close
<1>2. /\ KeysApart' /\ (Taken' <=> Taken)
      /\ \A p, k : Held(p, k)' <=> Held(p, k)
  BY KeysStay DEF Close
<1>3. Types'
  BY <1>1, <1>2 DEF Types, Close
<1>4. Stopped'
  BY <1>1 DEF Stopped, Close
<1>5. Objects'
  BY <1>1, <1>2 DEF Objects, Close
<1>6. Synced'
  BY <1>1, <1>2 DEF Synced, Close
<1>7. QED
  BY <1>2, <1>3, <1>4, <1>5, <1>6 DEF Inv

(* Nothing that Inv is about has changed.                                  *)
LEMMA StutterInv ==
  ASSUME Inv, UNCHANGED <<disk, mounted, free_list, key_rpath_map,
                          key_apath_map, rpath_fileobj, heap, handles, mk,
                          synced>>
  PROVE  Inv'
  BY DEF Inv, Types, Stopped, KeysApart, Objects, Synced, Held, Free, Taken

-----------------------------------------------------------------------------
(* What is on disk.                                                        *)

(* What mknod writes into the superblock is what it has in memory.         *)
LEMMA WhatIsWritten ==
  ASSUME DistinctKeys, Inv
  PROVE  LET sb == Serialize(key_rpath_map, free_list)
         IN  /\ sb \in Superblocks
             /\ FilesOf(sb) = key_rpath_map
             /\ sb.free_size = Len(free_list)
             /\ \A j \in 1 .. Len(free_list) : FreeKey(sb, j) = free_list[j]
             /\ FreeOf(sb) = {free_list[j] : j \in 1 .. Len(free_list)}
<1> DEFINE sb == Serialize(key_rpath_map, free_list)
<1>1. Types
  BY DEF Inv
<1>2. PKeys \subseteq Line /\ Paths \subseteq Line
  BY PlaylistFiles, FuseServiceAssumption
<1>3. /\ DOMAIN key_rpath_map \in SUBSET Line
      /\ \A p \in DOMAIN key_rpath_map : key_rpath_map[p] \in Line
      /\ key_rpath_map = [p \in DOMAIN key_rpath_map |-> key_rpath_map[p]]
  BY <1>1, <1>2 DEF Types
<1>4. free_list \in Seq(Line)
  <2>1. free_list \in Seq(PKeys)
    BY <1>1 DEF Types
  <2>2. QED
    BY <2>1, <1>2, SeqMonotonic
<1>5. /\ sb \in Superblocks /\ sb.free_size = Len(free_list)
      /\ sb.map_size = Cardinality(DOMAIN key_rpath_map)
      /\ \A j \in 1 .. Len(free_list) :
           sb.text[2 * Cardinality(DOMAIN key_rpath_map) + j] = free_list[j]
  BY <1>3, <1>4, Text
<1>6. \A j \in 1 .. Len(free_list) : FreeKey(sb, j) = free_list[j]
  BY <1>5 DEF FreeKey
<1>7. /\ FilesOf(sb) = key_rpath_map
      /\ FreeOf(sb) = {free_list[j] : j \in 1 .. Len(free_list)}
  BY <1>3, <1>4, ReadsBack
<1>8. QED
  BY <1>5, <1>6, <1>7

(* What the createfs program writes: nothing.                              *)
LEMMA EmptySuperblock ==
  LET sb == Serialize(EmptyMap, <<>>)
  IN  /\ sb \in Superblocks /\ DOMAIN FilesOf(sb) = {}
      /\ FilesOf(sb) \in [DOMAIN FilesOf(sb) -> PKeys]
      /\ sb.free_size = 0 /\ FreeOf(sb) = {}
<1> DEFINE sb == Serialize(EmptyMap, <<>>)
<1>1. /\ DOMAIN EmptyMap \in SUBSET Line
      /\ \A t \in DOMAIN EmptyMap : EmptyMap[t] \in Line
      /\ EmptyMap = [t \in DOMAIN EmptyMap |-> EmptyMap[t]]
      /\ <<>> \in Seq(Line) /\ Len(<<>>) = 0
      /\ DOMAIN EmptyMap = {} /\ EmptyMap \in [{} -> PKeys]
  BY DEF EmptyMap
<1>2. sb \in Superblocks /\ sb.free_size = 0
  BY <1>1, Text
<1>3. /\ FilesOf(sb) = EmptyMap
      /\ FreeOf(sb) = {<<>>[j] : j \in 1 .. Len(<<>>)}
  BY <1>1, ReadsBack
<1>4. FreeOf(sb) = {}
  BY <1>1, <1>3
<1>5. QED
  BY <1>1, <1>2, <1>3, <1>4

(* At a start the superblock gives back its files and its free keys, these *)
(* in reverse.                                                             *)
LEMMA WhatIsRead ==
  ASSUME SkipWs = TRUE, NEW sb \in Superblocks
  PROVE  /\ Deserialize(sb).map = FilesOf(sb)
         /\ Deserialize(sb).free =
              [j \in 1 .. sb.free_size |-> FreeKey(sb, sb.free_size + 1 - j)]
<1>1. LinesLeft(sb) = sb.text
  BY DEF LinesLeft
<1>2. Deserialize(sb).map = FilesOf(sb)
  BY <1>1 DEF Deserialize, FilesOf
<1>3. sb.map_size \in Nat /\ sb.free_size \in Nat
  BY DEF Superblocks
<1>4. \A j \in 1 .. sb.free_size :
        2 * sb.map_size + sb.free_size + 1 - j
          = 2 * sb.map_size + (sb.free_size + 1 - j)
  BY <1>3
<1>5. QED
  BY <1>1, <1>2, <1>4 DEF Deserialize, FreeKey

(* Nothing is written, and no key changes hands.                           *)
LEMMA SuperStays ==
  ASSUME Super, UNCHANGED <<disk, superblock, synced, mounted, free_list,
                            key_rpath_map, mk>>
  PROVE  Super'
<1>1. InUse'
  BY DEF Super, InUse, Held, Taken
<1>2. Readable'
  BY DEF Super, Readable
<1>3. SuperblockCurrent'
  BY DEF Super, SuperblockCurrent
<1>4. Recoverable'
  BY DEF Super, Recoverable
<1>5. Recorded'
  BY DEF Super, Recorded
<1>6. QED
  BY <1>1, <1>2, <1>3, <1>4, <1>5 DEF Super

LEMMA InitSuper == Init => Super
<1> SUFFICES ASSUME Init
             PROVE  Super
  OBVIOUS
<1>1. /\ superblock = NoSuperblock /\ ~mounted
      /\ DOMAIN key_rpath_map = {} /\ ~Taken
  BY DEF Init, EmptyMap, Taken, Idle
<1>2. InUse
  BY <1>1 DEF InUse, Held
<1>3. QED
  BY <1>1, <1>2 DEF Super, Readable, SuperblockCurrent, Recoverable,
                    Recorded

(* A start with CREATEFS.                                                  *)
LEMMA MountCreateSuper ==
  ASSUME Inv, Super, MountCreate
  PROVE  Super'
<1>1. /\ disk' = disk /\ superblock' = superblock /\ synced' = synced
      /\ key_rpath_map' = key_rpath_map /\ mk' = mk /\ ~mounted
      /\ CreatefsBuild = "once" => superblock = NoSuperblock
  BY DEF MountCreate
<1>2. DOMAIN key_rpath_map = {} /\ mk = Idle
  BY <1>1 DEF Inv, Stopped
<1>3. InUse'
  BY <1>1 DEF Super, InUse, Held, Taken
<1>4. Readable'
  BY <1>1 DEF Super, Readable
<1>5. SuperblockCurrent'
  BY <1>1, <1>2 DEF SuperblockCurrent
<1>6. Recoverable'
  BY <1>1 DEF Recoverable
<1>7. Recorded'
  BY <1>1, <1>2 DEF Recorded
<1>8. QED
  BY <1>3, <1>4, <1>5, <1>6, <1>7 DEF Super

(* createfs, where it is run.                                              *)
LEMMA CreatefsSuper ==
  ASSUME Super, CreatefsProgram, CreatefsBuild = "always"
  PROVE  Super'
<1>1. /\ disk' = disk /\ synced' = synced /\ mk' = mk /\ ~mounted'
      /\ key_rpath_map' = key_rpath_map
      /\ superblock' = Serialize(EmptyMap, <<>>)
  BY DEF CreatefsProgram, volatile
<1>2. InUse'
  BY <1>1 DEF Super, InUse, Held, Taken
<1>3. Readable'
  <2>1. /\ superblock' \in Superblocks /\ DOMAIN FilesOf(superblock') = {}
        /\ FilesOf(superblock') \in [DOMAIN FilesOf(superblock') -> PKeys]
        /\ superblock'.free_size = 0 /\ FreeOf(superblock') = {}
    BY <1>1, EmptySuperblock
  <2>2. QED
    BY <2>1 DEF Readable
<1>4. SuperblockCurrent'
  BY <1>1 DEF SuperblockCurrent
<1>5. Recoverable'
  BY DEF Recoverable
<1>6. Recorded'
  BY <1>1 DEF Recorded
<1>7. QED
  BY <1>2, <1>3, <1>4, <1>5, <1>6 DEF Super

(* What a recorded file holds when the process runs: what was fsynced.     *)
LEMMA RecordedSynced ==
  ASSUME DistinctKeys, Inv, Super, CreatefsBuild = "once",
         superblock # NoSuperblock, NEW p \in DOMAIN FilesOf(superblock)
  PROVE  /\ p \in Paths /\ FilesOf(superblock)[p] \in PKeys
         /\ disk[PlaylistMap[FilesOf(superblock)[p]]] = synced[p]
<1> DEFINE k == FilesOf(superblock)[p]
<1>1. Types /\ KeysApart /\ Synced
  BY DEF Inv
<1>2. p \in Paths /\ k \in PKeys
  BY DEF Super, Readable
<1>3. CASE mounted
  <2>1. p \in DOMAIN key_rpath_map /\ key_rpath_map[p] = k
    BY <1>3 DEF Super, Recoverable
  <2>2. Held(p, k) /\ ~(mk.pc = "fsync" /\ mk.path = p)
    BY <2>1, <1>1 DEF Held, KeysApart, Taken
  <2>3. QED
    BY <2>2, <1>1, <1>2 DEF Synced
<1>4. CASE ~mounted
  BY <1>2, <1>4 DEF Super, Recoverable
<1>5. QED
  BY <1>3, <1>4

(* The process ends: the superblock stays, and is current as of its files. *)
LEMMA ForgetSuper ==
  ASSUME DistinctKeys, Inv, Super, Forget,
         UNCHANGED <<disk, superblock, synced>>
  PROVE  Super'
<1>1. ~mounted' /\ DOMAIN key_rpath_map' = {} /\ ~Taken'
  BY DEF Forget, EmptyMap, Idle, Taken
<1>2. InUse'
  BY <1>1 DEF InUse, Held
<1>3. Readable'
  BY DEF Super, Readable
<1>4. SuperblockCurrent'
  BY <1>1 DEF SuperblockCurrent
<1>5. Recoverable'
  BY <1>1, RecordedSynced DEF Super, Recoverable
<1>6. Recorded'
  BY <1>1 DEF Recorded
<1>7. QED
  BY <1>2, <1>3, <1>4, <1>5, <1>6 DEF Super

(* A mknod begins: its path is held, and its fsync still to come.          *)
LEMMA MknodBeginSuper ==
  ASSUME Inv, Super, NEW path \in Paths, MknodBegin(path)
  PROVE  Super'
<1>1. /\ disk' = disk /\ superblock' = superblock /\ synced' = synced
      /\ key_rpath_map' = key_rpath_map /\ mounted' = mounted
      /\ mk = Idle
      /\ mk' = [pc |-> "fsync", path |-> path, key |-> Head(free_list)]
  BY DEF MknodBegin
<1>2. InUse'
  <2>1. \A p, k : Held(p, k)' /\ ~(mk'.pc = "fsync" /\ mk'.path = p)
                    => Held(p, k) /\ ~(mk.pc = "fsync" /\ mk.path = p)
    BY <1>1 DEF Held, Taken, Idle
  <2>2. QED
    BY <1>1, <2>1 DEF Super, InUse
<1>3. Readable'
  BY <1>1 DEF Super, Readable
<1>4. SuperblockCurrent'
  BY <1>1 DEF SuperblockCurrent, Idle
<1>5. Recoverable'
  BY <1>1 DEF Super, Recoverable
<1>6. Recorded'
  <2>1. mk.path \notin DOMAIN key_rpath_map
    BY <1>1, FuseServiceAssumption DEF Inv, Types, Idle
  <2>2. QED
    BY <1>1, <2>1 DEF Super, Recorded
<1>7. QED
  BY <1>2, <1>3, <1>4, <1>5, <1>6 DEF Super

(* An audio file into which a file is written holds one.                   *)
LEMMA StoreSuper ==
  ASSUME DistinctKeys, Inv, Super, mounted,
         NEW file \in Files, NEW content \in Contents, NEW path \in Paths,
         disk' = [disk EXCEPT ![file] = content],
         synced' = [synced EXCEPT ![path] = content],
         UNCHANGED <<superblock, mounted, key_rpath_map, free_list>>,
         \/ mk' = mk
         \/ /\ mk.pc = "fsync" /\ mk.path = path
            /\ mk' = [pc |-> "map", path |-> mk.path, key |-> mk.key]
  PROVE  Super'
<1>1. Types /\ Raw \notin Contents
  BY FuseServiceAssumption DEF Inv
<1>h. /\ \A p, k : Held(p, k)' <=> Held(p, k)
      /\ mk' = Idle => mk = Idle
      /\ \A p \in Paths : /\ mk.pc = "fsync" /\ mk.path = p
                         /\ ~(mk'.pc = "fsync" /\ mk'.path = p) => p = path
  BY DEF Held, Taken, Idle
<1>2. InUse'
  <2>1. ASSUME NEW p \in Paths, NEW k \in PKeys, Held(p, k),
               ~(mk'.pc = "fsync" /\ mk'.path = p)
        PROVE  synced'[p] # Raw
    <3>1. CASE p = path
      BY <1>1, <3>1 DEF Types
    <3>2. CASE p # path
      <4>1. synced[p] # Raw
        BY <2>1, <3>2, <1>h DEF Super, InUse
      <4>2. QED
        BY <4>1, <3>2, <1>1 DEF Types
    <3>3. QED
      BY <3>1, <3>2
  <2>2. QED
    BY <2>1, <1>h DEF InUse
<1>3. \A f \in Files : disk[f] # Raw => disk'[f] # Raw
  BY <1>1 DEF Types
<1>4. Readable'
  <2>1. ASSUME superblock # NoSuperblock
        PROVE  \A p \in DOMAIN FilesOf(superblock) :
                 /\ FilesOf(superblock)[p] \in PKeys
                 /\ PlaylistMap[FilesOf(superblock)[p]] \in Files
                 /\ disk[PlaylistMap[FilesOf(superblock)[p]]] # Raw
    BY <2>1, PlaylistFiles DEF Super, Readable
  <2>2. superblock # NoSuperblock =>
          \A p \in DOMAIN FilesOf(superblock) :
            disk'[PlaylistMap[FilesOf(superblock)[p]]] # Raw
    BY <1>3, <2>1
  <2>3. QED
    BY <2>2 DEF Super, Readable
<1>5. SuperblockCurrent'
  BY <1>h DEF Super, SuperblockCurrent
<1>6. Recoverable'
  BY DEF Super, Recoverable
<1>7. Recorded'
  BY DEF Super, Recorded
<1>8. QED
  BY <1>2, <1>4, <1>5, <1>6, <1>7 DEF Super

(* The fsync of mknod.                                                     *)
LEMMA MknodFsyncSuper ==
  ASSUME DistinctKeys, Inv, Super, MknodFsync
  PROVE  Super'
<1> DEFINE o == rpath_fileobj[mk.path]
<1>1. Types /\ Stopped /\ KeysApart /\ Objects /\ mk.pc = "fsync"
  BY DEF Inv, MknodFsync
<1>2. mounted /\ Taken /\ mk.path \in Paths /\ mk.key \in PKeys
  BY <1>1 DEF Taken, Types, Stopped, Idle
<1>3. mk' = [pc |-> "map", path |-> mk.path, key |-> mk.key] /\ Taken'
  BY <1>1 DEF Types, MknodFsync, Taken
<1>5. \A k : Held(mk.path, k) => k = mk.key
  BY <1>1, <1>2 DEF Held, KeysApart
<1>6. o \in 1 .. Len(heap) /\ heap[o].file = PlaylistMap[mk.key]
  BY <1>1, <1>2, <1>5 DEF Objects, Types
<1>7. heap[o].file \in Files /\ heap[o].content \in Contents
  <2>1. heap[o] \in Object
    BY <1>1, <1>6 DEF Types
  <2>2. QED
    BY <1>2, <1>6, <2>1, PlaylistFiles DEF Object
<1>8. /\ disk' = [disk EXCEPT ![heap[o].file] = heap[o].content]
      /\ synced' = [synced EXCEPT ![mk.path] = heap[o].content]
      /\ UNCHANGED <<superblock, mounted, key_rpath_map, free_list>>
  BY <1>7 DEF MknodFsync, Store
<1> DEFINE file == heap[o].file
           content == heap[o].content
<1>9. /\ file \in Files /\ content \in Contents
      /\ disk' = [disk EXCEPT ![file] = content]
      /\ synced' = [synced EXCEPT ![mk.path] = content]
  BY <1>7, <1>8
<1> HIDE DEF file, content
<1>10. QED
  BY <1>1, <1>2, <1>3, <1>8, <1>9, StoreSuper

(* An fsync through a handle.                                              *)
LEMMA FsyncSuper ==
  ASSUME DistinctKeys, Inv, Super, NEW h \in handles, Fsync(h)
  PROVE  Super'
<1>1. /\ mounted /\ h.path \in Paths /\ heap[h.obj] \in Object
      /\ key_rpath_map[h.path] \in PKeys
      /\ heap[h.obj].file = PlaylistMap[key_rpath_map[h.path]]
  BY HandleObject
<1>2. heap[h.obj].file \in Files /\ heap[h.obj].content \in Contents
  BY <1>1, PlaylistFiles DEF Object
<1>3. /\ disk' = [disk EXCEPT ![heap[h.obj].file] = heap[h.obj].content]
      /\ synced' = [synced EXCEPT ![h.path] = heap[h.obj].content]
      /\ UNCHANGED <<superblock, mounted, key_rpath_map, free_list, mk>>
  BY <1>2 DEF Fsync, Store, volatile
<1> DEFINE file == heap[h.obj].file
           content == heap[h.obj].content
           path == h.path
<1>4. /\ file \in Files /\ content \in Contents /\ path \in Paths
      /\ disk' = [disk EXCEPT ![file] = content]
      /\ synced' = [synced EXCEPT ![path] = content]
  BY <1>1, <1>2, <1>3
<1> HIDE DEF file, content, path
<1>5. QED
  BY <1>1, <1>3, <1>4, StoreSuper

(* The directory grows.                                                    *)
LEMMA MknodMapSuper ==
  ASSUME Inv, Super, MknodMap
  PROVE  Super'
<1>1. Types /\ Stopped /\ KeysApart /\ mk.pc = "map"
  BY DEF Inv, MknodMap
<1>2. /\ mounted /\ Taken /\ mk.path \in Paths
      /\ mk.path \notin DOMAIN key_rpath_map
  BY <1>1 DEF Taken, Types, Stopped, Idle, KeysApart
<1>3. /\ mk' = [pc |-> "superblock", path |-> mk.path, key |-> mk.key]
      /\ ~Taken'
  BY <1>1 DEF Types, MknodMap, Taken
<1>4. /\ DOMAIN key_rpath_map' = DOMAIN key_rpath_map \cup {mk.path}
      /\ key_rpath_map'[mk.path] = mk.key
      /\ \A p \in DOMAIN key_rpath_map : key_rpath_map'[p] = key_rpath_map[p]
  BY <1>2 DEF MknodMap, Assign
<1>5. \A p, k : Held(p, k)' <=> Held(p, k)
  BY <1>2, <1>3, <1>4 DEF Held
<1>6. /\ disk' = disk /\ superblock' = superblock /\ synced' = synced
      /\ mounted' = mounted
  BY DEF MknodMap
<1>7. InUse'
  BY <1>1, <1>5, <1>6 DEF Super, InUse
<1>8. Readable'
  BY <1>6 DEF Super, Readable
<1>9. SuperblockCurrent'
  BY <1>3 DEF SuperblockCurrent, Idle
<1>10. Recoverable'
  BY <1>2, <1>4, <1>6 DEF Super, Recoverable
<1>11. Recorded'
  BY <1>3, <1>4, <1>6 DEF Super, Recorded
<1>12. QED
  BY <1>7, <1>8, <1>9, <1>10, <1>11 DEF Super

(* The superblock is written: every file in it has been fsynced.           *)
LEMMA MknodSuperblockSuper ==
  ASSUME DistinctKeys, Inv, Super, MknodSuperblock
  PROVE  Super'
<1>1. Types /\ Stopped /\ KeysApart /\ Synced /\ mk.pc = "superblock"
  BY DEF Inv, MknodSuperblock
<1>2. mounted /\ ~Taken /\ mk' = Idle /\ ~Taken'
  BY <1>1 DEF Taken, Types, Stopped, Idle, MknodSuperblock
<1>3. /\ disk' = disk /\ synced' = synced /\ mounted' = mounted
      /\ key_rpath_map' = key_rpath_map /\ free_list' = free_list
      /\ superblock' = Serialize(key_rpath_map, free_list)
  BY DEF MknodSuperblock
<1>4. /\ superblock' \in Superblocks
      /\ FilesOf(superblock') = key_rpath_map
      /\ superblock'.free_size = Len(free_list)
      /\ \A j \in 1 .. Len(free_list) : FreeKey(superblock', j) = free_list[j]
      /\ FreeOf(superblock') = {free_list[j] : j \in 1 .. Len(free_list)}
  BY <1>3, WhatIsWritten
<1>5. \A p, k : Held(p, k) <=> p \in DOMAIN key_rpath_map
                               /\ key_rpath_map[p] = k
  BY <1>2 DEF Held
<1>6. \A p \in DOMAIN key_rpath_map : p \in Paths /\ key_rpath_map[p] \in PKeys
  BY <1>1 DEF Types
<1>7. InUse'
  <2>1. \A p, k : Held(p, k)' <=> Held(p, k)
    BY <1>2, <1>3 DEF Held
  <2>2. QED
    BY <1>1, <1>3, <2>1 DEF Super, InUse
<1>8. Readable'
  <2>1. ASSUME NEW p \in DOMAIN key_rpath_map
        PROVE  disk[PlaylistMap[key_rpath_map[p]]] # Raw
    BY <1>1, <1>5, <1>6 DEF Synced, Super, InUse
  <2>2. \A j \in 1 .. Len(free_list) : free_list[j] \in PKeys
    BY <1>1 DEF Types
  <2>3. key_rpath_map \in [DOMAIN key_rpath_map -> PKeys]
        /\ DOMAIN key_rpath_map \subseteq Paths
    BY <1>1 DEF Types
  <2>4. FreeOf(superblock') =
          {FreeKey(superblock', j) : j \in 1 .. superblock'.free_size}
    BY <1>4
  <2>5. QED
    BY <1>3, <1>4, <2>1, <2>2, <2>3, <2>4 DEF Readable
<1>9. SuperblockCurrent'
  BY <1>3, <1>4 DEF SuperblockCurrent
<1>10. Accounts(superblock')
  <2>1. \A k \in PKeys : \/ \E j \in 1 .. Len(free_list) : free_list[j] = k
                         \/ \E p \in DOMAIN key_rpath_map :
                              key_rpath_map[p] = k
    BY <1>1, <1>2, <1>5 DEF KeysApart, Free
  <2>3. \A p \in DOMAIN key_rpath_map, j \in 1 .. Len(free_list) :
          key_rpath_map[p] # free_list[j]
    BY <1>1, <1>5, <1>6 DEF KeysApart, Free
  <2>4. \A p, q \in DOMAIN key_rpath_map :
          key_rpath_map[p] = key_rpath_map[q] => p = q
    BY <1>1, <1>5, <1>6 DEF KeysApart
  <2>5. \A i, j \in 1 .. Len(free_list) : free_list[i] = free_list[j] => i = j
    BY <1>1 DEF KeysApart
  <2>6. QED
    BY <1>4, <2>1, <2>3, <2>4, <2>5 DEF Accounts
<1>11. Recoverable'
  BY <1>2, <1>3, <1>4, <1>10 DEF Recoverable
<1>12. Recorded'
  <2>1. superblock' # NoSuperblock
    BY <1>4, FuseServiceAssumption
  <2>2. QED
    BY <1>3, <1>4, <2>1 DEF Recorded
<1>13. QED
  BY <1>7, <1>8, <1>9, <1>11, <1>12 DEF Super

(* A start that reads the superblock: what was on disk is in memory.       *)
LEMMA MountReadInv ==
  ASSUME DistinctKeys, SkipWs = TRUE, Inv, Super, MountRead
  PROVE  Inv' /\ Super'
<1> DEFINE sb    == superblock
           files == FilesOf(sb)
           n     == sb.free_size
<1>1. /\ Types /\ Stopped /\ ~mounted /\ CreatefsBuild = "once"
      /\ sb # NoSuperblock
  BY DEF Inv, MountRead
<1>2. /\ sb \in Superblocks /\ n \in Nat
      /\ files \in [DOMAIN files -> PKeys] /\ DOMAIN files \subseteq Paths
      /\ \A j \in 1 .. n : FreeKey(sb, j) \in PKeys
      /\ FreeOf(sb) = {FreeKey(sb, j) : j \in 1 .. n}
      /\ \A p \in DOMAIN files : disk[PlaylistMap[files[p]]] # Raw
  BY <1>1 DEF Super, Readable, Superblocks
<1>3. /\ Accounts(sb)
      /\ \A p \in DOMAIN files : disk[PlaylistMap[files[p]]] = synced[p]
  BY <1>1 DEF Super, Recoverable
<1>4. /\ key_rpath_map' = files /\ mounted'
      /\ free_list' = [j \in 1 .. n |-> FreeKey(sb, n + 1 - j)]
      /\ key_apath_map' = PlaylistMap
      /\ UNCHANGED <<disk, superblock, rpath_fileobj, heap, handles, mk,
                     synced>>
  BY <1>2, WhatIsRead DEF MountRead
<1>5. /\ DOMAIN rpath_fileobj' = {} /\ handles' = {} /\ mk' = Idle /\ ~Taken'
  BY <1>1, <1>4 DEF Stopped, Taken, Idle
<1>6. \A j \in 1 .. n : n + 1 - j \in 1 .. n /\ n + 1 - (n + 1 - j) = j
  BY <1>2
<1>7. /\ free_list' \in Seq(PKeys) /\ Len(free_list') = n
      /\ \A j \in 1 .. n : free_list'[j] = FreeKey(sb, n + 1 - j)
      /\ \A j \in 1 .. n : free_list'[n + 1 - j] = FreeKey(sb, j)
  <2>1. \A j \in 1 .. n : FreeKey(sb, n + 1 - j) \in PKeys
    BY <1>2, <1>6
  <2>2. free_list' \in [1 .. n -> PKeys]
    BY <1>4, <2>1
  <2>3. free_list' \in Seq(PKeys) /\ Len(free_list') = n
    BY <1>2, <2>2
  <2>4. \A j \in 1 .. n : free_list'[j] = FreeKey(sb, n + 1 - j)
    BY <1>4
  <2>5. \A j \in 1 .. n : free_list'[n + 1 - j] = FreeKey(sb, j)
    BY <2>4, <1>6
  <2>6. QED
    BY <2>3, <2>4, <2>5
<1> HIDE DEF sb, files, n
<1>8. \A p, k : Held(p, k)' <=> p \in DOMAIN files /\ files[p] = k
  BY <1>4, <1>5 DEF Held
<1>9. \A k : Free(k)' <=> \E j \in 1 .. n : FreeKey(sb, j) = k
  BY <1>6, <1>7 DEF Free
<1>10. Types'
  BY <1>1, <1>2, <1>4, <1>5, <1>7 DEF Types
<1>11. Stopped'
  BY <1>4 DEF Stopped
<1>12. KeysApart'
  <2>1. /\ \A i, j \in 1 .. n : FreeKey(sb, i) = FreeKey(sb, j) => i = j
        /\ \A p \in DOMAIN files, j \in 1 .. n : files[p] # FreeKey(sb, j)
        /\ \A p, q \in DOMAIN files : files[p] = files[q] => p = q
        /\ \A k \in PKeys : \/ \E j \in 1 .. n : FreeKey(sb, j) = k
                            \/ \E p \in DOMAIN files : files[p] = k
    BY <1>3 DEF Accounts, files, n
  <2>2. ASSUME NEW i \in 1 .. Len(free_list'), NEW j \in 1 .. Len(free_list'),
               free_list'[i] = free_list'[j]
        PROVE  i = j
    <3>1. /\ i \in 1 .. n /\ j \in 1 .. n
          /\ FreeKey(sb, n + 1 - i) = FreeKey(sb, n + 1 - j)
      BY <2>2, <1>7
    <3>2. n + 1 - i = n + 1 - j
      BY <3>1, <2>1, <1>6
    <3>3. QED
      BY <3>1, <3>2, <1>6
  <2>3. \A p \in Paths, k \in PKeys : Held(p, k)' => ~Free(k)'
    BY <2>1, <1>8, <1>9
  <2>4. \A p, q \in Paths, k \in PKeys : Held(p, k)' /\ Held(q, k)' => p = q
    BY <2>1, <1>8
  <2>5. \A k \in PKeys : Free(k)' \/ \E p \in Paths : Held(p, k)'
    BY <2>1, <1>2, <1>8, <1>9
  <2>6. QED
    BY <2>2, <2>3, <2>4, <2>5, <1>5 DEF KeysApart
<1>13. Objects'
  BY <1>5 DEF Objects
<1>14. Synced'
  BY <1>3, <1>4, <1>8 DEF Synced
<1>15. InUse'
  BY <1>2, <1>3, <1>4, <1>8 DEF InUse
<1>16. Readable'
  BY <1>4 DEF Super, Readable
<1>17. SuperblockCurrent'
  <2>1. {free_list'[j] : j \in 1 .. Len(free_list')}
          = {FreeKey(sb, j) : j \in 1 .. n}
    BY <1>6, <1>7
  <2>2. QED
    BY <2>1, <1>2, <1>4 DEF SuperblockCurrent, files, sb
<1>18. Recoverable'
  BY <1>3, <1>4 DEF Recoverable, files, sb
<1>19. Recorded'
  BY <1>1, <1>4 DEF Recorded, files, sb
<1>20. QED
  BY <1>10, <1>11, <1>12, <1>13, <1>14, <1>15, <1>16, <1>17, <1>18, <1>19
  DEF Inv, Super

-----------------------------------------------------------------------------
(* The two builds: the one that there is, which starts with every audio    *)
(* file free, and the one that was meant, which makes its file system once *)
(* and reads the superblock at later starts, white space skipped.          *)
Build == \/ CreatefsBuild = "always"
         \/ CreatefsBuild = "once" /\ SkipWs = TRUE /\ Tool = FALSE

(* A step of the file system.                                              *)
LEMMA NextInv ==
  ASSUME DistinctKeys, Build, Inv, Super, Next
  PROVE  Inv' /\ Super'
<1>1. CASE MountCreate
  BY <1>1, MountCreateInv, MountCreateSuper
<1>2. CASE MountRead
  BY <1>2, MountReadInv DEF MountRead, Build
<1>3. CASE CreatefsProgram
  BY <1>3, StutterInv, CreatefsSuper DEF CreatefsProgram, volatile, Build
<1>4. CASE Stop
  BY <1>4, ForgetInv, ForgetSuper DEF Stop
<1>5. ASSUME NEW p \in Paths, MknodBegin(p)
      PROVE  Inv' /\ Super'
  BY <1>5, MknodBeginInv, MknodBeginSuper
<1>6. ASSUME NEW p \in Paths, MknodFull(p)
      PROVE  Inv' /\ Super'
  BY <1>6, ForgetInv, ForgetSuper DEF MknodFull
<1>7. CASE MknodStep
  BY <1>7, MknodFsyncInv, MknodFsyncSuper, MknodMapInv, MknodMapSuper,
     MknodSuperblockInv, MknodSuperblockSuper DEF MknodStep
<1>8. ASSUME NEW p \in Paths, Getattr(p)
      PROVE  Inv' /\ Super'
  <2>1. handles' \in {handles,
                      handles \cup {[path |-> p, obj |-> Len(heap) + 1]}}
    BY <1>8 DEF Getattr
  <2>2. QED
    BY <1>8, <2>1, LoadObjectInv, SuperStays DEF Getattr
<1>9. ASSUME NEW p \in Paths, OpenExisting(p)
      PROVE  Inv' /\ Super'
  BY <1>9, OpenExistingInv, SuperStays DEF OpenExisting
<1>10. ASSUME NEW p \in Paths, OpenLoad(p)
       PROVE  Inv' /\ Super'
  <2>1. handles' \in {handles,
                      handles \cup {[path |-> p, obj |-> Len(heap) + 1]}}
    BY <1>10 DEF OpenLoad
  <2>2. QED
    BY <1>10, <2>1, LoadObjectInv, SuperStays DEF OpenLoad
<1>11. ASSUME NEW h \in handles, NEW content \in Contents, Write(h, content)
       PROVE  Inv' /\ Super'
  BY <1>11, WriteInv, SuperStays DEF Write
<1>12. ASSUME NEW h \in handles, Fsync(h)
       PROVE  Inv' /\ Super'
  BY <1>12, FsyncInv, FsyncSuper
<1>13. ASSUME NEW h \in handles, Close(h)
       PROVE  Inv' /\ Super'
  BY <1>13, CloseInv, SuperStays DEF Close
<1>14. QED
  BY <1>1, <1>2, <1>3, <1>4, <1>5, <1>6, <1>7, <1>8, <1>9, <1>10, <1>11,
     <1>12, <1>13 DEF Next

(* What is proved of every execution of the file system, in memory and on  *)
(* disk.                                                                   *)
THEOREM Invariance ==
  ASSUME DistinctKeys, Build
  PROVE  Spec => [](Inv /\ Super)
<1>1. Init => Inv /\ Super
  BY InitInv, InitSuper
<1>2. ASSUME Inv /\ Super, [Next]_vars
      PROVE  (Inv /\ Super)'
  <2>1. CASE Next
    BY <1>2, <2>1, NextInv
  <2>2. CASE UNCHANGED vars
    BY <1>2, <2>2, StutterInv, SuperStays DEF vars, volatile
  <2>3. QED
    BY <1>2, <2>1, <2>2
<1>3. QED
  BY <1>1, <1>2, PTL DEF Spec

(* There is one object per file, and every handle leads to it: no two      *)
(* applications work on different copies, however many names, handles,     *)
(* mknods and restarts there are.                                          *)
THEOREM OneObject ==
  ASSUME DistinctKeys, Build
  PROVE  Spec => []SingleObject
<1>1. Inv => SingleObject
  <2> SUFFICES ASSUME Inv
               PROVE  SingleObject
    OBVIOUS
  <2>1. Types /\ Stopped /\ KeysApart /\ Objects
    BY DEF Inv
  <2>2. ASSUME NEW p \in DOMAIN key_rpath_map, p \in DOMAIN rpath_fileobj
        PROVE  heap[rpath_fileobj[p]].file = Apath(key_rpath_map[p])
    <3>1. PICK k \in PKeys : /\ Held(p, k)
                             /\ heap[rpath_fileobj[p]].file = PlaylistMap[k]
      BY <2>1, <2>2 DEF Objects
    <3>2. k = key_rpath_map[p] /\ mounted
      BY <2>1, <3>1 DEF Held, KeysApart, Stopped
    <3>3. QED
      BY <2>1, <3>1, <3>2, ApathOfKey
  <2>3. QED
    BY <2>1, <2>2 DEF Objects, SingleObject
<1>2. QED
  BY <1>1, Invariance, PTL

(* What was fsynced under a name stays on disk under it: no mknod, write   *)
(* or fsync of another name touches it.                                    *)
THEOREM LastSync ==
  ASSUME DistinctKeys, Build
  PROVE  Spec => []LastSyncOnDisk
<1>1. Inv => LastSyncOnDisk
  <2> SUFFICES ASSUME Inv, mounted, NEW p \in DOMAIN key_rpath_map
               PROVE  OnDisk(Apath(key_rpath_map[p])) = synced[p]
    BY DEF LastSyncOnDisk
  <2>1. Types /\ Stopped /\ KeysApart /\ Synced
    BY DEF Inv
  <2>2. PICK k \in PKeys : k = key_rpath_map[p]
    BY <2>1 DEF Types
  <2>3. p \in Paths /\ Held(p, k)
    BY <2>1, <2>2 DEF Types, Held
  <2>4. ~(mk.pc = "fsync" /\ mk.path = p)
    BY <2>1 DEF KeysApart, Taken
  <2>5. disk[PlaylistMap[k]] = synced[p]
    BY <2>1, <2>3, <2>4 DEF Synced
  <2>6. QED
    BY <2>1, <2>2, <2>5, ApathOfKey DEF OnDisk
<1>2. QED
  BY <1>1, Invariance, PTL

(* Every key of the playlist is in one place, for every playlist: no audio *)
(* file leaks, and none is given to two names.                             *)
THEOREM KeysAccountedFor ==
  ASSUME DistinctKeys, Build
  PROVE  Spec => []KeyAccounting
<1>1. Inv => KeyAccounting
  <2> SUFFICES ASSUME Inv, mounted, NEW k \in PKeys
               PROVE  Places(k) = 1
    BY DEF KeyAccounting, PKeys
  <2> DEFINE A == {j \in 1 .. Len(free_list) : free_list[j] = k}
             B == {p \in DOMAIN key_rpath_map : key_rpath_map[p] = k}
             T == IF Taken /\ mk.key = k THEN 1 ELSE 0
  <2>1. Types /\ KeysApart
    BY DEF Inv
  <2>2. Places(k) = Cardinality(A) + Cardinality(B) + T
    BY DEF Places, Taken
  <2>3. Cardinality({}) = 0 /\ \A x : Cardinality({x}) = 1
    BY FS_EmptySet, FS_Singleton
  <2>4. (A = {}) <=> ~Free(k)
    BY DEF Free
  <2>5. \A p \in B : Held(p, k) /\ p \in Paths
    BY <2>1 DEF Held, Types
  <2>6. T = 1 => Taken /\ Held(mk.path, k) /\ mk.path \in Paths
    <3>1. Taken => mk.path \in Paths
      BY <2>1 DEF Types, Taken, Idle
    <3>2. QED
      BY <3>1 DEF Held
  <2>7. T \in {0, 1}
    OBVIOUS
  <2>8. CASE Free(k)
    <3>1. PICK j \in 1 .. Len(free_list) : free_list[j] = k
      BY <2>8 DEF Free
    <3>2. A = {j}
      BY <2>1, <3>1 DEF KeysApart
    <3>3. B = {}
      BY <2>1, <2>5, <2>8 DEF KeysApart
    <3>4. T = 0
      BY <2>1, <2>6, <2>7, <2>8 DEF KeysApart
    <3>5. Cardinality(A) = 1 /\ Cardinality(B) = 0
      BY <2>3, <3>2, <3>3
    <3>6. QED
      BY <2>2, <3>4, <3>5
  <2>9. CASE ~Free(k)
    <3>1. PICK p \in Paths : Held(p, k)
      BY <2>1, <2>9 DEF KeysApart
    <3>2. Cardinality(A) = 0
      BY <2>3, <2>4, <2>9
    <3>3. CASE p \in DOMAIN key_rpath_map /\ key_rpath_map[p] = k
      <4>1. B = {p}
        BY <2>1, <2>5, <3>1, <3>3 DEF KeysApart
      <4>2. T = 0
        BY <2>1, <2>6, <2>7, <3>1, <3>3 DEF KeysApart
      <4>3. Cardinality(B) = 1
        BY <2>3, <4>1
      <4>4. QED
        BY <2>2, <3>2, <4>2, <4>3
    <3>4. CASE Taken /\ mk.path = p /\ mk.key = k
      <4>1. B = {}
        BY <2>1, <2>5, <3>1, <3>4 DEF KeysApart
      <4>2. T = 1
        BY <3>4
      <4>3. Cardinality(B) = 0
        BY <2>3, <4>1
      <4>4. QED
        BY <2>2, <3>2, <4>2, <4>3
    <3>5. QED
      BY <3>1, <3>3, <3>4 DEF Held
  <2>10. QED
    BY <2>8, <2>9
<1>2. QED
  BY <1>1, Invariance, PTL

(* No handler, in whatever order they run, leaves the types: names lead to *)
(* keys of the playlist, and handles to objects that exist.                *)
THEOREM TypeCorrect ==
  ASSUME DistinctKeys, Build
  PROVE  Spec => []TypeOK
<1>1. Inv /\ Super => TypeOK
  <2> SUFFICES ASSUME Inv, Super
               PROVE  TypeOK
    OBVIOUS
  <2>1. Types /\ Stopped /\ Objects
    BY DEF Inv
  <2>2. PKeys \subseteq Keys /\ PKeys \subseteq Line /\ Paths \subseteq Line
    BY PlaylistFiles, FuseServiceAssumption
  <2>3. superblock = NoSuperblock \/ superblock \in Superblocks
    BY DEF Super, Readable
  <2>4. free_list \in Seq(Line)
    <3>1. free_list \in Seq(PKeys)
      BY <2>1 DEF Types
    <3>2. QED
      BY <3>1, <2>2, SeqMonotonic
  <2>5. /\ DOMAIN key_rpath_map \subseteq Paths
        /\ \A p \in DOMAIN key_rpath_map : key_rpath_map[p] \in Keys
        /\ key_rpath_map \in [DOMAIN key_rpath_map -> Line]
    BY <2>1, <2>2 DEF Types
  <2>6. key_rpath_map \in StringMap
    <3>1. DOMAIN key_rpath_map \in SUBSET Line
      BY <2>2, <2>5
    <3>2. QED
      BY <2>5, <3>1 DEF StringMap
  <2>7. \A k \in DOMAIN key_apath_map : key_apath_map[k] \in Files
    BY <2>1, PlaylistFiles DEF Stopped, PKeys
  <2>8. \A o \in ObjIds :
          heap[o] \in [file : Files \cup {NoFile}, content : Contents]
    <3>1. \A o \in ObjIds : heap[o] \in Object
      BY <2>1 DEF Types, ObjIds
    <3>2. QED
      BY <3>1 DEF Object
  <2>9. handles \subseteq [path : Paths, obj : ObjIds]
    <3>1. ASSUME NEW h \in handles
          PROVE  h \in [path : Paths, obj : ObjIds]
      <4>1. h \in [path : Paths, obj : Nat]
        BY <2>1 DEF Types
      <4>2. h.obj \in ObjIds
        BY <2>1 DEF Types, Objects, ObjIds
      <4>3. QED
        BY <4>1, <4>2
    <3>2. QED
      BY <3>1
  <2>10. /\ mk.pc \in {"idle", "fsync", "map", "superblock"}
         /\ mk # Idle => mk.path \in Paths
    BY <2>1 DEF Types
  <2>11. \A p \in DOMAIN rpath_fileobj : rpath_fileobj[p] \in ObjIds
    BY <2>1 DEF Types, ObjIds
  <2>12. /\ disk \in [Files -> Contents \cup {Raw}] /\ mounted \in BOOLEAN
         /\ synced \in [Paths -> Contents \cup {Raw}]
    BY <2>1 DEF Types
  <2>13. QED
    BY <2>3, <2>4, <2>5, <2>6, <2>7, <2>8, <2>9, <2>10, <2>11, <2>12
    DEF TypeOK
<1>2. QED
  BY <1>1, Invariance, PTL

(* Between two mknods the superblock is the directory and the free list.   *)
THEOREM Current ==
  ASSUME DistinctKeys, Build
  PROVE  Spec => []SuperblockCurrent
<1>1. Super => SuperblockCurrent
  BY DEF Super
<1>2. QED
  BY <1>1, Invariance, PTL

(* A crash at any moment leaves a superblock that names only audio files   *)
(* that a hidden file has been written into.                               *)
THEOREM PointsToFiles ==
  ASSUME DistinctKeys, Build
  PROVE  Spec => []SuperblockPointsToFiles
<1>1. Super => SuperblockPointsToFiles
  <2> SUFFICES ASSUME Super, superblock # NoSuperblock,
                      NEW p \in DOMAIN FilesOf(superblock)
               PROVE  OnDisk(PlaylistMap[FilesOf(superblock)[p]]) # Raw
    BY DEF SuperblockPointsToFiles
  <2>1. /\ FilesOf(superblock)[p] \in PKeys
        /\ disk[PlaylistMap[FilesOf(superblock)[p]]] # Raw
    BY DEF Super, Readable
  <2>2. QED
    BY <2>1, PlaylistFiles DEF OnDisk
<1>2. QED
  BY <1>1, Invariance, PTL

(* Every file whose mknod has returned can be found from the disk at every *)
(* moment of every later handler, and is there as it was last fsynced: the *)
(* superblock that the next process would read leads to it (mknod,         *)
(* fuse_service.cc:238). The shipped build writes it all the same, and     *)
(* never reads it.                                                         *)
THEOREM OnRecord ==
  ASSUME DistinctKeys, Build
  PROVE  Spec => []DirectoryRecorded
<1>1. Inv /\ Super => DirectoryRecorded
  <2> SUFFICES ASSUME Inv, Super, mounted,
                      NEW p \in DOMAIN key_rpath_map \ {mk.path}
               PROVE  /\ superblock # NoSuperblock
                      /\ p \in DOMAIN FilesOf(superblock)
                      /\ FilesOf(superblock)[p] = key_rpath_map[p]
                      /\ OnDisk(PlaylistMap[FilesOf(superblock)[p]]) = synced[p]
    BY DEF DirectoryRecorded
  <2>1. Types /\ Synced
    BY DEF Inv
  <2>2. PICK k \in PKeys : k = key_rpath_map[p] /\ p \in Paths /\ Held(p, k)
    BY <2>1 DEF Types, Held
  <2>3. disk[PlaylistMap[k]] = synced[p]
    BY <2>1, <2>2 DEF Synced
  <2>4. OnDisk(PlaylistMap[k]) = synced[p]
    BY <2>3, PlaylistFiles DEF OnDisk
  <2>5. QED
    BY <2>2, <2>4 DEF Super, Recorded
<1>2. QED
  BY <1>1, Invariance, PTL

-----------------------------------------------------------------------------
(* The threads of the handlers. One handler at a time is enough: with it,  *)
(* any number of threads share pcm_buf without harm. The system here is    *)
(* SharedPcm, beside the one above; nothing of either is in the other.     *)
CONSTANTS Threads, Total, Round, Unset, Multi

VARIABLES thread_pc, pos, num_read, i, out, pcm_buf

Pcm == INSTANCE SharedPcm WITH pc <- thread_pc

(* In the loop of fsync.                                                   *)
InCall(t) == thread_pc[t] \in {"fread", "for"}

AnySample == [of : Threads, at : Int, bit : (Threads \X Int) \cup {Unset}]

PcmTypes ==
  /\ thread_pc \in [Threads -> {"idle", "fread", "for", "done"}]
  /\ pos \in [Threads -> 0 .. Total]
  /\ num_read \in [Threads -> Nat]
  /\ i \in [Threads -> Nat \ {0}]
  /\ out \in [Threads -> Seq(AnySample)]
  /\ pcm_buf \in Seq(AnySample)

(* No two of them.                                                         *)
AtMostOne == \A t, u \in Threads : InCall(t) /\ InCall(u) => t = u

(* The samples in the buffer are those of the thread in the loop, covered  *)
(* as far as the loop has got.                                             *)
InLoop(t) ==
  /\ num_read[t] <= Len(pcm_buf) /\ num_read[t] <= pos[t]
  /\ i[t] <= num_read[t] + 1
  /\ \A k \in 1 .. num_read[t] :
       pcm_buf[k] = IF k < i[t] THEN Pcm!Covered(t, pos[t] - num_read[t] + k)
                                ELSE Pcm!Recorded(t, pos[t] - num_read[t] + k)

(* fwrite has written what was read, but for the round that is being       *)
(* covered.                                                                *)
Sent(t) ==
  Len(out[t]) = IF thread_pc[t] = "for" THEN pos[t] - num_read[t] ELSE pos[t]

PcmInv ==
  /\ PcmTypes
  /\ AtMostOne
  /\ \A t \in Threads : thread_pc[t] = "for" => InLoop(t)
  /\ \A t \in Threads : Sent(t)
  /\ Pcm!OwnSamples

(* What a concatenation of samples holds.                                  *)
LEMMA SamplesJoined ==
  ASSUME NEW a \in Seq(AnySample), NEW b \in Seq(AnySample)
  PROVE  /\ Len(a \o b) = Len(a) + Len(b)
         /\ \A k \in 1 .. Len(a) : (a \o b)[k] = a[k]
         /\ \A k \in 1 .. Len(b) : (a \o b)[Len(a) + k] = b[k]
  BY SMTT(30)

(* SetLowBit on one sample of the buffer.                                  *)
LEMMA SampleSet ==
  ASSUME NEW s \in Seq(AnySample), NEW j \in 1 .. Len(s), NEW v
  PROVE  [s EXCEPT ![j].bit = v] = [s EXCEPT ![j] = [s[j] EXCEPT !.bit = v]]
  OBVIOUS

(* What the result assumes: fuse_main's -s, and rounds that read something.*)
OneAtATime ==
  Total \in Nat /\ Round \in Nat \ {0} /\ ~Multi

(* Init.                                                                   *)
LEMMA PcmInit ==
  ASSUME OneAtATime, Pcm!Init
  PROVE  PcmInv
  BY DEF OneAtATime, Pcm!Init, PcmInv, PcmTypes, AtMostOne, InCall, Sent,
     Pcm!OwnSamples

(* fsync begins.                                                           *)
LEMMA PcmBegin ==
  ASSUME OneAtATime, PcmInv, NEW t \in Threads, Pcm!Begin(t)
  PROVE  PcmInv'
  <1>0. PcmTypes /\ AtMostOne /\ Pcm!OwnSamples
        /\ (\A u \in Threads : thread_pc[u] = "for" => InLoop(u))
        /\ \A u \in Threads : Sent(u)
    BY DEF PcmInv
  <1>1. \A u \in Threads : thread_pc[u] \in {"idle", "done"}
    BY DEF Pcm!Begin, OneAtATime
  <1>2. PcmTypes'
    BY <1>0 DEF PcmTypes, Pcm!Begin
  <1>3. /\ thread_pc'[t] = "fread"
        /\ \A u \in Threads \ {t} : thread_pc'[u] = thread_pc[u]
    BY <1>0 DEF PcmTypes, Pcm!Begin
  <1>4. AtMostOne'
    BY <1>1, <1>3 DEF AtMostOne, InCall
  <1>5. \A u \in Threads : thread_pc'[u] # "for"
    BY <1>1, <1>3
  <1>6. \A u \in Threads : Sent(u)'
    BY <1>0, <1>1, <1>5 DEF Pcm!Begin, Sent
  <1>7. Pcm!OwnSamples'
    BY <1>0 DEF Pcm!Begin, Pcm!OwnSamples
  <1>8. QED
    BY <1>2, <1>4, <1>5, <1>6, <1>7 DEF PcmInv

(* fread fills the front of the buffer with the thread's own samples.      *)
LEMMA PcmFRead ==
  ASSUME OneAtATime, PcmInv, NEW t \in Threads, Pcm!FRead(t)
  PROVE  PcmInv'
  <1>0. PcmTypes /\ AtMostOne /\ Pcm!OwnSamples
        /\ \A u \in Threads : Sent(u)
    BY DEF PcmInv
  <1> DEFINE n == Pcm!Asked(t)
  <1>1. n \in Nat /\ n <= Total - pos[t] /\ pos[t] \in 0 .. Total /\ Total \in Nat
    BY <1>0 DEF Pcm!FRead, Pcm!Asked, Pcm!Left, OneAtATime, PcmTypes
  <1>2. /\ pos' = [pos EXCEPT ![t] = @ + n]
        /\ num_read' = [num_read EXCEPT ![t] = n]
        /\ i' = [i EXCEPT ![t] = 1]
        /\ thread_pc' = [thread_pc EXCEPT ![t] = "for"]
        /\ thread_pc[t] = "fread" /\ out' = out
    BY DEF Pcm!FRead
  <1>3. /\ \A k \in 1 .. n : pcm_buf'[k] = Pcm!Recorded(t, pos[t] + k)
        /\ pcm_buf' \in Seq(AnySample)
        /\ n <= Len(pcm_buf')
    <2> DEFINE m == IF n > Len(pcm_buf) THEN n ELSE Len(pcm_buf)
    <2>1. pcm_buf' = [k \in 1 .. m |-> IF k <= n THEN Pcm!Recorded(t, pos[t] + k)
                                                 ELSE pcm_buf[k]]
      BY DEF Pcm!FRead
    <2>2. m \in Nat /\ n <= m /\ (n < m => m = Len(pcm_buf))
      BY <1>0, <1>1 DEF PcmTypes
    <2> HIDE DEF m, n
    <2>3. ASSUME NEW k \in 1 .. m
          PROVE  (IF k <= n THEN Pcm!Recorded(t, pos[t] + k) ELSE pcm_buf[k])
                   \in AnySample
      <3>1. CASE k <= n
        BY <1>1, <3>1 DEF Pcm!Recorded, AnySample
      <3>2. CASE ~(k <= n)
        <4>1. k \in 1 .. Len(pcm_buf)
          BY <1>1, <2>2, <3>2
        <4>2. QED
          BY <1>0, <3>2, <4>1 DEF PcmTypes
      <3>3. QED
        BY <3>1, <3>2
    <2>4. pcm_buf' \in Seq(AnySample) /\ Len(pcm_buf') = m
      BY <2>1, <2>2, <2>3
    <2>5. QED
      BY <1>1, <2>1, <2>2, <2>4
  <1> HIDE DEF n
  <1>4. PcmTypes'
    <2>1. pos' \in [Threads -> 0 .. Total]
      BY <1>0, <1>1, <1>2 DEF PcmTypes
    <2>2. QED
      BY <1>0, <1>1, <1>2, <1>3, <2>1 DEF PcmTypes
  <1>5. \A u \in Threads : InCall(u)' = InCall(u)
    BY <1>0, <1>2 DEF InCall, PcmTypes
  <1>6. AtMostOne'
    BY <1>0, <1>5 DEF AtMostOne
  <1>7. ASSUME NEW u \in Threads, thread_pc'[u] = "for"
        PROVE  InLoop(u)'
    <2>1. u = t
      BY <1>0, <1>2, <1>7 DEF AtMostOne, InCall, PcmTypes
    <2>2. pos'[t] = pos[t] + n /\ num_read'[t] = n /\ i'[t] = 1
      BY <1>0, <1>2 DEF PcmTypes
    <2>3. pos'[t] - num_read'[t] = pos[t]
      BY <1>1, <2>2
    <2>4. QED
      BY <1>1, <1>3, <2>1, <2>2, <2>3 DEF InLoop
  <1>8. ASSUME NEW u \in Threads
        PROVE  Sent(u)'
    <2>1. CASE u = t
      BY <1>0, <1>1, <1>2, <2>1 DEF Sent, PcmTypes
    <2>2. CASE u # t
      BY <1>0, <1>2, <2>2 DEF Sent, PcmTypes
    <2>3. QED
      BY <2>1, <2>2
  <1>9. Pcm!OwnSamples'
    BY <1>0, <1>2 DEF Pcm!OwnSamples
  <1>10. QED
    BY <1>4, <1>6, <1>7, <1>8, <1>9 DEF PcmInv

(* One sample is covered.                                                  *)
LEMMA PcmPutSample ==
  ASSUME OneAtATime, PcmInv, NEW t \in Threads, Pcm!PutSample(t)
  PROVE  PcmInv'
  <1>0. PcmTypes /\ AtMostOne /\ Pcm!OwnSamples /\ InLoop(t)
        /\ \A u \in Threads : Sent(u)
    BY DEF PcmInv, Pcm!PutSample
  <1> DEFINE at == pos[t] - num_read[t] + i[t]
  <1>1. /\ i[t] \in 1 .. Len(pcm_buf) /\ i[t] <= num_read[t]
        /\ num_read[t] \in Nat /\ pos[t] \in Nat /\ at \in Int
    BY <1>0 DEF Pcm!PutSample, PcmTypes, InLoop, OneAtATime
  <1>2. /\ i' = [i EXCEPT ![t] = @ + 1]
        /\ pcm_buf' = [pcm_buf EXCEPT ![i[t]].bit = <<t, at>>]
        /\ UNCHANGED <<thread_pc, pos, num_read, out>>
    BY DEF Pcm!PutSample
  <1>3. pcm_buf[i[t]] = Pcm!Recorded(t, at)
    BY <1>0, <1>1 DEF InLoop
  <1>4. pcm_buf' = [pcm_buf EXCEPT ![i[t]] = Pcm!Covered(t, at)]
    <2> HIDE DEF at
    <2>1. pcm_buf' = [pcm_buf EXCEPT ![i[t]] = [@ EXCEPT !.bit = <<t, at>>]]
      BY <1>0, <1>1, <1>2, SampleSet DEF PcmTypes
    <2>2. [Pcm!Recorded(t, at) EXCEPT !.bit = <<t, at>>] = Pcm!Covered(t, at)
      BY DEF Pcm!Recorded, Pcm!Covered
    <2>3. QED
      BY <1>3, <2>1, <2>2
  <1> HIDE DEF at
  <1>5. Pcm!Covered(t, at) \in AnySample
    BY <1>1 DEF Pcm!Covered, AnySample
  <1>6. pcm_buf' \in Seq(AnySample) /\ Len(pcm_buf') = Len(pcm_buf)
    BY <1>0, <1>1, <1>4, <1>5 DEF PcmTypes
  <1>7. PcmTypes'
    BY <1>0, <1>2, <1>6 DEF PcmTypes
  <1>8. InLoop(t)'
    <2>1. i'[t] = i[t] + 1
      BY <1>0, <1>2 DEF PcmTypes
    <2>2. ASSUME NEW k \in 1 .. num_read[t]
          PROVE  pcm_buf'[k] = IF k < i[t] + 1
                               THEN Pcm!Covered(t, pos[t] - num_read[t] + k)
                               ELSE Pcm!Recorded(t, pos[t] - num_read[t] + k)
      <3>0. k \in 1 .. Len(pcm_buf)
        BY <1>0, <1>1 DEF InLoop, PcmTypes
      <3>1. CASE k = i[t]
        BY <1>0, <1>1, <1>4, <3>0, <3>1 DEF at, PcmTypes
      <3>2. CASE k # i[t]
        <4>1. pcm_buf'[k] = pcm_buf[k]
          BY <1>0, <1>4, <3>0, <3>2 DEF PcmTypes
        <4>2. k < i[t] <=> k < i[t] + 1
          BY <1>1, <3>2
        <4>3. QED
          BY <1>0, <4>1, <4>2 DEF InLoop
      <3>3. QED
        BY <3>1, <3>2
    <2>3. /\ num_read'[t] = num_read[t] /\ pos'[t] = pos[t]
          /\ num_read[t] <= Len(pcm_buf') /\ num_read[t] <= pos[t]
          /\ i'[t] <= num_read[t] + 1
      BY <1>0, <1>1, <1>2, <1>6, <2>1 DEF InLoop, PcmTypes
    <2>4. \A k \in 1 .. num_read'[t] :
            pcm_buf'[k] = IF k < i'[t]
                          THEN Pcm!Covered(t, pos'[t] - num_read'[t] + k)
                          ELSE Pcm!Recorded(t, pos'[t] - num_read'[t] + k)
      BY <2>1, <2>2, <2>3
    <2>5. QED
      BY <2>3, <2>4 DEF InLoop
  <1>9. ASSUME NEW u \in Threads, thread_pc'[u] = "for"
        PROVE  InLoop(u)'
    BY <1>0, <1>2, <1>8, <1>9 DEF AtMostOne, InCall, Pcm!PutSample
  <1>10. QED
    BY <1>0, <1>2, <1>7, <1>9
    DEF PcmInv, AtMostOne, InCall, Sent, Pcm!OwnSamples

(* fwrite appends the round: all its samples are the thread's and covered. *)
LEMMA PcmFWrite ==
  ASSUME OneAtATime, PcmInv, NEW t \in Threads, Pcm!FWrite(t)
  PROVE  PcmInv'
  <1>0. PcmTypes /\ AtMostOne /\ Pcm!OwnSamples /\ InLoop(t)
        /\ (\A u \in Threads : thread_pc[u] = "for" => InLoop(u))
        /\ \A u \in Threads : Sent(u)
    BY DEF PcmInv, Pcm!FWrite
  <1> DEFINE n == num_read[t]
             round == SubSeq(pcm_buf, 1, n)
  <1>1. /\ n \in Nat /\ n <= Len(pcm_buf) /\ n <= pos[t] /\ pos[t] \in Nat
        /\ i[t] = n + 1 /\ pcm_buf \in Seq(AnySample)
        /\ out[t] \in Seq(AnySample) /\ Len(out[t]) = pos[t] - n
    BY <1>0 DEF Pcm!FWrite, PcmTypes, InLoop, OneAtATime, Sent
  <1>2. /\ out' = [out EXCEPT ![t] = @ \o round]
        /\ thread_pc' = [thread_pc EXCEPT ![t] = "fread"] /\ thread_pc[t] = "for"
        /\ UNCHANGED <<pos, num_read, i, pcm_buf>>
    BY DEF Pcm!FWrite
  <1>3. /\ round \in Seq(AnySample) /\ Len(round) = n
        /\ \A k \in 1 .. n : round[k] = Pcm!Covered(t, pos[t] - n + k)
    <2>1. \A k \in 1 .. n : pcm_buf[k] = Pcm!Covered(t, pos[t] - n + k)
      BY <1>0, <1>1 DEF InLoop
    <2>2. round \in Seq(AnySample) /\ Len(round) = n
          /\ \A k \in 1 .. n : round[k] = pcm_buf[k]
      BY <1>1
    <2>3. QED
      BY <2>1, <2>2
  <1> HIDE DEF n, round
  <1>4. out'[t] = out[t] \o round /\ \A u \in Threads \ {t} : out'[u] = out[u]
    BY <1>0, <1>2 DEF PcmTypes
  <1>5. PcmTypes'
    BY <1>0, <1>1, <1>2, <1>3 DEF PcmTypes
  <1>6. /\ Len(out'[t]) = pos[t]
        /\ \A k \in 1 .. Len(out'[t]) : out'[t][k] = Pcm!Covered(t, k)
    <2>0. /\ Len(out'[t]) = Len(out[t]) + n
          /\ \A k \in 1 .. Len(out[t]) : out'[t][k] = out[t][k]
          /\ \A k \in 1 .. n : out'[t][Len(out[t]) + k] = round[k]
      <3> DEFINE a == out[t]
      <3>1. /\ a \in Seq(AnySample) /\ round \in Seq(AnySample)
            /\ out'[t] = a \o round /\ Len(round) = n
        BY <1>1, <1>3, <1>4
      <3> HIDE DEF a
      <3>2. /\ Len(a \o round) = Len(a) + Len(round)
            /\ \A k \in 1 .. Len(a) : (a \o round)[k] = a[k]
            /\ \A k \in 1 .. Len(round) : (a \o round)[Len(a) + k] = round[k]
        BY <3>1, SamplesJoined, Zenon
      <3>3. QED
        BY <3>1, <3>2 DEF a
    <2>1. Len(out'[t]) = pos[t]
      BY <1>1, <2>0
    <2>2. ASSUME NEW k \in 1 .. pos[t]
          PROVE  out'[t][k] = Pcm!Covered(t, k)
      <3>1. CASE k <= Len(out[t])
        <4>1. k \in 1 .. Len(out[t])
          BY <1>1, <3>1
        <4>2. out'[t][k] = out[t][k]
          BY <2>0, <4>1
        <4>3. QED
          BY <1>0, <4>1, <4>2 DEF Pcm!OwnSamples
      <3>2. CASE k > Len(out[t])
        <4> DEFINE j == k - Len(out[t])
        <4>1. j \in 1 .. n /\ Len(out[t]) + j = k /\ pos[t] - n + j = k
          <5> DEFINE l == Len(out[t])
                     p == pos[t]
          <5>1. /\ n \in Nat /\ n <= p /\ p \in Nat /\ l = p - n
                /\ k \in 1 .. p /\ k > l
            BY <1>1, <2>2, <3>2
          <5> HIDE DEF l, p
          <5>2. k - l \in 1 .. n /\ l + (k - l) = k /\ p - n + (k - l) = k
            BY <5>1
          <5>3. QED
            BY <5>2 DEF l, p
        <4> HIDE DEF j
        <4>2. out'[t][k] = round[j]
          BY <2>0, <4>1
        <4>3. QED
          BY <1>3, <4>1, <4>2
      <3>3. QED
        BY <1>1, <3>1, <3>2
    <2>3. QED
      BY <2>1, <2>2
  <1>7. \A u \in Threads : thread_pc'[u] # "for"
    BY <1>0, <1>2 DEF AtMostOne, InCall, PcmTypes
  <1>8. AtMostOne'
    BY <1>0, <1>2 DEF AtMostOne, InCall, PcmTypes
  <1>9. ASSUME NEW u \in Threads
        PROVE  Sent(u)'
    <2>1. CASE u = t
      BY <1>2, <1>6, <1>7, <2>1 DEF Sent
    <2>2. CASE u # t
      <3>1. thread_pc[u] # "for"
        BY <1>0, <1>2, <2>2 DEF AtMostOne, InCall
      <3>2. QED
        BY <1>0, <1>2, <1>4, <1>7, <2>2, <3>1 DEF Sent
    <2>3. QED
      BY <2>1, <2>2
  <1>10. Pcm!OwnSamples'
    BY <1>0, <1>4, <1>6 DEF Pcm!OwnSamples
  <1>11. QED
    BY <1>5, <1>7, <1>8, <1>9, <1>10 DEF PcmInv

(* The end of the audio.                                                   *)
LEMMA PcmEnd ==
  ASSUME OneAtATime, PcmInv, NEW t \in Threads, Pcm!End(t)
  PROVE  PcmInv'
  <1>0. PcmTypes /\ AtMostOne /\ Pcm!OwnSamples
        /\ (\A u \in Threads : thread_pc[u] = "for" => InLoop(u))
        /\ \A u \in Threads : Sent(u)
    BY DEF PcmInv
  <1>1. /\ thread_pc'[t] = "done" /\ thread_pc[t] = "fread"
        /\ \A u \in Threads \ {t} : thread_pc'[u] = thread_pc[u]
        /\ UNCHANGED <<pos, num_read, i, out, pcm_buf>>
    BY <1>0 DEF PcmTypes, Pcm!End
  <1>2. PcmTypes'
    BY <1>0 DEF PcmTypes, Pcm!End
  <1>3. AtMostOne'
    BY <1>0, <1>1 DEF AtMostOne, InCall
  <1>4. \A u \in Threads : Sent(u)'
    BY <1>0, <1>1 DEF Sent
  <1>5. \A u \in Threads : thread_pc'[u] = "for" => InLoop(u)'
    BY <1>0, <1>1 DEF InLoop
  <1>6. QED
    BY <1>0, <1>1, <1>2, <1>3, <1>4, <1>5 DEF PcmInv, Pcm!OwnSamples

(* With one handler at a time (fuse_main's -s) an fsync writes its own     *)
(* samples with its own bits, for any threads, recordings and rounds.      *)
THEOREM Serial ==
  ASSUME Total \in Nat, Round \in Nat \ {0}, ~Multi
  PROVE  Pcm!Spec => []Pcm!OwnSamples
  <1>0. OneAtATime
    BY DEF OneAtATime
  <1>1. Pcm!Init => PcmInv
    BY <1>0, PcmInit
  <1>2. PcmInv /\ [Pcm!Next]_(Pcm!vars) => PcmInv'
    <2>1. ASSUME PcmInv, UNCHANGED Pcm!vars
          PROVE  PcmInv'
      BY <2>1
      DEF Pcm!vars, PcmInv, PcmTypes, AtMostOne, InCall, InLoop, Sent,
         Pcm!OwnSamples
    <2>2. ASSUME PcmInv, Pcm!Next
          PROVE  PcmInv'
      BY <1>0, <2>2, PcmBegin, PcmFRead, PcmPutSample, PcmFWrite, PcmEnd
      DEF Pcm!Next
    <2>3. QED
      BY <2>1, <2>2
  <1>3. PcmInv => Pcm!OwnSamples
    BY DEF PcmInv
  <1>4. QED
    BY <1>1, <1>2, <1>3, PTL DEF Pcm!Spec
=============================================================================
