---------------------------- MODULE FuseService ----------------------------
(***************************************************************************)
(* The file system's handlers, src/src/fuse_service.cc: which audio file   *)
(* (by its key) holds which hidden file, the objects that hold the files   *)
(* in memory, the handles that applications have on them, what is on disk, *)
(* and what is left after the process stops and is started again.          *)
(*                                                                         *)
(* mknod, which writes two audio files, is four steps: it may stop, and    *)
(* the other handlers may run, between them. Every other handler touches   *)
(* one object and is one step; the kernel's inode lock keeps write and     *)
(* fsync of a file apart, and its lock on the directory lets one mknod at  *)
(* a time through and no look-up of the name that is being made. Handlers  *)
(* that change nothing (access, readdir, read, getattr and open of an      *)
(* unknown name, mknod of a known one) are not actions. fsync is taken as  *)
(* a whole: see Fsync for what a crash in the middle of it leaves.         *)
(***************************************************************************)
EXTENDS Superblock

CONSTANTS
  Paths,         (* the names that applications use, "/name"               *)
  Keys,          (* what sha256sum may return                              *)
  Files,         (* audio files, the superblock's not among them           *)
  NoFile,        (* what apath gives for a key that is not in the playlist *)
  KeyOf,         (* sha256sum of each audio file                           *)
  Playlist,      (* the lines of the playlist                              *)
  Contents,      (* what a hidden file may hold                            *)
  Fresh,         (* what it holds after mknod: nothing                     *)
  Raw,           (* an audio file that holds no hidden file                *)
  NoSuperblock,  (* a superblock file that holds none                      *)
  CreatefsBuild, (* "always": CREATEFS is defined, as it is on line 8;     *)
                 (* "once": for the mount that makes the file system, and  *)
                 (* not for later ones, which read the superblock          *)
  Tool,          (* whether the createfs program is run as well            *)
  FsyncReturns   (* FALSE: as compiled. TRUE: with SignedCounter of Fsync  *)

Superblocks == [map_size : Nat, free_size : Nat, text : Seq(Line)]

ASSUME FuseServiceAssumption ==
  /\ Line = Paths \cup Keys \cup {Empty}
  /\ Paths \cap Keys = {} /\ Empty \notin Paths
  /\ KeyOf \in [Files -> Keys] /\ NoFile \notin Files
  /\ Playlist \in Seq(Files) /\ Playlist # <<>>
  /\ Fresh \in Contents /\ Raw \notin Contents
  /\ NoSuperblock \notin Superblocks
  /\ CreatefsBuild \in {"always", "once"}
  /\ Tool \in BOOLEAN /\ FsyncReturns \in BOOLEAN

VARIABLES
  disk,           (* what each audio file holds: a content, or Raw         *)
  superblock,     (* what the superblock file holds                        *)
  mounted,        (* whether the process runs                              *)
  free_list,
  key_rpath_map,
  key_apath_map,
  rpath_fileobj,
  heap,           (* the SFSFSSFSF_File objects: their file and content    *)
  handles,        (* the open handles: the path, and fi->fh                *)
  mk,             (* the mknod that is running                             *)
  synced          (* history: what the last fsync of each path wrote       *)

volatile == <<free_list, key_rpath_map, key_apath_map, rpath_fileobj, heap,
              handles, mk>>
vars == <<disk, superblock, mounted, volatile, synced>>

Idle == [pc |-> "idle", path |-> Empty, key |-> Empty]

Apath(key) == IF key \in DOMAIN key_apath_map THEN key_apath_map[key]
                                              ELSE NoFile

(* What decoding an audio file gives.                                      *)
OnDisk(file) == IF file \in Files THEN disk[file] ELSE Raw

(* fsync of an object that is stored in a file.                            *)
Store(file, content) ==
  disk' = IF file \in Files THEN [disk EXCEPT ![file] = content] ELSE disk

(* The process is gone, and with it everything in memory.                  *)
Forget ==
  /\ mounted' = FALSE
  /\ free_list' = <<>>
  /\ key_rpath_map' = EmptyMap /\ key_apath_map' = EmptyMap
  /\ rpath_fileobj' = EmptyMap
  /\ heap' = <<>> /\ handles' = {} /\ mk' = Idle

-----------------------------------------------------------------------------
(* Start and stop                                                          *)

Init ==
  /\ disk = [f \in Files |-> Raw]
  /\ superblock = NoSuperblock
  /\ mounted = FALSE
  /\ free_list = <<>>
  /\ key_rpath_map = EmptyMap /\ key_apath_map = EmptyMap
  /\ rpath_fileobj = EmptyMap
  /\ heap = <<>> /\ handles = {} /\ mk = Idle
  /\ synced = [p \in Paths |-> Raw]

(* apath(sha256sum(line)) = line, for every line of the playlist.          *)
PlaylistMap ==
  [k \in {KeyOf[Playlist[j]] : j \in 1 .. Len(Playlist)} |->
     Playlist[CHOOSE j \in 1 .. Len(Playlist) :
                /\ KeyOf[Playlist[j]] = k
                /\ \A l \in j + 1 .. Len(Playlist) : KeyOf[Playlist[l]] # k]]

(* free_list.push_front(sha256sum(line)), for every line of the playlist.  *)
PlaylistKeys ==
  [j \in 1 .. Len(Playlist) |-> KeyOf[Playlist[Len(Playlist) + 1 - j]]]

(* init, with CREATEFS defined: every audio file is taken to be free.      *)
MountCreate ==
  /\ ~mounted
  /\ CreatefsBuild = "once" => superblock = NoSuperblock
  /\ mounted' = TRUE
  /\ key_apath_map' = PlaylistMap
  /\ free_list' = PlaylistKeys
  /\ UNCHANGED <<disk, superblock, key_rpath_map, rpath_fileobj, heap,
                 handles, mk, synced>>

(* init, with CREATEFS not defined: the superblock says what is free. It   *)
(* is a file of the system, and its numbers fit the playlist; otherwise    *)
(* the process ends where it started.                                      *)
MountRead ==
  /\ ~mounted
  /\ CreatefsBuild = "once" /\ superblock # NoSuperblock
  /\ superblock.map_size <= Cardinality(DOMAIN PlaylistMap)
  /\ superblock.free_size <= Cardinality(DOMAIN PlaylistMap)
  /\ mounted' = TRUE
  /\ key_apath_map' = PlaylistMap
  /\ key_rpath_map' = Deserialize(superblock).map
  /\ free_list' = Deserialize(superblock).free
  /\ UNCHANGED <<disk, superblock, rpath_fileobj, heap, handles, mk, synced>>

(* The createfs program: a superblock of the empty maps it starts with.    *)
CreatefsProgram ==
  /\ ~mounted /\ Tool
  /\ superblock' = Serialize(EmptyMap, <<>>)
  /\ UNCHANGED <<disk, mounted, volatile, synced>>

(* A crash, a kill, or an unmount: there is no destroy handler.            *)
Stop ==
  /\ mounted
  /\ Forget
  /\ UNCHANGED <<disk, superblock, synced>>

-----------------------------------------------------------------------------
(* mknod                                                                   *)

(* Mutants of MknodBegin: the key is not popped; the object is stored in   *)
(* the last free file and the first one's key is kept; the object is not   *)
(* written.                                                                *)
MknodBeginKeepsKey(p) ==
  /\ mounted /\ mk = Idle /\ p \notin DOMAIN key_rpath_map
  /\ free_list # <<>>
  /\ heap' = Append(heap, [file |-> Apath(Head(free_list)), content |-> Fresh])
  /\ rpath_fileobj' = Assign(rpath_fileobj, p, Len(heap) + 1)
  /\ mk' = [pc |-> "fsync", path |-> p, key |-> Head(free_list)]
  /\ UNCHANGED <<disk, superblock, mounted, free_list, key_rpath_map,
                 key_apath_map, handles, synced>>

MknodBeginMixed(p) ==
  /\ mounted /\ mk = Idle /\ p \notin DOMAIN key_rpath_map
  /\ free_list # <<>>
  /\ free_list' = Tail(free_list)
  /\ heap' = Append(heap, [file |-> Apath(free_list[Len(free_list)]),
                           content |-> Fresh])
  /\ rpath_fileobj' = Assign(rpath_fileobj, p, Len(heap) + 1)
  /\ mk' = [pc |-> "fsync", path |-> p, key |-> Head(free_list)]
  /\ UNCHANGED <<disk, superblock, mounted, key_rpath_map, key_apath_map,
                 handles, synced>>

MknodBeginUnwritten(p) ==
  /\ mounted /\ mk = Idle /\ p \notin DOMAIN key_rpath_map
  /\ free_list # <<>>
  /\ free_list' = Tail(free_list)
  /\ heap' = Append(heap, [file |-> Apath(Head(free_list)), content |-> Fresh])
  /\ rpath_fileobj' = Assign(rpath_fileobj, p, Len(heap) + 1)
  /\ mk' = [pc |-> "map", path |-> p, key |-> Head(free_list)]
  /\ UNCHANGED <<disk, superblock, mounted, key_rpath_map, key_apath_map,
                 handles, synced>>

(* A free audio file is taken and an object made for it.                   *)
MknodBegin(p) ==
  /\ mounted /\ mk = Idle /\ p \notin DOMAIN key_rpath_map
  /\ free_list # <<>>
  /\ free_list' = Tail(free_list)
  /\ heap' = Append(heap, [file |-> Apath(Head(free_list)), content |-> Fresh])
  /\ rpath_fileobj' = Assign(rpath_fileobj, p, Len(heap) + 1)
  /\ mk' = [pc |-> "fsync", path |-> p, key |-> Head(free_list)]
  /\ UNCHANGED <<disk, superblock, mounted, key_rpath_map, key_apath_map,
                 handles, synced>>

(* front and pop_front of an empty list: the process dies of it.           *)
MknodFull(p) ==
  /\ mounted /\ mk = Idle /\ p \notin DOMAIN key_rpath_map
  /\ free_list = <<>>
  /\ Forget
  /\ UNCHANGED <<disk, superblock, synced>>

(* f->fsync()                                                              *)
MknodFsync ==
  /\ mk.pc = "fsync" /\ FsyncReturns
  /\ LET f == heap[rpath_fileobj[mk.path]]
     IN  /\ Store(f.file, f.content)
         /\ synced' = [synced EXCEPT ![mk.path] = f.content]
  /\ mk' = [mk EXCEPT !.pc = "map"]
  /\ UNCHANGED <<superblock, mounted, free_list, key_rpath_map,
                 key_apath_map, rpath_fileobj, heap, handles>>

(* Mutant of MknodMap: the arguments of the assignment swapped.            *)
MknodMapSwapped ==
  /\ mk.pc = "map"
  /\ key_rpath_map' = Assign(key_rpath_map, mk.key, mk.path)
  /\ mk' = [mk EXCEPT !.pc = "superblock"]
  /\ UNCHANGED <<disk, superblock, mounted, free_list, key_apath_map,
                 rpath_fileobj, heap, handles, synced>>

(* key_rpath_map[string(path)] = afile                                     *)
MknodMap ==
  /\ mk.pc = "map"
  /\ key_rpath_map' = Assign(key_rpath_map, mk.path, mk.key)
  /\ mk' = [mk EXCEPT !.pc = "superblock"]
  /\ UNCHANGED <<disk, superblock, mounted, free_list, key_apath_map,
                 rpath_fileobj, heap, handles, synced>>

(* Mutant of MknodSuperblock: the map as it was before this file.          *)
MknodSuperblockEarly ==
  /\ mk.pc = "superblock" /\ FsyncReturns
  /\ superblock' =
       Serialize([p \in DOMAIN key_rpath_map \ {mk.path} |->
                    key_rpath_map[p]], free_list)
  /\ mk' = Idle
  /\ UNCHANGED <<disk, mounted, free_list, key_rpath_map, key_apath_map,
                 rpath_fileobj, heap, handles, synced>>

(* return serialize_superblock()                                           *)
MknodSuperblock ==
  /\ mk.pc = "superblock" /\ FsyncReturns
  /\ superblock' = Serialize(key_rpath_map, free_list)
  /\ mk' = Idle
  /\ UNCHANGED <<disk, mounted, free_list, key_rpath_map, key_apath_map,
                 rpath_fileobj, heap, handles, synced>>

-----------------------------------------------------------------------------
(* The other handlers. A name gets to them once it has been looked up, for *)
(* which the kernel takes the directory's lock.                            *)

Known(p) == mounted /\ p \in DOMAIN key_rpath_map /\ mk.path # p

(* new SFSFSSFSF_File(apath(key_rpath_map[rpath]), "") and                 *)
(* rpath_fileobj[rpath] = f: the file is decoded out of its audio file. An *)
(* audio file without one would end the process: the constructor throws a  *)
(* string literal, which no `catch (char *e)` catches. That is left out    *)
(* because no superblock leads to one (SuperblockPointsToFiles).           *)
LoadObject(p) ==
  LET file == Apath(key_rpath_map[p])
  IN  /\ OnDisk(file) # Raw
      /\ heap' = Append(heap, [file |-> file, content |-> OnDisk(file)])
      /\ rpath_fileobj' = Assign(rpath_fileobj, p, Len(heap) + 1)

(* getattr decodes a file that no handler has met yet.                     *)
Getattr(p) ==
  /\ Known(p) /\ p \notin DOMAIN rpath_fileobj
  /\ LoadObject(p)
  /\ UNCHANGED <<disk, superblock, mounted, free_list, key_rpath_map,
                 key_apath_map, handles, mk, synced>>

(* Mutant of OpenExisting: the object is looked for nowhere, a new one is  *)
(* made for the handle.                                                    *)
OpenExistingAnew(p) ==
  /\ Known(p) /\ p \in DOMAIN rpath_fileobj
  /\ LET f == [file |-> Apath(key_rpath_map[p]),
               content |-> OnDisk(Apath(key_rpath_map[p]))]
     IN  heap' = Append(heap, f)
  /\ handles' = handles \cup {[path |-> p, obj |-> Len(heap) + 1]}
  /\ UNCHANGED <<disk, superblock, mounted, free_list, key_rpath_map,
                 key_apath_map, rpath_fileobj, mk, synced>>

(* open, when there is an object.                                          *)
OpenExisting(p) ==
  /\ Known(p) /\ p \in DOMAIN rpath_fileobj
  /\ handles' = handles \cup {[path |-> p, obj |-> rpath_fileobj[p]]}
  /\ UNCHANGED <<disk, superblock, mounted, free_list, key_rpath_map,
                 key_apath_map, rpath_fileobj, heap, mk, synced>>

(* open, when there is none yet.                                           *)
OpenLoad(p) ==
  /\ Known(p) /\ p \notin DOMAIN rpath_fileobj
  /\ LoadObject(p)
  /\ handles' = handles \cup {[path |-> p, obj |-> Len(heap) + 1]}
  /\ UNCHANGED <<disk, superblock, mounted, free_list, key_rpath_map,
                 key_apath_map, mk, synced>>

(* write: into the object, not to disk.                                    *)
Write(h, content) ==
  /\ heap' = [heap EXCEPT ![h.obj].content = content]
  /\ UNCHANGED <<disk, superblock, mounted, free_list, key_rpath_map,
                 key_apath_map, rpath_fileobj, handles, mk, synced>>

(* fsync                                                                   *)
Fsync(h) ==
  /\ FsyncReturns
  /\ Store(heap[h.obj].file, heap[h.obj].content)
  /\ synced' = [synced EXCEPT ![h.path] = heap[h.obj].content]
  /\ UNCHANGED <<superblock, mounted, volatile>>

(* The application closes a handle. release is not among the operations    *)
(* that fuse_service_ops registers, so no handler hears of it.             *)
Close(h) ==
  /\ handles' = handles \ {h}
  /\ UNCHANGED <<disk, superblock, mounted, free_list, key_rpath_map,
                 key_apath_map, rpath_fileobj, heap, mk, synced>>

-----------------------------------------------------------------------------
MknodStep == MknodFsync \/ MknodMap \/ MknodSuperblock

Next ==
  \/ MountCreate
  \/ MountRead
  \/ CreatefsProgram
  \/ Stop
  \/ \E p \in Paths : MknodBegin(p)
  \/ \E p \in Paths : MknodFull(p)
  \/ MknodStep
  \/ \E p \in Paths : Getattr(p)
  \/ \E p \in Paths : OpenExisting(p)
  \/ \E p \in Paths : OpenLoad(p)
  \/ \E h \in handles, content \in Contents : Write(h, content)
  \/ \E h \in handles : Fsync(h)
  \/ \E h \in handles : Close(h)

Spec == Init /\ [][Next]_vars

-----------------------------------------------------------------------------
(* What the file system promises.                                          *)

ObjIds == 1 .. Len(heap)

TypeOK ==
  /\ disk \in [Files -> Contents \cup {Raw}]
  /\ superblock = NoSuperblock \/ superblock \in Superblocks
  /\ mounted \in BOOLEAN
  /\ free_list \in Seq(Line)
  /\ key_rpath_map \in StringMap
  /\ CreatefsBuild = "always" \/ SkipWs =>
       /\ DOMAIN key_rpath_map \subseteq Paths
       /\ \A p \in DOMAIN key_rpath_map : key_rpath_map[p] \in Keys
  /\ \A k \in DOMAIN key_apath_map : key_apath_map[k] \in Files
  /\ \A p \in DOMAIN rpath_fileobj : rpath_fileobj[p] \in ObjIds
  /\ \A o \in ObjIds :
       heap[o] \in [file : Files \cup {NoFile}, content : Contents]
  /\ handles \subseteq [path : Paths, obj : ObjIds]
  /\ mk.pc \in {"idle", "fsync", "map", "superblock"}
  /\ mk # Idle => mk.path \in Paths
  /\ synced \in [Paths -> Contents \cup {Raw}]

(* How many places hold a key: the free list, the map, a mknod between     *)
(* taking it and storing it.                                               *)
Places(k) ==
  Cardinality({j \in 1 .. Len(free_list) : free_list[j] = k})
  + Cardinality({p \in DOMAIN key_rpath_map : key_rpath_map[p] = k})
  + (IF mk.pc \in {"fsync", "map"} /\ mk.key = k THEN 1 ELSE 0)

(* Every audio file of the playlist is either free or in use by exactly    *)
(* one file, through every mknod, every stop and every start: none leaks,  *)
(* none is given away twice. (free_list, key_rpath_map)                    *)
KeyAccounting ==
  mounted => \A k \in DOMAIN PlaylistMap : Places(k) = 1

(* All handles of a file lead to one object, the one that later opens and  *)
(* getattr find, and that object is stored where the map says: what is     *)
(* written through one handle is read, and fsynced, through every other.   *)
(* (rpath_fileobj, fi->fh)                                                 *)
SingleObject ==
  /\ \A h \in handles : /\ h.path \in DOMAIN rpath_fileobj
                        /\ rpath_fileobj[h.path] = h.obj
  /\ \A p \in DOMAIN key_rpath_map \cap DOMAIN rpath_fileobj :
       heap[rpath_fileobj[p]].file = Apath(key_rpath_map[p])

(* "_fsync()_ write dirty cache" (doc/notes.md:204): the audio file of     *)
(* every file in the directory holds what the file's last fsync wrote,     *)
(* whatever was created, written and fsynced since under other names.      *)
LastSyncOnDisk ==
  mounted => \A p \in DOMAIN key_rpath_map :
               OnDisk(Apath(key_rpath_map[p])) = synced[p]

(* Between two mknods the superblock on disk says what is in memory: which *)
(* files there are, where, and which audio files are free.                 *)
(* (serialize_superblock, called at the end of mknod)                      *)
SuperblockCurrent ==
  mounted /\ mk = Idle /\ DOMAIN key_rpath_map # {} =>
    /\ FilesOf(superblock) = key_rpath_map
    /\ FreeOf(superblock) = {free_list[j] : j \in 1 .. Len(free_list)}

(* At every moment, so after a crash at any moment, the superblock on disk *)
(* names only audio files that a hidden file has been written into: mknod  *)
(* writes the file before the superblock that names it. An audio file      *)
(* without one makes the constructor throw "Not an SFSFSSFSF" through      *)
(* every handler that opens it.                                            *)
SuperblockPointsToFiles ==
  superblock # NoSuperblock =>
    \A p \in DOMAIN FilesOf(superblock) :
      OnDisk(PlaylistMap[FilesOf(superblock)[p]]) # Raw

(* Every file whose mknod has returned can be found from what is on disk,  *)
(* at every moment, so also if the process ends in the middle of another   *)
(* mknod: the superblock names it, with the audio file that memory has for *)
(* it, and that holds what its last fsync wrote. (mknod,                   *)
(* fuse_service.cc:238; fsync, fuse_service.cc:374)                        *)
DirectoryRecorded ==
  mounted =>
    \A p \in DOMAIN key_rpath_map \ {mk.path} :
      /\ superblock # NoSuperblock
      /\ p \in DOMAIN FilesOf(superblock)
      /\ FilesOf(superblock)[p] = key_rpath_map[p]
      /\ OnDisk(PlaylistMap[FilesOf(superblock)[p]]) = synced[p]

(* What was fsynced is there after any crash: the audio file that the      *)
(* superblock on disk names for a path holds what the path's last fsync    *)
(* wrote, in this life of the process or an earlier one.                   *)
SuperblockDurable ==
  superblock # NoSuperblock =>
    \A p \in DOMAIN FilesOf(superblock) :
      OnDisk(PlaylistMap[FilesOf(superblock)[p]]) = synced[p]

(* "after a user designates the superblock file and the encryption key,    *)
(* SFSFSSFSF can search for the rest of the files that make up the         *)
(* filesystem" (doc/writeup.tex:93): after a start the directory is the    *)
(* one that the superblock on disk describes.                              *)
RemountKeepsFiles ==
  [][~mounted /\ mounted' /\ superblock # NoSuperblock
       => key_rpath_map' = FilesOf(superblock)]_vars
=============================================================================
