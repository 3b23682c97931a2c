# A TLA+ verification of SFSFSSFSF

SFSFSSFSF is a FUSE file system that hides its files in the low bits of the
samples of ALAC music files. This directory models it in TLA+, checks the
models with TLC on small instances and proves the properties that matter most
with TLAPS. All paths below are relative to the repository's root; the
program itself is in `src/src`.

## 1. Inventory

| part | source | state | operations |
|---|---|---|---|
| sample arithmetic | `sfsfssfsf.h:32-38`, `sfsfssfsf_file.cc` | none | which 16-bit samples carry a bit; set it, read it |
| writer | `sfsfssfsf_file.cc:163-265` | two pipes to ffmpeg, `pcm_buf`, pointers into header and data, the audio file and its `.tmp` | `encode_bits`, `fsync` |
| reader | `sfsfssfsf_file.cc:3-125` | one pipe, `pcm_buf`, header, data | `decode_bits`, the constructor |
| file in memory | `sfsfssfsf_file.cc:132-161, 290-303` | header, 4 MiB data buffer, `ref_count` | `read`, `write`, `bound_num_bytes`, `get_size`, `retain`, `release` |
| directory | `fuse_service.cc` | `free_list`, `key_rpath_map`, `key_apath_map`, `rpath_fileobj`, handles | FUSE's `init`, `mknod`, `getattr`, `open`, `read`, `write`, `fsync`, `readdir`, `access` |
| superblock | `fuse_service.cc:80-190`, `createfs.cc` | the text in the superblock's audio file | `serialize_superblock`, `deserialize_superblock` |
| keys | `fuse_service.cc:26-77` | a static buffer | `sha256sum` of an audio file's upper bits |
| crypto | `crypto_wrapper.c`, `crypto_aesctr.c`, `sha256.c`, `crypto_scrypt-ref.c` | block cache, MAC, counter, hash buffer | streaming encryption; not called by the file system |
| `flip_lowbits` | `flip_lowbits.c`, `flip_lowbits_cpp.cpp` | as the writer and the reader | a stand-alone earlier codec |

How the parts meet. A FUSE handler finds the file's object by its path
(`rpath_fileobj`) or makes one, which decodes the audio file that `apath(key)`
names. `read` and `write` touch that object's buffer only; `fsync` encodes the
buffer into the audio file through two ffmpeg processes and a rename. `mknod`
takes the head of `free_list`, makes an empty object in that audio file,
fsyncs it, enters path and key in `key_rpath_map` and writes the superblock,
which is a hidden file itself. All parts share the handlers' threads: FUSE
starts several of them, and the maps and `pcm_buf` are global.

What is hard, part by part, and what must be true:

* **writer** - rounds of reads, calls and buffers must not lose, double or
  shift a bit; the end of the audio may come at any sample; it must end; a
  crash must not leave a shortened recording. The output is a cover of the
  recording with the same upper bits, the c-th loud sample carries bit c, the
  rest is untouched, what is published is whole.
* **reader** - must find bit c where the writer put it, and tell a file that is
  cut off from one that is not.
* **file in memory** - offsets at and behind the end, the buffer's capacity,
  the counts that the caller is told.
* **directory** - a key is in one place only; all handles of a file share one
  object; the audio file holds what was last fsynced; a crash between any two
  steps of `mknod` leaves something a new start can use.
* **superblock** - what is read is what was written; nothing is dropped.
* **keys** - a key must not change when its audio file is written.
* **threads** - two handlers in `pcm_buf`, or in the maps, at once.
* **crypto** - the output must not depend on how the stream is cut into calls.
* **`flip_lowbits`** - samples, bits and bytes are counted in rounds of different
  lengths; both programs must end at the end of the audio.

`PROJECT.json` lists every hazard at its line, with the properties that would
see it go wrong.

## 2. Modules

Constant operators:

| module | what it is |
|---|---|
| `LowBits` | sample, byte, `Encodable`, `SetLowBit`, `Carriers` |
| `HiddenFile` | header, buffer, the stream of bits, `Carries` |
| `Superblock` | the superblock's text as a sequence of lines |
| `XorBytes` | a byte as the set of the values that were xored into it |
| `AesCtr` | `crypto_aesctr.c`: the stream's place in its block |
| `Sha256` | `sha256.c`: gathering, counting and padding; HMAC; both also as functions of a whole message |

State machines, with the modules that use them:

| module | what it is |
|---|---|
| `Fsync` | `SFSFSSFSF_File::fsync` with `encode_bits`, sample by sample |
| `FileKey` | extends `Fsync`: the key of an audio file while it is written |
| `MCFsync` | instance of both: 29 recordings, 10 payloads |
| `Load`, `MCLoad` | the constructor with `decode_bits`, sample by sample; 138 audio files |
| `AtomicSave` | abstract: a save takes effect in one step |
| `SaveLoad`, `MCSaveLoad` | `Fsync`, a stop of the process, then `Load`; implements `AtomicSave` |
| `ByteFile` | abstract: a file of bytes, a save, a crash |
| `FileData`, `MCFileData` | a hidden file in memory under its handlers and the kernel; implements `ByteFile` |
| `SharedPcm` | several threads in `encode_bits` with the one `pcm_buf` |
| `FuseService`, `MCFuse` | the handlers, crash and start; uses `Superblock` |
| `CryptoWrapper`, `MCCrypto` | `c_encrypt` and `c_decrypt`; uses `AesCtr` and `Sha256` |
| `FlipLowbits`, `MCFlip` | the stand-alone codec: a run of `-e`, a run of `-d` |

Proofs: `LowBitsProofs`, `FsyncProofs` (with `FileKey`'s), `LoadProofs`,
`SaveLoadProofs`, `FileDataProofs`, `FuseProofs` (with `Superblock`'s and
`SharedPcm`'s), `CryptoProofs` (with `Sha256`'s), `FlipProofs`.

How they are cut. `Fsync` and `Load` know single samples and bits; `SaveLoad`
puts the two together and shows that a save is atomic. That is what allows
`FileData` and `FuseService` to make a save one step: `FileData` keeps bytes,
offsets and counts and has one file, `FuseService` keeps names, keys and objects
and has whole contents. `SharedPcm` keeps threads only, and says what the other
modules assume: one handler in `encode_bits` at a time.

### Fsync

`pc` is where the code is: `loop` is the head of `encode_bits`' outer loop,
`for` its inner loop, `returned` and `test` are in `fsync`. Actions:

| action | code |
|---|---|
| `FRead` | `fread` of one sample per byte still to encode, the `break`, the end-of-file flag |
| `PutSample` | one turn of the inner loop |
| `FWrite` | `fwrite` of the round |
| `EncodeReturn` | -1 at the end of the audio, otherwise the bytes encoded |
| `HeaderDone` | `fsync` looks at the header's result, turns to the data |
| `ChunkDone` | `encode_ptr += num_encoded` |
| `CallChunk` | the loop test and the next call, `still_encoding` included |
| `Publish` | `pclose` twice, `rename` |

ffmpeg is the environment: the decoder supplies the samples of `audio` and then
closes the pipe, the encoder is lossless. `location` changes by the rename
alone. A byte is a function from bit numbers to bits. The pointer's descent
after the end of the audio (it is decremented once per turn, and never read
through) is left out: `base` stays. `err()` only prints, so a `popen` that
fails ends in a null pipe; that is not modelled.

`SignedCounter` chooses the type of `num_encoded`. `FALSE` is the code: a
`size_t`, for which `num_encoded >= 0` always holds. `TRUE` is the `off_t` that
`encode_bits` returns, for which the loop is written. The proofs cover both;
the positive run takes `TRUE`, because nothing is ever published otherwise, and
`fsync_terminates` shows what `FALSE` does.

### Load

The reader in the same style: `FRead` (one sample per *bit* that is missing),
`TakeSample`, `DecodeReturn` with its throw, and the constructor's `CheckMagic`,
`CallChunk`, `ChunkDone`, `Loaded`. A byte is left at the next sample after it is
full, as in the code. A throw ends in `thrown`; `LoadsTheFile` says what an
object holds that was made (also of audio that ends within the file: zeros, and
no bit of a byte that is cut), `RefusesOnlyCut` when a whole file makes none.
`pfi` starts as whatever the memory held (`Garbage`), for
the constructor does not initialise it; `IsMagic` and `SizeOf` read the header.
A size behind the data buffer is not modelled.

### SaveLoad and AtomicSave

`SaveLoad` runs `Fsync` on an audio file that carries an old file already, lets
the process stop at any step (`Stop` forgets the writer's variables), and then
runs `Load` on what is at `location`. `AtomicSave` knows none of this: the stored
file changes in one step (`Commit`), and a reader gets the stored file or an
error. The refinement mapping takes for the stored file the one that the samples
at `location` carry whole (`FileIn`), so an image that mixes the two, or is cut
off, maps to no file and breaks the refinement. `Publish` is the `Commit`; every
other step of the writer and all but the last of the reader are stutters.

### FileKey

`sha256sum` hashes the upper twelve bits of the samples behind the header, where
`decode_bits` leaves the pipe. `HeaderEnd` is that place, `KeyWords` the buffer,
`CString` the string that is made of it and ends at the first zero byte, and
`Sha256sum` has the three outcomes: a throw, the empty key, a hash. The static
buffer's old content is a parameter (`Stale`). `KeyKept` compares the file at
`location` with the recording at every step of a `fsync`.

### FileData and ByteFile

One object, its buffer, `pst_size` and `ref_count`; the open handles; and the
kernel, which knows the size that `getattr` gave last and asks for no byte behind
it. `Mknod`, `GetattrLoads`, `Getattr`, `OpenLoads`, `Open`, `Write`, `Fsync`,
`Close` and `Stop` are the handlers with what they call in the object.
`Close` changes nothing but the handle, since `release` is not among the
registered operations; what it would do if it were is the mutant
`CloseReleases`, which deletes an object that another handle still refers to.
`StoredData` and `LoadedData` move whole chunks, which is how bytes behind the
size get to the disk and back. `read` changes no state; its bounds are
`ReadAsserts` and `BoundNumBytes`.

`ByteFile` is a sequence of bytes with a zero gap in front of a write behind its
end, a save, and a crash that takes it back to what was saved. `last`, the latest
write that was asked for, is in both, so that a write may change what it was
told to and no more (without it a zero gap and a longer write look the same). The
instance's `VIEW` leaves it out of the states that TLC tells apart: only the
step that sets it is judged by it. The mapping takes
the first `pst_size` bytes of the buffer, or of what is stored when there is no
object. Both the `read` and the `write` handler return 0 where FUSE expects a
count, so an application does not get the bytes that this is about; the mapping
is of what `read` copies from.

### SharedPcm

Every thread has a file of its own; a sample is a record of whose it is, where it
was read and which bit is in it. `FRead`, `PutSample` and `FWrite` are as in
`Fsync`, with `pcm_buf` shared. `Multi` is `TRUE` as `main` calls `fuse_main`, and
`FALSE` for a start with `-s`. All samples are loud here and the last round is
the end of the audio.

### FuseService

The state is the code's globals under the code's names, plus `disk` (what each
audio file holds), `superblock`, `heap` and `handles` (objects and the `fi->fh`
that refer to them), `mk` (the progress of a `mknod`) and the history variable
`synced`. `mknod` is four steps (`MknodBegin`, `MknodFsync`, `MknodMap`,
`MknodSuperblock`), between which the process may stop (`Stop`) and other
handlers run. The kernel holds the directory's lock during `mknod`, so there is
one at a time and nobody looks its name up. `fsync` is one step here; `Fsync`
shows that a crash within it leaves the old recording or a whole new one, which
is what makes it one step. Handlers that change nothing are left out.

The superblock is a sequence of lines, the pairs of `key_rpath_map` in the order
of `std::map`, which is that of the names: `Rank` counts the names in use that are
not behind a name, `NameAt` is the name of a rank, `Position` the line of it.

`free_list.front()` on an empty list ends the process (`MknodFull`). The keys are
any function of the audio files; that a file's key does not change is `FileKey`'s.

| constant | as compiled | the other value |
|---|---|---|
| `CreatefsBuild` | `"always"`: `#define CREATEFS` is in the source | `"once"`: the program rebuilt without it after the first mount |
| `SkipWs` | `FALSE`: `//SuperBlock>>ws;` is in comment | `TRUE`: it is not |
| `FsyncReturns` | `FALSE`: the loop of `fsync` does not end | `TRUE`: as `SignedCounter` |
| `Tool` | | whether `createfs` is run as well |

With `FsyncReturns = FALSE` no `mknod` gets past its first step, and no property
of the directory could be wrong; that is the `Fsync` finding again, so the runs
take `TRUE`.

### CryptoWrapper, AesCtr, Sha256

The library parts keep their contexts: `StreamBytes`/`Advanced` are
`crypto_aesctr_stream` with the block that a call may find half used;
`SHA256_Update`, `SHA256_Pad` and `HMAC_SHA256_*` have the code's buffer and
its two-word bit count. AES and the compression function are ideal: a byte of
cipherstream is a value that names its block and place, a state is the sequence
of the blocks that went into it. A byte is the set of what was xored into it, so
that encrypting twice is the identity and nothing else is.

`CryptoWrapper` has one state that encrypts and one that decrypts what the first
has left in its output buffers, in calls of any length with any room. Each is
made by a `c_initialize` of its own, which draws an iv (`Nonces`) and gives it
to nobody, so the two cipherstreams are the same only if the draws are. `Crypt`
has the three outcomes of `c_encrypt` and `c_decrypt`: nothing cached, cached
bytes left over, cache emptied and fresh bytes processed. `EncryptFinalize` puts
out what is cached and then writes the MAC behind the bytes that the call has
*counted*, which are none: the MAC goes over them. `cipher` is all that was put
out, `sent` how much of it is still in front of the MAC, and the decryptor gets
no more than that. `DecryptFinalize` hashes what it has cached, undecrypted, and
the rest, and returns one of `Verdicts`: -1 if the hash differs from the bytes
at the fixed place it looks at, and anything if not, for there is no `return`;
`DecryptFinalizeShort` is the -2. Both finalizers leave a zeroed hash context.
`c_initialize` gives `NULL` always as it is written, because two of its tests
are the wrong way round (section 7), so the runs take `TestsHold = TRUE`, the
tests about what the calls return.

### FlipLowbits

`main` with `-e`, then `main` with `-d` on what is there. Unlike in the file
system, `encode` is one loop over all audio that refills its buffer as it goes,
and `decode_bits` is asked for samples, so its calls end within bytes and
`decode` moves the begun byte to the front of the buffer (`Moved`; when all of
the buffer was written, the byte that is moved is the one behind it, which may be
anything). `pc` also
tells how a run ended: `failed` is `err()`, `smashed` a write behind
`decode_buf`. The property of the decoder excepts calls that began on a full
byte (`slipped`): `decode_bits` leaves that byte only after the move, and what
follows is a byte off.

## 3. Runs

| run | expected | shows |
|---|---|---|
| `fsync_intended` | pass | seven safety properties of the writer, among them that a reader finds in the published image what was written; that the key of the audio file stays; and that `fsync` ends |
| `load` | pass | the constructor decodes bit for bit, gives the file as far as the audio goes and zeros behind, refuses a whole file only if the audio cuts a byte of its padding, and ends |
| `save_atomic` | pass | `SaveLoad` implements `AtomicSave`: 7 files, the recordings with room for two of them, a stop at every step |
| `filedata` | pass | `FileData` implements `ByteFile`; no byte of an earlier file shows in a gap; the kernel asks for no byte that `read` asserts against |
| `fuse_session` | pass | directory properties with the shipped build of `CREATEFS`, and that at every moment the superblock on disk leads to every file whose `mknod` has returned (`DirectoryRecorded`); crashes anywhere, three names and two audio files |
| `fuse_remount` | pass | in a build that reads the superblock and skips the newline: across crash and start no key is lost or given twice, and what the superblock names is what was last fsynced; three audio files. `createfs` is not run (`Tool = FALSE`): the superblock it writes has no key in it (section 7) |
| `crypto` | pass | however the calls are cut, both streams keep their place; the decryptor undoes the encryptor exactly if both drew the same iv; the MAC is HMAC of the ciphertext, and both ends compute the same one where it was written over no ciphertext |
| `flip` | pass | the stand-alone encoder leaves the recording or a whole cover, its decoder gives a prefix of the file, both end |
| `fsync_terminates` | violation | as compiled, `fsync` never ends (`num_encoded` is a `size_t`) |
| `fuse_forgets` | violation | the shipped build never reads the superblock |
| `filedata_overrun` | violation | a write whose end is behind the data buffer goes past it |
| `pcm_threads` | violation | two `fsync`s in two threads put samples and bits into each other's audio |

Bounds.

* `MCFsync` keeps bytes of eight bits (the bit arithmetic is the code's) and
  shrinks the header to one byte, the chunk to two and the buffer to two chunks:
  enough for one call that starts inside the file, one that starts at its end,
  one that is all padding, and for rounds that end within and at a byte. The
  recordings are 0 to 59 samples long (the longest stream is 40 bits, the padding
  16 more), none, a third or half of them silent, the loud ones at both edges of
  the silent band; sizes 0 to 4 are every size that fits. Keys hash two samples
  (`KeyLen`), so recordings end before, in and behind them.
* `MCLoad` and `MCSaveLoad` have a header of two bytes, so that the audio can end
  between the magic and the size, and chunks of three bytes (more than the
  header, as in the code); recordings end in the header, between its bytes, in
  the data, in the padding and behind it.
* `MCFileData`: a buffer of two chunks of two bytes, bytes 0 and 1, every write
  that ends in the buffer (`MaxEnd` 4; 5 in `filedata_overrun`), two handles,
  which are symmetric, and a reference count up to 2. A size can be less than,
  at and more than a chunk, a gap can begin in one chunk and end in the other, and
  the audio may carry anything at the start.
* `MCFuse`: three names for two audio files exhaust the free list; with three
  audio files two can be in use, and one free, when the process stops. A hidden
  file holds one of three contents, so an old one, a new one and an empty one can
  be told apart. `handles` and `heap` are finite because a path gets one object
  per life of the process (`SingleObject` checks it).
* `MCSharedPcm_threads`: two threads, three samples each, rounds of two.
* `MCCrypto`: hash blocks of four bytes, digests of two, cipher blocks of two, a
  bit count whose lower word wraps at 64 (eight bytes), inputs up to 12 bytes in
  calls of 0 to 9 with room for 0 to 9 (`MaxPlain`, `MaxIn`, `MaxOut`): a call
  can be less than a block and more than two, the padding takes one block or two,
  and the count carries. Two ivs, which are symmetric: the two ends draw the same
  one or not.
* `MCFlip`: a header of two bytes, chunks of three, files of 0, 4 and 9 bytes
  (three chunks), ten ways of spreading silence and seven lengths of recording,
  two of them multiples of a round and the others ending in the header, in the
  file and behind it.

Fairness. `Fsync`, `Load` and `FlipLowbits` assume that the thread keeps running
and that ffmpeg keeps its pipes moving (`WF_vars(Next)`): nothing in their loops
waits for anyone else. `FuseService` and `CryptoWrapper` have safety properties
alone and assume nothing.

Deadlock is not checked: the writers, readers and codecs end, the encryption
streams are finalized, and a file system whose superblock does not fit its
playlist does not start.

Every property of a passing run has a mutant in `PROJECT.json`: the change of a
definition, as a slip in that code would make it, under which TLC finds the
property violated. Where the mutated form is long it stands in the module, as
`Mutant of ...`. That a build that reads the superblock without skipping the
newline reads it one line off is shown in this way (`LinesLeftShifted` of
`fuse_remount`).

## 4. Proofs

`LowBitsProofs`: `SetLowBit` gives a sample with the bit asked for and the upper
bits it had (`SetLowBitCorrect`); a sample's being loud does not depend on its
low bit (`EncodableInvariant`, the MUST in `sfsfssfsf.h:33`). The lemmas around
`CarriersNext` count the carriers of a prefix for the other modules.

`FsyncProofs`, for every recording, payload, header length, chunk and buffer
size, under `FsyncAssumption` (a header shorter than a chunk, a buffer of
whole chunks, the `size` within the buffer):

| theorem | property |
|---|---|
| `TypeCorrect` | `TypeOK` |
| `Cover` | `UpperBitsKept` |
| `Placement` | `PayloadPlaced` |
| `PastTheData` | `TailUntouched` |
| `Assertions` | `EncodeAsserts` |
| `Whole` | `LocationWhole` |
| `Publishing` | `PublishedCarries` |

They follow from `Invariance`, that `Inv` is inductive. None of the properties
is so by itself: that a bit lands in the right sample depends on how many
carriers have gone by and how many bits of the call are left. `Inv` says it in
parts: `Reading` (samples read = written + in the round), `Quota` (a round never
holds more samples than the call has bits left, the reason for reading one
sample per byte), `Calls` (which call it is, `base` a multiple of the chunk and
less than a chunk past the size), `Counting` (the carriers passed are
8 * (bytes before + `ptr`) + `bit_index`), `Image` (every decided sample is
right, every other as read) and `Published`. There is one lemma per action.

`Publishing` needs one thing more: a reader counts the loud samples of the
image, the writer those of the recording, and `EncodableInvariant` makes the two
counts one. Its conclusion is the condition of `LoadsTheFile` in `Load`.

`KeyStable` (`KeyKept`), from the same `Inv`, for every recording and whatever
the static buffer held. Two recordings that differ in low bits only (`Similar`)
have the same carriers, therefore the same `HeaderEnd`, and behind it the same
words once four bits are shifted out.

`LoadProofs`, for every audio file, header length, chunk and buffer size, under
`SizesAssumption` and `LoadAssumption` (what a header's magic and size are):
`TypeCorrect` (`TypeOK`), `InOrder` (`BitsInOrder`), `Loading` (`LoadsTheFile`)
and `Refusing` (`RefusesOnlyCut`). `Inv` is built as the writer's: `Reading`,
`Quota` (a round never holds more samples than the call has bits left, so no
call takes a bit that belongs to the next), `Calls`, `Counting` (a bit has been
decoded for every carrier taken) and two parts of its own. `Clean`: the byte
under `decode_ptr` is zero at and behind `bit_index`, for a bit is or-ed in;
that depends on `decode_bits` zeroing each byte as it gets there. `Bits`: every
bit decoded is the low bit of the loud sample that has its number. Two more say
how it ends: `Behind`, that the buffer is zero behind what the call in hand has
decoded, and `Refused`, that a throw comes with a begun byte at the end of the
audio, behind the calls that were whole. `Loading` is about the audio that
carries a file, on the condition that `Publishing` concludes: together they are
the round trip. It is about objects that were made; `Refusing` says which whole
files make none: those whose audio ends within a byte, and before the last byte
of the padding.

`SaveLoadProofs` puts them together: `AtomicSaving` (`SaveIsAtomic`), that a
save, a stop at any step of it, and a load implement `AtomicSave`, for every
recording with room for the files. `SaveLoad` runs `Fsync` and `Load` as
instances, so the proof takes the theorems of `FsyncProofs` and `LoadProofs` as
instances too, and proves their assumptions from `SaveLoadAssumption`. The
invariant is `Stored` (the recording with the old file is at `location` until
`fsync` has returned, then one that carries the new file whole), `Saving` (the
writer's `Inv`, while it runs) and `Loading` (the reader's, after the stop, on what
is at `location`).

`FileDataProofs`, for every chunk, buffer, set of handles and `MaxEnd`:
`TypeCorrect`, `Gaps` (`GapsAreZero`), `ReadsInside` (`KernelReadsInside`) and,
if `MaxEnd <= Capacity`, `Refinement` (`IsByteFile`). A zero gap in memory is
not inductive: it comes back from the disk with the next load. `Inv` adds that
what is stored is zero from its size to the end of its last chunk
(`PaddingStoredZero`), which holds because `fsync` writes whole chunks of a
buffer whose rest is zero; and that the kernel's size is at most the object's,
which holds because nothing shrinks an object.

`FuseProofs`, for any number of names, audio files and contents, if no two lines
of the playlist have one key (`DistinctKeys`; with a line twice in the playlist
two files get one audio file):

| theorem | property | builds |
|---|---|---|
| `OneObject` | `SingleObject` | both |
| `LastSync` | `LastSyncOnDisk` | both |
| `KeysAccountedFor` | `KeyAccounting` | both |
| `TypeCorrect` | `TypeOK` | both |
| `Current` | `SuperblockCurrent` | both |
| `PointsToFiles` | `SuperblockPointsToFiles` | both |
| `OnRecord` | `DirectoryRecorded` | both |

The builds are `CreatefsBuild = "always"`, the shipped one, and `"once"` with
the newline skipped (`SkipWs`) and no `createfs` run beside it (`~Tool`);
`Build` says one of the two. No build of this source is the second one: it is
what the start is written for, and the invariant is proved of both so that
`MountRead` is in it. What is particular to it stays with TLC
(`SuperblockDurable` in `fuse_remount`). `Inv` counts a key that a running
`mknod` has taken as held by the path that is being made (`Held`), so that the
step from "taken" to "in the map" changes nothing; held keys are not free and
not held twice (`KeysApart`); every object is stored in the file of the key its
path holds (`Objects`); a held key's file is up to date but for the path whose
first `fsync` is still to come (`Synced`). `Super` says of the superblock what
the next start needs: its text can be read back and names audio files that hold
a file (`Readable`); it is that of the present map but within `mknod`
(`SuperblockCurrent`); where it is read, it has every key in one place, and what
it names is in memory under the same name, or, after a stop, was last fsynced as
it is on the disk (`Recoverable`); for that, a file whose first fsync is over
holds a content (`InUse`). `Recorded` is the converse of `SuperblockCurrent`,
and in both builds: the text leads to every file of the present map but the one
that is being made. `OnRecord` needs it and `Synced`. The start is the step that
uses all of it: it needs that `Deserialize` inverts `Serialize`, which is proved
line by line (`Rank` and `NameAt` are inverses on the names in use).

The last section of the same module is about threads: `Serial`, that
`OwnSamples` of `SharedPcm` holds with one handler at a time, for any number of
threads, any recordings and rounds. It is the property that `pcm_threads` shows
violated; together they say that `-s` is what is missing.

`CryptoProofs`, for every block size, input, cut and room, and any set of ivs:
`InOrder` (`EncryptsInOrder`) and `Back` (`DecryptsBack`), each end with the iv it
drew. `Back` says both ways round that a byte comes back if and only if the ivs
are one: with two ivs none does. `Placed` is where a stream
is: `bytectr` counts the bytes that came out, and `buf` is the block that the last
of them was in, which lets a call begin inside a block. `Does` says of a call
that it did its part of all bytes it was responsible for, cached or fresh; the
three outcomes of `Crypt` are one lemma each. `NoState` says that `NULL` is no
record.

`Mac` (`MacOfCiphertext`) and `Agree` (`TagsAgree`) compare the hashing with its
definition over a whole message, for every hash block, digest, key and width of
the bit count; `Agree` on the condition that the finalizer had nothing cached to
put out, for otherwise its MAC is written over that and the two ends hash
different bytes. `Holds` says which message a context was given: the count is
that of its bytes, with the carry between the two words (`CountAdds`), its whole
blocks are transformed (`BlocksOf`), the bytes behind them are in the buffer,
with anything behind those. `UpdateHolds` says that `SHA256_Update` takes a
context of m to a context of m with s behind it, whether s fills the buffer or
not; `FinalIsSha` that padding it gives the blocks of the padded message, the
count's last place in a block or in one more. `Keyed` is the same of HMAC's two
contexts. `Macs` says that each end has hashed the ciphertext that it has put
out, or decrypted (after a finalize that failed, all that it was fed). On the
decrypting side that is a matter of place: what `c_decrypt` hashes begins where
the last call's output ended, cached bytes first.

`FlipProofs`, for every audio file, file to hide, header and chunk size, under
`FlipAssumption` (a header shorter than a chunk, that has the magic and the file's
size where they are looked for): `Whole` (`LocationWhole`) and `Prefix`
(`DecodesPrefix`). Both programs count samples, bits and bytes in loops of
different lengths, and `Inv` is what keeps the counts together.

* The encoder: `EncBuffer`, what is in `encode_buf`, the header or a chunk, is the
  part of the stream that is to be put in next, so that a refill changes the
  buffer and not what is in it; `EncCounting`, the loud samples passed are the
  bits put in; `EncImage`, every sample decided so far is that of the finished
  cover. `Publish` needs all of the audio read (`EncReading`).
* The decoder, on a recording that was covered and as long as `bit_index` has not
  slipped: `DecCounting`, the loud samples taken are the bits counted, over the
  header's loop, which counts to the header's length, the data's loop, which
  begins again behind it, and what is left in the buffer between them; `Bits`,
  every bit in the buffer is the stream's at its place, and those behind the next
  one in its byte are zero, for they are or-ed in; `Phase`, the header believed is
  the file's; `Writing`, what was written is a beginning of the file. The step
  that uses all of it is `WriteBytes`, which writes the whole bytes and moves the
  begun one: the bytes that have left the buffer are those written.

A decoder that slips is not excused by this: that the code can slip is section 7.

Only model-checked: that `fsync`, the constructor and the stand-alone programs
end, which is liveness under fairness and out of this prover's reach
(`FsyncWrites`, `Ends`, `BothEnd`); and `SuperblockDurable`, which is about a build
that this source does not make. Every other property of a passing run is a
theorem.

## 5. Plan

1. What `flip_lowbits -d` needs of a recording so that no call of `decode_bits`
   begins on a full byte, as a condition on the silence in it: `Prefix` without
   its hypothesis for those recordings.
2. The lemmas about `Carries` and `Carriers` that `FsyncProofs`, `LoadProofs` and
   `FlipProofs` each have in a form of their own, in `LowBitsProofs`.

## 6. Not modelled

* `hellofs.c`, the scripts and the drivers in `src/test` hold no state of the
  system; `flip_lowbits_cpp.cpp` is an unfinished copy that is not built.
* `resources` is third-party code (ALAC, pigz, scrypt) that is kept for reference
  and neither built nor called. It is most of the lines of the repository.
* scrypt and PBKDF2 are pure functions over large arrays, without state between
  calls; AES and the SHA-256 compression function are ideal.
* Failures of `popen`, `fwrite`, `malloc` and the disk are only printed by the
  program, or not looked at. Times in `pstat` are opaque header bytes.
* Two threads in one `std::map` are undefined behaviour of the library;
  `FuseService` makes each map operation one step, which is what a lock would
  give. `decode_bits` has a static `pcm_buf` of its own, shared in the same way
  as the one in `SharedPcm`.
* The size in a header is trusted by the constructor; a size behind the data
  buffer is not modelled.

## 7. Seen while modelling, without a run of its own

* The check for a header that did not fit (`sfsfssfsf_file.cc:249`) compares with
  0, and `encode_bits` gives -1 at the end of the audio; `fsync` then goes on,
  with a cut header.
* A file cut by the end of the audio at a byte is loaded without an error
  (`sfsfssfsf_file.cc:110`); audio that ends within a byte of the padding of the
  last chunk makes a whole file unreadable (`sfsfssfsf_file.cc:40`).
  `RefusesOnlyCut` says that this is the only way to refuse one.
* The `read` and `write` handlers return 0 where FUSE expects the count
  (`fuse_service.cc:357`, `369`).
* A playlist line that comes twice, or two files with one key, gives one audio
  file to two hidden files (`fuse_service.cc:212`).
* The `createfs` program reads the playlist and then writes a superblock with no
  free key (`createfs.cc:41`), where `doc/notes.md:21` has the free list hold the
  keys of every audio file that stores nothing yet. A build that reads it has lost
  every key, and its first `mknod` ends the process. `fuse_remount` leaves the
  program out (`Tool = FALSE`), so its `KeyAccounting` does not speak of it; with
  `Tool = TRUE` TLC finds it violated.
* A build without `CREATEFS` reads the superblock one line off
  (`fuse_service.cc:126`): the line that would skip the newline is in comment.
* `sha256sum`'s buffer is static: audio with fewer samples than a key takes is
  filled up with what the file before left, and the terminating zero is written
  one element behind the hash's buffer (`fuse_service.cc:53`, `70`).
* `c_initialize` always returns `NULL`: it compares `fread`'s item count with a
  size, and takes `AES_set_encrypt_key`'s 0 for an error; it also closes its file
  twice. Were the tests right, no decryptor could be made for what an encryptor
  wrote: every call draws its own iv (`crypto_wrapper.c:40`), and none writes it
  out or takes one.
* After it has emptied its cache `c_encrypt` processes the fresh bytes with no
  room and returns 0, so what it put out of the cache is not reported
  (`crypto_wrapper.c:104`); `c_encrypt_finalize` writes the MAC over it (line 187).
  `c_decrypt_finalize` compares with the bytes from 32 on, wherever the MAC is (line
  211), and returns nothing when they are equal.
* `flip_lowbits -d` needs at least eight bits behind the header in the call
  that completes it, slips by a byte after a call that ends on a byte, and can
  write one byte behind `decode_buf`; it drops the bits of its last call at the
  end of the audio. `flip_lowbits -e` refuses audio whose length is a multiple of
  its buffer.
