# TLA+ models of cripto_endevs_comunity (CryptoNugget)

Models, model-checking runs and proofs for the stateful parts of the crate:
the anti-replay windows, the lock-free mesh node, the ordered ratcheting
channel, the three ways state is persisted, the wire format, and the C
interface that puts them together.  Line numbers refer to `src/`
of the repository.

## Inventory

| Component | State it keeps | Operations | What is hard | What makes it correct |
|---|---|---|---|---|
| Anti-replay window (`modes/replay.rs`, again in `modes/chrono.rs`) | `highest_seen`, `seen_bitmap` | check, record | shifts at the width of the word, the mask, jumps ahead | the bitmap says exactly which recent numbers were accepted |
| `ReplayWindowChannel` (`modes/replay.rs`) | `tx_seq`, a window, keys and masks | `seal`, `open`, `missing_in_window_count` | late, repeated, reordered, forged packets; ends rebuilt from the seed | each packet is opened once; only packets too old, repeated or not authentic are refused; the loss count is right; no nonce is used twice |
| `ChronoMeshNode` (`modes/chrono.rs`) | atomics `epoch`, `tx_seq`; under a mutex the windows of all peers and a digest | `seal_realtime`, `open_realtime`, `export_checkpoint`, `restore_checkpoint` | threads share a node; sealing takes no lock; opening locks twice; export reads atomics while others seal; restore stores them one by one; crashes | no packet identity twice; no packet delivered twice; windows and digest exact; checkpoints consistent |
| `CryptoNugget` (`modes/ordered.rs`, snapshots in `persistence.rs`) | keys, counters, epoch, transcripts, `requires_resume_ack` | `cifrar…`, `descifrar…`, `export_state`, `import_state`, `mark_resumed` | the epoch moves on export and on opening; ends stopped and resumed; strict order | in-order, gapless, single delivery; transcripts agree; the channel does not block |
| `DualSlotContainer` (`persistence.rs`) | two generations, two slots; a file | `commit_state`, `recover_latest_valid`, `to_bytes`/`from_bytes`, `save_atomic`, `load_from_file` | power cuts that truncate the file, chains of cuts and commits; a save whose steps fail or are the last one before a cut | a completed save is never lost (true where the directory syncs; see `save_unsynced`); a cut costs one commit; what is recovered never gets older |
| `ChronoWalJournal` (`persistence.rs`) | `head_sha256`; a file | `append_to_file`, `recover_from_file`, `recover_from_bytes` | torn tails, unsynced frames, I/O errors between two steps | acknowledged packets are recovered; the chain continues; recovery comes back |
| `CnMeshHandle` (`ffi.rs`) | a node, a container, a journal | `cn_mesh_new`, `_free`, `_seal_realtime`, `_seal_wal_frame`, `_open_realtime`, `_open_persisted`, `_export_dualslot_state`, `_import_dualslot_state` | a small output buffer is noticed after the state changed; hosts that stop, and cut their own writes short; retries of exports that grow | no identity twice; what was saved stays refused; every packet that arrives can be read; the journal is one chain; a stopped host serves again |
| Packet codec (`packet.rs`) | none | `to_bytes`, `from_bytes`, `build_internal_aad_v3` | bytes cut short or changed, read under another layout | what was sealed reads back; nothing else is accepted |
| Envelope, seed, builder, errors, bindings | none | pure functions | | not modelled |

The components interact by calls only.  A mesh node's checkpoint is the payload
of a `DualSlotContainer`; a `ChronoWalJournal` stores a node's packets; the FFI
handle owns one of each.  Threads meet at the node's two atomics and its mutex;
processes meet on the wire and, after a crash, at the files.

## Modules

| Module | Models |
|---|---|
| `ReplayWindow` | the window as pure operators `Check`, `Record`, and `Exact`, what it must say |
| `AntiReplay` | abstract: what a sliding window promises, without a bitmap |
| `ReplayChannel` | one direction of `ReplayWindowChannel`; implements `AntiReplay` |
| `ReplayWindow_proofs`, `ReplayChannel_proofs` | lemmas about the window's operators; theorems about the channel |
| `ChronoMesh` | `ChronoMeshNode` with threads, per atomic access and critical section |
| `MeshRecovery` | composes `ChronoMesh` with the order in which an application boots, restores, saves and serves |
| `ChronoMesh_proofs`, `MeshRecovery_proofs` | theorems about the mesh, and about the mesh over power cuts |
| `FifoChannel` | abstract: one direction of an ordered channel |
| `OrderedChannel` | both ends of `CryptoNugget` and their snapshots; implements `FifoChannel` twice |
| `OrderedChannel_proofs` | theorems about the ordered channel |
| `Slots` | the container as a value: pure operators for committing, recovering, truncating |
| `DualSlot` | a container, its file and its dumps, each dump one step |
| `SaveAtomic` | `DualSlot` with the steps of `save_atomic` by several threads |
| `SaveAtomic_proofs` | theorems about the container and both ways to save it |
| `WalFrames` | frames and their chain as values, and what recovery makes of a file of them |
| `DurableLog` | abstract: an append-only log with acknowledgements |
| `Wal` | the journal, its file, power cuts and recovery; implements `DurableLog` |
| `Wal_proofs` | theorems about the journal |
| `PacketCodec` | the three wire layouts byte by byte, the associated data and the tag of a mesh packet |
| `FfiHandle` | composes a node (with the windows of `ReplayWindow`), `Slots`, `WalFrames` and `PacketCodec` behind the C interface, with the host that calls it |
| `FfiHandle_proofs` | lemmas about the codec, theorems about the handle |
| `MC…` | instances for TLC |

### Abstractions

* **Cryptography** is perfect: a packet verifies exactly under the key, nonce
  and associated data it was sealed with.  A key of the ratchet is the number
  of ratchet steps, a hash chain is the sequence of what was hashed, the XOR
  digest of packets is a set under symmetric difference.
* **A bitmap** is the set of the positions of its one bits; `Bits` is the width
  of the word (128 in the code), so the shift and the mask are kept.
* **Integers** that can reach their end have it as a constant (`SeqMax`,
  `EpochMax`, `GenMax` stand for `u64::MAX`): `checked_add` is a guard,
  `saturating_add` a minimum and `fetch_add` wraps.
* **The wire** is the set of all packets ever sealed, and any of them may be
  delivered at any time: loss, delay, reordering and repetition need no action.
* **Memory order.**  `ChronoMesh` interleaves single accesses.  `epoch` is read
  with Acquire before the `fetch_add` on `tx_seq`, which as a read-modify-write
  sees the latest value whatever its ordering; restore stores both with
  Release, in that order; the exporter reads both under the mutex that a
  sealer takes to fold.  So an interleaving of the accesses loses no outcome
  that the properties could tell apart.
* **Bytes.**  `PacketCodec` keeps each byte of the wire: a plain byte is its
  number, a byte of a nonce or tag is a record that names what it was derived
  from, so a tag verifies exactly for the bytes it was computed over.  This is
  the detail in which a short or altered packet could be read under another
  layout (`OnlySealedIsRead`).  Numbers
  are below 256; a field that is not reads as `Huge`.  A mesh message has one
  byte.  `FfiHandle` gives the byte strings that may arrive names, and refers to
  them by name.
* **Sizes** of an exported container are counted in entries of peers
  (36 bytes in the code), the rest of a checkpoint as one.
* **Calls that fail before they touch state** (a wrong version, a drifted
  clock, an undecodable blob) are not steps, except in `ReplayChannel`, where
  the answer itself is checked.
* **Variables marked ghost** record history for the properties and are never
  read by a guard.

### Correspondence

`PROJECT.json` maps each definition to its lines.  In short:

* `ReplayChannel`: `txSeq` is `tx_seq`, `win` is (`highest_seen`,
  `seen_bitmap`); `Seal` and `Open` are `seal` and `open`; `RebuildSealer` and
  `RebuildOpener` are another `new_with_context` with the same seed.
* `ChronoMesh`: `epoch`, `txSeq` and `rx` are the node's fields; `call[t]` is
  where thread `t` stands in the call it makes.  `seal_realtime` is
  `SealEpoch`, `SealTake`, `SealFold`; `open_realtime` is `OpenCheck`, then
  `OpenFinish` or `OpenUnauthentic`; `export_checkpoint` is `ExportLock` …
  `ExportCopy`, with the mutex held throughout (`Locked`);
  `restore_checkpoint` is `RestoreLoad`, `RestoreEpoch`, `RestoreSeq`,
  `RestorePeers`.  A critical section without a shared access inside other
  than to what it protects is one step.  `Crash` is a new process.  Only
  windows that opened something are exported, as in the code; `Decoded` reads
  `u64::MAX` as `None`, which no packet has.
* `MeshRecovery`: `phase` is where the application of a node is in boot, restore,
  save, serve.
* `OrderedChannel`: `chan[e]` is the `CryptoNugget` of an end, field by field.
* `DualSlot`: `mem` is the container, `file` what the bytes on disk decode to;
  `Dump` is the application's own completed write of `to_bytes`;
  `PowerCutInDump` truncates it.  A process dumps each commit once.
* `SaveAtomic`: `saver[s]` is where thread `s` stands in `save_atomic` and which
  file its descriptor is open on; `tmp` is `<path>.tmp.<pid>`; `entry` is what
  the path names for running processes, `file` what the disk holds under it for
  certain.  `Open`, `Write`, `SyncAll`, `Rename`, `SyncDir` are the five calls in
  order, and `IoError` each of their failures: the code removes the temporary
  file only after a failed rename.  The entry of a renamed file reaches the
  disk at `SyncDir`, or at any time by itself, or never if the directory could
  not be opened or synced (`DirSyncs = FALSE`); the caller gets `Ok` all the
  same, and `durable` is the newest version for which it did.
* `Wal`: `head` and `frames_count` are the journal's fields; the file is `disk`, which is on the medium,
  followed by `cache`, which is not yet synced.  After a failed `sync_data` the
  written bytes stay in the cache, as if a later sync could still flush them.
* `FfiHandle`: one action per function of the interface.  `node`, `dual_slot`
  and `wal` are the fields of `CnMeshHandle`; `phase`, `cap`, `blob`, `file`,
  `journal` and `read` are the host's.  `write_output` comes last in every
  function, so `fits = FALSE` leaves the change of state standing.  Size and
  length are modelled for exports, where a retry depends on them.  One thread
  calls: `ChronoMesh` has the threads.

## Runs

| Run | Expected | What it shows |
|---|---|---|
| `replay_channel` | pass | window 3 in a word of 4 bits, sequence numbers to 7, two lives of the sealer: every kind of jump (inside the window, past it, past the word) occurs; the channel implements `AntiReplay`; loss count exact |
| `replay_rebuilt` | violation of `NonceNeverReused` | a rebuilt sealer starts at 0 under the same key and mask |
| `mesh_open` | pass | two nodes; two threads of one node open the same packets while a third seals, exports and restores, one crash: windows and digest exact, single delivery, equal digests mean no loss |
| `mesh_recovery` | pass | one node, two sealing threads and a keeper, three checkpoints, two crashes, with a save before the first seal and after each restore, and no seal in between: identities are unique and checkpoints cover their digest |
| `mesh_recovery_demo` | violation of `UniqueIdentity` | without the save after a restore (the order of `examples/demo.rs`) two crashes restore one checkpoint and reuse (epoch, sequence) |
| `ordered` | pass | both ends, three packets each way at most, up to three snapshots, which may be taken while packets are on the way to the peer: in-order delivery as a refinement in each direction, transcripts agree, everything is delivered |
| `ordered_two_snapshots` | violation of `SnapshotsNeverBlock` | two exports without a packet in between block the peer |
| `dual_slot` | pass | six commits, each saved by one of two threads with `save_atomic` (every step may fail or be the last, but the directory syncs) or dumped by the application (cuts behind slot A): a save that returned `Ok` is recovered, a cut costs one commit, and what is recovered never gets older |
| `save_unsynced` | violation of `DurableSurvives` | the directory does not open or sync, `save_atomic` returns `Ok` all the same, and a power cut brings the file of before back |
| `wal` | pass | four packets, three cuts, two I/O errors that are followed by recovery: acknowledged packets are recovered, head and count continue the file, the journal is a log and always comes back |
| `wal_io_error` | violation of `AckedIsRecovered` | an application that goes on after an I/O error loses acknowledged packets |
| `handle` | pass | a host that is stopped twice, two seals near the end of the numbers, and ten byte strings that may arrive: three packets of another node (one too late for real time), three truncations and four changes of one of them; unique identities, saved packets refused, an unbroken journal, nothing read but what was sealed, everything sealed read in the end, and a host that always serves again |

Each violation contradicts a sentence of the code's own documentation, quoted
in `PROJECT.json`.  They are statements about how the library is used as much
as about the library: `SaveAfterRestore`, `Careful`, `DirSyncs` and
`RecoverAfterError` name the usage, or the environment, under which the passing
run shows that the promise does hold.

Two more configurations show why two other assumptions are made; both end in a
violation:

* `DualSlotAnyCut.cfg`, of `DualSlot`: with a cut inside slot A of the bytes that
  the application writes itself, `from_bytes` fails (`persistence.rs:298-300`)
  and slot B is lost too, so `DurableSurvives` is violated.
  `persistence.rs:226-227` says that the other slot stays whole.  `Cuts` leaves
  such cuts out elsewhere.
* `MeshRecoveryOverlap.cfg`, of `MCMeshRecovery`: a thread that seals while the
  node is restored (`SealersWait = FALSE`) gives an identity twice, since it
  seals under the boot epoch, or under the old epoch with the restored
  counter (`chrono.rs:221-222`, `527-532`).  Nothing in the node makes it wait.

**What the mesh application must do.**  `mesh_recovery` holds for an application
that exports its first checkpoint before its first seal, exports again after each
restore, and lets its threads seal only when that export is done.
`examples/demo.rs` does neither of the first two: it seals two packets before its
first export (12-21), and restores without exporting again (66-72; it seals
nothing after that).  A crash before the first
checkpoint, after which a node starts at the boot epoch and number 0 again, is
left out of the model by the first of these assumptions.

**What the ordered channel's application must do.**  `Careful` is an assumption
about usage that neither the code nor its comments state.  It has four parts:
an end takes no snapshot while a packet is on the way to it; it takes no second
one before its peer heard of the first; that peer seals nothing until it heard
of it; and an end resumes from a snapshot since which it neither sealed nor
opened anything.  A snapshot puts the end one epoch ahead, and it tries its own
epoch and the next one, never an earlier one (`ordered.rs:235`): a packet that
was on the way to it, or that its peer seals in the old epoch later, blocks that
direction for ever.  The documentation promises nothing of these two cases, so no
run is about them.  Of two snapshots in a row it does (`ordered_two_snapshots`).

**What the host must do.**  `handle` holds for a host that
imports the file it has and saves before it seals; retries an export with the
length it was told; opens as a record what is refused in real time (or was
recorded there without room for its plaintext); starts a new journal with each
handle, since the interface has no function that resumes one; and gives a handle
up when a frame did not fit or a seal failed at the last number.  Each of these
is needed: without the last, `fetch_add` wraps (`chrono.rs:222`) and the
handle seals under number 0 of the same epoch again, although `README.md:294`
promises an error rather than wrapping.  So `UniqueIdentity` and
`JournalIsWhole` of `handle` are statements about the handle together with such a
host.  `dual_slot` holds for threads that save
to one path one after the other.  With `Overlap = TRUE` TLC finds
`DurableSurvives` violated: thread 2 opens and truncates the temporary file
that thread 1 has just synced and is about to rename.

**Two remarks on the documentation.**  `persistence.rs:226` says a commit never
touches the last valid slot.  After a cut inside slot B the container has the
higher generation in B and its only valid payload in A, and the next commit
overwrites A; no completed save is lost by it, because the commit is only in
memory until it is dumped, and a dump that is cut behind slot A leaves the new
slot A whole, which is what `DurableSurvives` checks.  `README.md:148` says that
different associated data make decryption fail; when the packet was sealed
without any (flag unset), the receiver's is not looked at.  `AgreedAad` gives
both ends the same.

**Bounds.**  `MaxLives`, `MaxSeals`, `MaxExports`, `MaxCrashes`, `MaxVersions`,
`MaxPackets`, `MaxCuts`, `MaxErrors`, `MaxSaves` and `MaxStops` cap counters in guards.  The hazards
need few events: a double delivery needs two threads and a packet, a reused
identity two crashes and a checkpoint, a lost slot two commits and a cut, a
forked chain one error and one append.  Each bound leaves room for one event
more than that, except `mesh_open`, where two nodes and four threads leave room
for three packets, one checkpoint and one crash.  `EpochMax` is out of reach in
`MeshRecovery` (a guard of `PowerCut` says so): at `u64::MAX` restarts the epoch
stops advancing.  In `handle`,
`SeqMax` is 2, so that two seals and a failing one reach the end of the numbers;
`MaxSaves` counts only saves that the host could leave out, never those that
serving waits for; `EpochMax` and `GenMax` leave room for two stops.  Runs turn
deadlock checking off where the bounds let the
system come to rest.

**Fairness** is assumed in three modules only.  `OrderedChannel`: a packet that
can be opened is opened in the end (a transport that delivers and an
application that reads), and a resumed end is acknowledged with
`mark_resumed`; nothing is assumed of sealing or of snapshots.  `Wal`: a
process that was started completes its recovery.  `Scan` and `Truncate` run
without waiting for anything, so weak fairness is all the code needs; power cuts
are bounded, appends and errors are not forced.  `FfiHandle`: a host that was
stopped starts again, imports, saves and writes what it exported, and opens what
keeps arriving (`WF` on `New`, `Import`, `NothingToImport`, the save before
serving, `WriteBlob`, and the two ways to open each packet).  Each is one call that
waits for nothing but its own guard; whether a buffer is large enough is left
open, and seals, further saves and stops are not forced.

## Proofs

TLAPS checks the following for every value of the constants: every safety
invariant and every action property of the passing runs is the statement of a
theorem.  The assumptions on the constants, which TLC evaluates in the runs,
are:

* `WindowAssumption`: the window is not wider than its word (the constructors
  check it or set it to 128).
* `ChannelAssumption`, `MeshAssumption`, `OrderedAssumption`, `GenAssumption`,
  `SlotAssumption`, `SaveAssumption`, `RecoveryAssumption`, `HandleAssumption`: limits
  are natural numbers, threads have a home, cuts are one of three, and what is
  said of the usage is true or false.
* `WalAssumption`: there is at least one packet.
* `WireAssumption`: the sequence number of a packet that decrypts is a `u64`.
* `InboxAssumption`, for `OnlySealedIsRead` alone: each byte of a tag that
  arrives comes from a packet that another node sealed.  This is what AES-GCM
  is trusted for; that it is *enough* is the theorem.

| Theorem | States | Under | Module |
|---|---|---|---|
| `TypesHold`, `BitmapIsExact` | `TypeOK`, `BitmapExact` | | `ReplayChannel_proofs` |
| `LossCountIsExact` | `MissingExact` | | `ReplayChannel_proofs` |
| `ChannelRefines` | `ReplayChannel` implements `AntiReplay` | | `ReplayChannel_proofs` |
| `TypesHold` | `TypeOK` | | `ChronoMesh_proofs` |
| `WindowsAreExact` | `PeersExact` | | `ChronoMesh_proofs` |
| `DigestIsExact` | `IntegrityExact` | | `ChronoMesh_proofs` |
| `NothingIsDeliveredTwice` | `DeliveredOnce` | | `ChronoMesh_proofs` |
| `EqualDigestsAreEnough` | `EqualDigestsMeanNoLoss` | | `ChronoMesh_proofs` |
| `IdentitiesAreUnique` | `UniqueIdentity` | `SaveAfterRestore`, `SealersWait`, `MaxSeals <= SeqMax` | `MeshRecovery_proofs` |
| `CheckpointsCover` | `CheckpointCoversDigest` | the same | `MeshRecovery_proofs` |
| `RecoveryImplementsMesh` | `MeshRecovery` implements `ChronoMesh` | the same | `MeshRecovery_proofs` |
| `TypesHold`, `NextInOrderOpens` | `TypeOK`, `NextPacketOpens` | `Careful` | `OrderedChannel_proofs` |
| `ResponderHearsInOrder`, `InitiatorHearsInOrder` | each direction implements `FifoChannel` | `Careful` | `OrderedChannel_proofs` |
| `SaveTypesHold` | `SaveTypeOK` | `AsUsed` | `SaveAtomic_proofs` |
| `CompletedSavesSurvive` | `DurableSurvives` | `AsUsed` | `SaveAtomic_proofs` |
| `CutCostsOneCommit` | `FallbackIsPreviousCommit` | `AsUsed` | `SaveAtomic_proofs` |
| `RecoveryNeverGoesBack` | `NeverGoesBack` | `AsUsed` | `SaveAtomic_proofs` |
| `TypesHold` | `TypeOK` | `RecoverAfterError` | `Wal_proofs` |
| `AckedSurvive`, `HeadContinues` | `AckedIsRecovered`, `HeadContinuesFile` | `RecoverAfterError` | `Wal_proofs` |
| `JournalIsALog` | `Wal` implements `DurableLog` | `RecoverAfterError` | `Wal_proofs` |
| `TypesHold` | `TypeOK` | `EnoughEpochs` | `FfiHandle_proofs` |
| `IdentitiesAreUnique` | `UniqueIdentity` | `EnoughEpochs` | `FfiHandle_proofs` |
| `SavedStaysRefused` | `SavedIsRefused` | `EnoughEpochs` | `FfiHandle_proofs` |
| `JournalStaysWhole` | `JournalIsWhole` | `EnoughEpochs` | `FfiHandle_proofs` |
| `NothingForgedIsRead` | `OnlySealedIsRead` | `EnoughEpochs` | `FfiHandle_proofs` |

The column "Under" is how the library is used.  Where it is a choice of the
application, a configuration that expects a violation shows what happens
otherwise: `SaveAfterRestore` (`mesh_recovery_demo`), `SealersWait`
(`MeshRecoveryOverlap.cfg`), `Careful` (`ordered_two_snapshots`), `AsUsed`, which
is a directory that syncs every time (`save_unsynced`), no cut inside slot A
(`DualSlotAnyCut.cfg`) and one save to a path at a time, and `RecoverAfterError`
(`wal_io_error`).  `EnoughEpochs` says that
`u64::MAX` minus the epoch of the first start is not less than the number of
stops: `restore_checkpoint` saturates the epoch, so after that many starts two
handles would seal in the same one.

**The window.**  `CheckCorrect` and `RecordExact` are the two lemmas that
everything else rests on: for a window that is `Exact` for a set of numbers,
`Check` gives the answer that the set gives, and `Record` leaves the window
exact for the set with one number more.  Both are proved by cases: the
first number, a number ahead, a number behind, and for a number ahead each bit
by whether the jump passes it.

**The channel.**  `TypeOK /\ BitmapExact` is inductive, by the two lemmas.  The
refinement is a step simulation: the abstract window is the set of opened
numbers, `Open` of the channel is `Open` of the abstraction with the same
answer, and all other steps stutter.  The loss count is the number of zero bits within the window; by
exactness the one bits are the opened numbers, shifted, and
`OnesCountOpened` counts them by that bijection.

**The mesh.**  The properties are not inductive alone.  A restore brings back
the windows and the digest of a checkpoint, so `IInv` says that the checkpoints
on disk and in the hands of a restoring thread are exact (`CheckpointSound`).
A restore reads a `highest_seen` of `u64::MAX` as none; this is harmless because
no packet has that number (`WireSound`: the call that takes it fails).  A fold into
an XOR could cancel; it does not, because the packet that a thread is about to
fold is in no log and differs from that of any other thread (`PendingSound`,
`PendingApart`).  That a packet is delivered once is the second check of
`OpenFinish` with `CheckedIsNew`.  The proof restores *any* checkpoint the node
ever exported, at any time.

**Power cuts.**  Three further assumptions are those of the usage: the application
saves after each restore (`SaveAfterRestore`, without which `mesh_recovery_demo`
is violated), its threads do not seal before that (`SealersWait`), and fewer numbers are taken than the counter has
(`MaxSeals <= SeqMax`: it does not wrap).  `RInv` then says that every epoch in
which a packet got its identity is on disk (`IssuedSaved`), that a node serves
only in the epoch of its newest checkpoint and with a counter past every number
of that epoch, and that it saves or restores only to a later one (`NodeSound`);
a packet counts as issued from the moment `fetch_add` has given it its number,
before it is folded.  `CallSound` carries these facts through the steps of an
export and of a restore, where threads hold copies of the atomics, and
`OneRestorer` says that these copies are not raced.  Since `RInv` contains
`IInv` and the recovery implements `ChronoMesh`, the theorems about the mesh
hold under power cuts too.

**The ordered channel.**  That the next packet opens is about one packet and
both ends: its key must be the receiver's, and its epoch the one the receiver is
in or about to follow.  `InStep` ties the ratchet, the number and the length of
the transcript of a direction to each other.  `WireIsHashed` says that a packet
is what its sender's transcript has at that place, so that opening it appends
the same entry.  `EpochsMeet` is what a careful snapshot preserves: the ends are
at most one epoch apart, the one ahead has opened everything sealed for it, and
the packets on the way to the other lead, in order, from the receiver's epoch to
the sender's.  So a snapshot may be taken while packets are on the way to the
peer, which opens the older ones in its own epoch and follows with the first of
the new; one taken while a packet is on the way to its own end breaks the first
half, which is why `Careful` is needed.  The refinements
are step simulations with the transcripts as the FIFO's two histories.

**The container.**  The properties are about what the disk holds; the invariant
is about generations.  `Ordered` says that the slot with the larger generation
has the newer payload, and that only slot B can be missing while its generation
is not 0 (a cut behind the header leaves this).  `NoneGoesBack` orders what
recovery would find in memory, under the name, and on disk, and says what a cut
of an unsaved commit may fall back to; that the disk holds no less than
`durable` after a save returned `Ok` is its last part, and the one that needs
`DirSyncs`.  What was renamed but not synced is in `entry` alone: a
process killed then may start from a version that a later power cut takes back,
so `NeverGoesBack` orders what power cuts leave, and compares a start with
the saves that returned `Ok`.  `SaveStages` ties how far a thread is in
`save_atomic` to the temporary file.  With `Overlap` the second conjunct of
`SaveStages` is lost: two threads share one temporary name.

**The journal.**  Between a failed append and the recovery the file may hold
frames nobody knows of and end in a torn one.  `FileFits` says, for each place
in the code, how the head and the frame in hand continue the file, that packets
increase along it, and that only its *last* frame may be torn; `AckedFits` that
every acknowledged packet is among the intact frames on the medium; `CountFits`
that `frames_count` is the number of frames in the file, plus the one in hand.  Appending behind a
torn frame, as `wal_io_error` does, breaks the former.

**The handle.**  A start goes on from whichever payload the file comes to be
recovered from.  So each payload that may be, in the file, in the exported bytes
or in the container, must know what completed saves cover, and be of no earlier
epoch than any used (`Covers`).  Slot A alone survives a cut: `SlotAServes` asks
this of slot A whenever slot B is written next.  That windows refuse what was
saved is `NodeFits`, by the lemmas on windows.  That a wrapped number is not
taken twice is `HandleFits` with the phase `spent`.  The cut inside slot A, which
the run leaves out since the host would then have no start, is covered by
the theorems: nothing is sealed again.

**The codec.**  `OnlySealedIsRead` rests on three lemmas.  `WrittenAsRead`: bytes
read as version 3, with every field below 256, are the bytes that `to_bytes` writes
of it, so no two byte strings read as one packet.  `AadTellsFlags`: the
associated data tells the flags, and with the key, which tells the four other
fields, a tag tells the whole header.  `TagTells`: a byte of a tag tells what the
tag was computed over.  Hence (`GenuineIsSent`) a packet that decrypts has every
byte of the one whose tag it carries; without the flags in the associated data
(the mutant `AadV3NoFlags`) it would not.

Before it was proved, each inductive invariant was checked by TLC on small
instances.  Three things in the models were corrected because a proof did not
go through: a file that exists but cannot be read was the same value as no
file, so that a host would have started as if it had none (`NoFile`); the
journal without packets had no typed frame (`MaxPackets` is at least 1); and
`TypeOK` of the handle left out the ranges that the counters need.

**Only model-checked.**  Liveness under fairness (`AllDelivered`, `ComesBack`,
`EveryArrivalIsRead`, `ServesAgain`) is out of the prover's reach; the runs that
expect a violation are counterexamples and need no proof.  That the codec reads
back what it wrote is shown for the packets of `handle` by `InboxAssumption`,
which TLC evaluates, and by `EveryArrivalIsRead`.

## Not modelled, and why

* Envelope, seed, builder and error modules: pure functions without state, or
  cryptographic primitives.  Of the codec, base64, and the associated data of
  versions 1 and 2, which only the ordered channel uses.
* Version 1 of the ordered channel.  Packets: only release 0.2 seals them
  (`MIGRATION-0.3.md:59`), and it can neither open version 2 nor take
  snapshots, so such a channel has one direction and no epochs, and
  `descifrar_bytes_with_aad` opens it as the model's with the epoch standing
  still.  Snapshots: nothing writes them, and importing one starts the
  transcripts at zero.
* `decrypt_recovered_wal`: a loop over `open_persisted_record`.
* Of the C interface, null pointers and wrong lengths (every function returns
  before it does anything), `cn_generate_master_seed` and
  `cn_mesh_get_integrity_sha256`, which change nothing, and the bindings, but for
  how they save.
* `received_count`: written and never read.
* The directory entry of a new journal file: it depends on the file system;
  `Wal` starts with a file that exists.

## Plan

In order of importance:

1. Done: `ReplayWindow`, `ReplayChannel`, `ChronoMesh`, `MeshRecovery`,
   `OrderedChannel`, `DualSlot`, `SaveAtomic`, `Wal`, `PacketCodec`, `FfiHandle`,
   their abstract specifications and runs, and the proofs listed above.
2. Proofs: that `from_bytes` reads back what `to_bytes` wrote, in each version;
   that both operations of `Slots` keep the newest whole slot, stated once for
   `SaveAtomic_proofs` and `FfiHandle_proofs`.
3. Version 1 packets and snapshots in `OrderedChannel`.
