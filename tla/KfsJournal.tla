---------------------------- MODULE KfsJournal ----------------------------
(***************************************************************************)
(* The KFS v3 redo journal: kernel/kfs.c, lines 74-467 and 1262-1380.      *)
(*                                                                         *)
(* The whole-driver mutex (fs_lock) admits one mutator or one mount at a   *)
(* time, so a single control variable pc says where the holder is.  Every  *)
(* device write is a step of its own, and at each of them the device can   *)
(* complete, fail, or lose power; a write that does not complete leaves    *)
(* the block old, new, or torn between sectors.  Power can also be lost    *)
(* between any two steps.                                                  *)
(*                                                                         *)
(* A checksum is modelled as the entries it covers: two different          *)
(* transactions never have the same one.  The sequence number, which only  *)
(* feeds the checksum and a log line, is left out.                         *)
(***************************************************************************)
EXTENDS Naturals, Sequences

CONSTANTS
    Block,        \* block numbers a transaction may stage (journal excluded)
    SB,           \* block 0, the superblock; also what a zero word names
    Data,         \* contents of a whole block
    Torn,         \* a block some of whose sectors are old and some new
    None,         \* an empty cache slot
    MaxEntries,   \* KFS_JOURNAL_ENTRIES
    HeaderTears   \* whether one sector (the commit record) can itself tear

ASSUME BlockAssumption == SB \in Block
ASSUME DataAssumption == Torn \notin Data /\ None \notin Data /\ None # Torn
ASSUME EntriesAssumption == MaxEntries \in Nat \ {0}
ASSUME TearAssumption == HeaderTears \in BOOLEAN

VARIABLES
    home,     \* on disk: the filesystem's blocks
    hdr,      \* on disk: the journal header
    pay,      \* on disk: the journal's payload blocks
    cache,    \* this instance's blocks in the write-through block cache
    sb,       \* fs->sb, the in-memory superblock
    saved,    \* journal_tx.saved_sb
    ent,      \* journal_tx.entry[0 .. count-1]
    failed,   \* journal_tx.failed
    pc,       \* where the holder of fs_lock is
    idx,      \* the loop index of the commit or the replay
    ret       \* what the last mutator returned

disk == <<home, hdr, pay>>
vars == <<home, hdr, pay, cache, sb, saved, ent, failed, pc, idx, ret>>

Slots == 1..MaxEntries
Entry == [blk : Block, data : Data]
Content == Data \cup {Torn}

MountedPc == {"idle", "open", "payload", "header", "home", "clear"}
RecoveryPc == {"scan", "replay", "rclear", "rdiscard"}
Mounted == pc \in MountedPc

Targets(e) == {e[j].blk : j \in 1..Len(e)}

\* A transaction's contents as a function from the blocks it stages.
WritesOf(e) ==
    [b \in Targets(e) |-> e[CHOOSE j \in 1..Len(e) : e[j].blk = b].data]

-----------------------------------------------------------------------------
(* On-disk journal header. *)

Header == [live : {0, 1}, count : 0..MaxEntries, sum : Seq(Entry),
           targets : [Slots -> Block]]

\* journal_clear writes a block of zeros: magic, state, count and targets.
CleanHeader ==
    [live |-> 0, count |-> 0, sum |-> <<>>, targets |-> [i \in Slots |-> SB]]

\* The commit record of the entries e.
HeaderOf(e) ==
    [live |-> 1, count |-> Len(e), sum |-> e,
     targets |-> [i \in Slots |-> IF i <= Len(e) THEN e[i].blk ELSE SB]]

\* A header write cut after its first k words: magic and state, count,
\* checksum, then one target per word.
Cut(old, new, k) ==
    [live    |-> IF k >= 1 THEN new.live ELSE old.live,
     count   |-> IF k >= 2 THEN new.count ELSE old.count,
     sum     |-> IF k >= 3 THEN new.sum ELSE old.sum,
     targets |-> [i \in Slots |->
                    IF k >= 3 + i THEN new.targets[i] ELSE old.targets[i]]]

\* What journal_recover loads from the header and the payload area.
Loaded(h, p) == [i \in 1..h.count |-> [blk |-> h.targets[i], data |-> p[i]]]

WellFormed(h) == h.live = 1 /\ h.count \in Slots

Duplicate(h) == \E i, j \in 1..h.count : i < j /\ h.targets[i] = h.targets[j]

\* Headers journal_recover refuses before it looks at the checksum.
Refused(h) == WellFormed(h) /\ Duplicate(h)

\* A transaction journal_recover will replay.
Committed(h, p) == WellFormed(h) /\ ~Duplicate(h) /\ h.sum = Loaded(h, p)

-----------------------------------------------------------------------------
(* The device and the block cache. *)

\* A write of one block that the device did not acknowledge.
Interrupted(old, new) == {old, new, Torn}

InterruptedHeader(old, new) ==
    IF HeaderTears THEN {Cut(old, new, k) : k \in 0..(MaxEntries + 3)}
                   ELSE {old, new}

EmptyCache == [b \in Block |-> None]

Pending(b) == pc \in MountedPc \ {"idle"} /\ b \in Targets(ent)

\* What bread returns: the staged copy, then the cached one, then the disk's.
bread(b) ==
    IF Pending(b) THEN WritesOf(ent)[b]
    ELSE IF cache[b] # None THEN cache[b] ELSE home[b]

\* A read by the holder of the lock, which fills the cache on a miss.
Read(b) ==
    /\ pc \in {"idle", "open"}
    /\ ~Pending(b)
    /\ cache[b] = None
    /\ cache' = [cache EXCEPT ![b] = home[b]]
    /\ UNCHANGED <<disk, sb, saved, ent, failed, pc, idx, ret>>

\* bcache_victim hands the slot to another block or another instance.
Evict(b) ==
    /\ cache[b] # None
    /\ cache' = [cache EXCEPT ![b] = None]
    /\ UNCHANGED <<disk, sb, saved, ent, failed, pc, idx, ret>>

\* Power loss: memory is gone.
LoseMemory ==
    /\ cache' = EmptyCache
    /\ ent' = <<>>
    /\ failed' = 0
    /\ pc' = "off"
    /\ idx' = 1
    /\ ret' = "none"
    /\ sb' = None
    /\ saved' = None

Crash == LoseMemory /\ UNCHANGED disk

-----------------------------------------------------------------------------
(* Transactions. *)

\* journal_reset, on every way out of a mutator.
Finish(r) ==
    /\ ent' = <<>>
    /\ failed' = 0
    /\ pc' = "idle"
    /\ idx' = 1
    /\ ret' = r

\* A mutator takes fs_lock on a mounted instance and calls journal_begin.
journal_begin ==
    /\ pc = "idle"
    /\ pc' = "open"
    /\ ent' = <<>>
    /\ failed' = 0
    /\ saved' = sb
    /\ ret' = "none"
    /\ UNCHANGED <<disk, cache, sb, idx>>

\* Faulty variants: no room check; no coalescing.
journal_stage_NoLimit(b, d) ==
    /\ pc = "open"
    /\ ent' = Append(ent, [blk |-> b, data |-> d])
    /\ sb' = IF b = SB THEN d ELSE sb
    /\ UNCHANGED <<disk, cache, saved, failed, pc, idx, ret>>

journal_stage_NoCoalesce(b, d) ==
    /\ pc = "open"
    /\ IF Len(ent) < MaxEntries
          THEN ent' = Append(ent, [blk |-> b, data |-> d]) /\ UNCHANGED failed
          ELSE failed' = 1 /\ UNCHANGED ent
    /\ sb' = IF b = SB THEN d ELSE sb
    /\ UNCHANGED <<disk, cache, saved, pc, idx, ret>>

\* Entries for one home block coalesce; one entry too many fails the
\* transaction.  sb_sync stages the in-memory superblock as block 0, which
\* its callers have just changed.
journal_stage(b, d) ==
    /\ pc = "open"
    /\ \/ /\ b \in Targets(ent)
          /\ ent' = [j \in 1..Len(ent) |->
                       IF ent[j].blk = b THEN [blk |-> b, data |-> d] ELSE ent[j]]
          /\ UNCHANGED failed
       \/ /\ b \notin Targets(ent)
          /\ Len(ent) < MaxEntries
          /\ ent' = Append(ent, [blk |-> b, data |-> d])
          /\ UNCHANGED failed
       \/ /\ b \notin Targets(ent)
          /\ Len(ent) >= MaxEntries
          /\ failed' = 1
          /\ UNCHANGED ent
    /\ sb' = IF b = SB THEN d ELSE sb
    /\ UNCHANGED <<disk, cache, saved, pc, idx, ret>>

\* Faulty variant: the in-memory superblock keeps the aborted changes.
journal_abort_KeepsSb ==
    /\ pc = "open"
    /\ Finish("err")
    /\ UNCHANGED <<disk, cache, sb, saved>>

\* The mutator gave up (name taken, disk full, ...).
journal_abort ==
    /\ pc = "open"
    /\ sb' = saved
    /\ Finish("err")
    /\ UNCHANGED <<disk, cache, saved>>

\* journal_commit of a failed or of an empty transaction writes nothing.
CommitNothing ==
    /\ pc = "open"
    /\ \/ failed = 1 /\ sb' = saved /\ Finish("err")
       \/ failed = 0 /\ ent = <<>> /\ sb' = sb /\ Finish("ok")
    /\ UNCHANGED <<disk, cache, saved>>

\* Faulty variant: home blocks are written before the commit record.
CommitStart_HomeFirst ==
    /\ pc = "open"
    /\ failed = 0
    /\ ent # <<>>
    /\ pc' = "home"
    /\ idx' = 1
    /\ UNCHANGED <<disk, cache, sb, saved, ent, failed, ret>>

CommitStart ==
    /\ pc = "open"
    /\ failed = 0
    /\ ent # <<>>
    /\ pc' = "payload"
    /\ idx' = 1
    /\ UNCHANGED <<disk, cache, sb, saved, ent, failed, ret>>

\* A payload write that fails leaves the instance mounted: no commit record
\* names the payload area yet.
CommitPayload ==
    /\ pc = "payload"
    /\ \/ /\ pay' = [pay EXCEPT ![idx] = ent[idx].data]
          /\ IF idx < Len(ent) THEN pc' = "payload" /\ idx' = idx + 1
                               ELSE pc' = "header" /\ idx' = 1
          /\ UNCHANGED <<cache, sb, saved, ent, failed, ret>>
       \/ \E v \in Interrupted(pay[idx], ent[idx].data) :
             /\ pay' = [pay EXCEPT ![idx] = v]
             /\ \/ sb' = saved /\ Finish("err") /\ UNCHANGED <<cache, saved>>
                \/ LoseMemory
    /\ UNCHANGED <<home, hdr>>

\* Faulty variant: the instance stays mounted after the error.
TakeDown_StaysMounted ==
    /\ cache' = EmptyCache
    /\ sb' = saved
    /\ Finish("err")
    /\ UNCHANGED saved

\* A device error from here on takes the mount down (mounted = 0) and drops
\* its cached blocks, so that the payload area is not reused.
TakeDown ==
    /\ cache' = EmptyCache
    /\ ent' = <<>>
    /\ failed' = 0
    /\ pc' = "off"
    /\ idx' = 1
    /\ ret' = "err"
    /\ UNCHANGED <<sb, saved>>

\* Faulty variant: a header write that fails is reported like a failed payload.
CommitHeader_Reported ==
    /\ pc = "header"
    /\ \/ /\ hdr' = HeaderOf(ent)
          /\ pc' = "home"
          /\ UNCHANGED <<cache, sb, saved, ent, failed, idx, ret>>
       \/ /\ hdr' \in InterruptedHeader(hdr, HeaderOf(ent))
          /\ sb' = saved /\ Finish("err") /\ UNCHANGED <<cache, saved>>
    /\ UNCHANGED <<home, pay>>

CommitHeader ==
    /\ pc = "header"
    /\ \/ /\ hdr' = HeaderOf(ent)
          /\ pc' = "home"
          /\ UNCHANGED <<cache, sb, saved, ent, failed, idx, ret>>
       \/ /\ hdr' \in InterruptedHeader(hdr, HeaderOf(ent))
          /\ TakeDown \/ LoseMemory
    /\ UNCHANGED <<home, pay>>

CommitHome ==
    /\ pc = "home"
    /\ LET e == ent[idx] IN
       \/ /\ home' = [home EXCEPT ![e.blk] = e.data]
          /\ cache' = [cache EXCEPT ![e.blk] = e.data]
          /\ IF idx < Len(ent) THEN pc' = "home" /\ idx' = idx + 1
                               ELSE pc' = "clear" /\ idx' = 1
          /\ UNCHANGED <<sb, saved, ent, failed, ret>>
       \/ \E v \in Interrupted(home[e.blk], e.data) :
             /\ home' = [home EXCEPT ![e.blk] = v]
             /\ TakeDown \/ LoseMemory
    /\ UNCHANGED <<hdr, pay>>

CommitClear ==
    /\ pc = "clear"
    /\ \/ /\ hdr' = CleanHeader
          /\ Finish("ok")
          /\ UNCHANGED <<cache, sb, saved>>
       \/ /\ hdr' \in InterruptedHeader(hdr, CleanHeader)
          /\ TakeDown \/ LoseMemory
    /\ UNCHANGED <<home, pay>>

-----------------------------------------------------------------------------
(* Mount, recovery and unmount. *)

\* try_offset reads the superblock; a sector of it is old or new, and the
\* geometry the recovery needs is the same in both.
MountStart ==
    /\ pc = "off"
    /\ pc' = "scan"
    /\ sb' = home[SB]
    /\ ret' = "none"
    /\ UNCHANGED <<disk, cache, saved, ent, failed, idx>>

\* kfs_type_mount gives up; blocks already replayed stay cached.
MountFails ==
    /\ ent' = <<>>
    /\ pc' = "off"
    /\ idx' = 1
    /\ UNCHANGED <<sb, saved, failed, ret>>

MountDone ==
    /\ ent' = <<>>
    /\ pc' = "idle"
    /\ idx' = 1
    /\ UNCHANGED <<saved, failed, ret>>

\* journal_recover up to its decision: nothing to do, clear the header,
\* replay, or refuse (also when the header or a payload cannot be read).
RecoverScan ==
    /\ pc = "scan"
    /\ \/ /\ hdr.live = 0 /\ hdr.count = 0
          /\ MountDone /\ UNCHANGED sb
       \/ /\ ~(hdr.live = 0 /\ hdr.count = 0)
          /\ ~Refused(hdr) /\ ~Committed(hdr, pay)
          /\ pc' = "rdiscard"
          /\ UNCHANGED <<sb, saved, ent, failed, idx, ret>>
       \/ /\ Committed(hdr, pay)
          /\ pc' = "replay"
          /\ ent' = Loaded(hdr, pay)
          /\ idx' = 1
          /\ UNCHANGED <<sb, saved, failed, ret>>
       \/ Refused(hdr) /\ MountFails
    /\ UNCHANGED <<disk, cache>>

RecoverReadError ==
    /\ pc = "scan"
    /\ MountFails
    /\ UNCHANGED <<disk, cache>>

\* Faulty variant: the replay does not clear the header's record as replayed
\* but starts over.
RecoverReplay_Again ==
    /\ pc = "replay"
    /\ LET e == ent[idx] IN
          /\ home' = [home EXCEPT ![e.blk] = e.data]
          /\ cache' = [cache EXCEPT ![e.blk] = e.data]
          /\ idx' = (idx % Len(ent)) + 1
    /\ UNCHANGED <<hdr, pay, sb, saved, ent, failed, pc, ret>>

RecoverReplay ==
    /\ pc = "replay"
    /\ LET e == ent[idx] IN
       \/ /\ home' = [home EXCEPT ![e.blk] = e.data]
          /\ cache' = [cache EXCEPT ![e.blk] = e.data]
          /\ IF idx < Len(ent) THEN pc' = "replay" /\ idx' = idx + 1
                               ELSE pc' = "rclear" /\ idx' = 1
          /\ UNCHANGED <<sb, saved, ent, failed, ret>>
       \/ \E v \in Interrupted(home[e.blk], e.data) :
             /\ home' = [home EXCEPT ![e.blk] = v]
             /\ \/ MountFails /\ cache' = [cache EXCEPT ![e.blk] = None]
                \/ LoseMemory
    /\ UNCHANGED <<hdr, pay>>

\* The replay may have included block 0: the superblock is read again.
RecoverClear ==
    /\ pc = "rclear"
    /\ \/ /\ hdr' = CleanHeader
          /\ \/ MountDone /\ sb' = home[SB]
             \/ MountFails
          /\ UNCHANGED cache
       \/ /\ hdr' \in InterruptedHeader(hdr, CleanHeader)
          /\ (MountFails /\ UNCHANGED cache) \/ LoseMemory
    /\ UNCHANGED <<home, pay>>

RecoverDiscard ==
    /\ pc = "rdiscard"
    /\ \/ hdr' = CleanHeader /\ MountDone /\ UNCHANGED <<sb, cache>>
       \/ /\ hdr' \in InterruptedHeader(hdr, CleanHeader)
          /\ (MountFails /\ UNCHANGED cache) \/ LoseMemory
    /\ UNCHANGED <<home, pay>>

Unmount ==
    /\ pc = "idle"
    /\ pc' = "off"
    /\ cache' = EmptyCache
    /\ ret' = "none"
    /\ UNCHANGED <<disk, sb, saved, ent, failed, idx>>

-----------------------------------------------------------------------------
Init ==
    /\ home \in [Block -> Data]
    /\ hdr = CleanHeader
    /\ pay \in [Slots -> Data]
    /\ cache = EmptyCache
    /\ sb = None
    /\ saved = None
    /\ ent = <<>>
    /\ failed = 0
    /\ pc = "off"
    /\ idx = 1
    /\ ret = "none"

\* The steps that the holder of the lock runs without a choice of its own.
Commit == CommitPayload \/ CommitHeader \/ CommitHome \/ CommitClear
Recover ==
    RecoverScan \/ RecoverReadError \/ RecoverReplay \/ RecoverClear \/ RecoverDiscard

Next ==
    \/ journal_begin \/ journal_abort
    \/ \E b \in Block, d \in Data : journal_stage(b, d)
    \/ CommitNothing \/ CommitStart \/ Commit
    \/ MountStart \/ Recover \/ Unmount \/ Crash
    \/ \E b \in Block : Read(b) \/ Evict(b)

Spec == Init /\ [][Next]_vars

\* The holder of the lock keeps running, and a stopped machine is started
\* again (the boot mounts the root filesystem).
FairSpec == Spec /\ WF_vars(Commit) /\ WF_vars(Recover) /\ WF_vars(MountStart)

-----------------------------------------------------------------------------
(* Properties. *)

TypeOK ==
    /\ home \in [Block -> Content]
    /\ hdr \in Header
    /\ pay \in [Slots -> Content]
    /\ cache \in [Block -> Content \cup {None}]
    /\ sb \in Content \cup {None}
    /\ saved \in Content \cup {None}
    /\ ent \in Seq(Entry)
    /\ Len(ent) <= MaxEntries
    /\ failed \in {0, 1}
    /\ pc \in MountedPc \cup RecoveryPc \cup {"off"}
    /\ idx \in Slots
    /\ ret \in {"none", "ok", "err"}

\* What the next mount will expose if the power goes now.
Recovered ==
    [b \in Block |-> IF Committed(hdr, pay) /\ b \in Targets(hdr.sum)
                     THEN WritesOf(hdr.sum)[b] ELSE home[b]]

\* Wherever the power goes, the next mount finds whole blocks: a block that a
\* home write left torn is always covered by the commit record on the disk.
Recoverable == \A b \in Block : Recovered[b] \in Data

\* Outside a transaction a mounted instance serves exactly the contents that
\* are safe on disk, from the cache or not, and its in-memory superblock is
\* the one on disk: journal_abort and a failed commit undid their changes.
ViewIsCommitted ==
    pc = "idle" => /\ \A b \in Block : bread(b) = Recovered[b]
                   /\ sb = Recovered[SB]

\* Write-ahead: no step changes a home block that the commit record on disk
\* does not cover, whether the step is a commit's, a replay's or a crash's.
WriteAhead ==
    [][\A b \in Block : home'[b] # home[b] =>
          Committed(hdr, pay) /\ b \in Targets(hdr.sum)]_vars

\* A commit record is given up only once every home block holds its contents
\* (nobody reuses the payload area under it, not even after a device error).
RecordKept ==
    [][Committed(hdr, pay) =>
         \/ Committed(hdr', pay') /\ hdr'.sum = hdr.sum
         \/ \A b \in Targets(hdr.sum) : home[b] = WritesOf(hdr.sum)[b]]_vars

\* Recovery never meets a journal it has to refuse: what an interrupted
\* commit leaves is replayed or cleared.
NeverRefused == ~Refused(hdr)

\* A step at which the device fails, power is lost, or the operator unmounts;
\* a mount that recovery refuses is not one.
Fault == pc' = "off" /\ ~(pc = "scan" /\ Refused(hdr))

\* Once devices and power behave, the filesystem ends up mounted and stays so:
\* recovery of whatever was left behind terminates, however often it was cut
\* short before.  Only a header that recovery refuses keeps it off.
Converges == <>[][~Fault]_vars => <>[](Mounted \/ Refused(hdr))

-----------------------------------------------------------------------------
(* The journal implements the atomic store. *)

AbstractSt ==
    CASE pc = "idle" -> "idle"
      [] pc \in {"open", "payload", "header"} -> "open"
      [] pc \in {"home", "clear"} -> "done"
      [] OTHER -> "off"

AbstractTx == IF Mounted THEN WritesOf(ent) ELSE WritesOf(<<>>)

Abstract == INSTANCE AtomicStore WITH
    store <- Recovered, tx <- AbstractTx, st <- AbstractSt

\* Every mutator is atomic and durable across crashes, device errors and
\* interrupted recoveries, as AtomicStore states it.
Implements == Abstract!ASpec
=============================================================================
