------------------------------- MODULE Logger -------------------------------
(***************************************************************************)
(* The kernel log ring (kernel/klog.c) and the service that copies it to   *)
(* /var/log/messages (apps/logger.c).                                      *)
(*                                                                         *)
(* An entry is known by the boot it was logged in and its sequence number. *)
(* A file is the sequence of the entries in it: a write of several chunks  *)
(* reaches the disk one entry at a time, and the process can be killed, or *)
(* the machine lost, between two of them.  All lines have one length.      *)
(***************************************************************************)
EXTENDS Naturals, Sequences, FiniteSets, SequencesExt, FiniteSetsExt

CONSTANTS
    KLOG_RING_ENTRIES,
    Batch,       \* lines in the buffer of drain: BATCHSZ
    Cap,         \* lines in the file before it is rotated: cap_bytes
    CopyBlock,   \* lines in one read and write of copy_range: COPYSZ
    MaxTotal,    \* bound on the entries logged in one boot
    MaxKills,    \* bound on the times the service is killed
    MaxRedone,   \* bound on the drains given up after a flush
    MaxBoots,    \* bound on the boots
    Faults       \* what may fail: a subset of {"append", "save", "copy"}

ASSUME BoundAssumption ==
    /\ {KLOG_RING_ENTRIES, Batch, Cap, CopyBlock, MaxTotal, MaxBoots} \subseteq Nat \ {0}
    /\ {MaxKills, MaxRedone} \subseteq Nat /\ Faults \subseteq {"append", "save", "copy"}

VARIABLES
    log_total,   \* entries logged since boot; the ring holds the last of them
    messages, old, seqfile,        \* the three files
    pc, next, after, i, batch, wrote, held, pos,  \* the logger process
    boot, kills,
    discarded,   \* entries that rotations have dropped on purpose
    overrun,     \* entries the ring lost before they were copied
    flushed,     \* this drain has emptied a full buffer into the log
    redone       \* drains given up after such a flush

kernel == <<log_total, overrun>>
files == <<messages, old, seqfile, discarded>>
walk == <<next, after, i, held, flushed>>
world == <<boot, kills, redone>>
vars == <<kernel, files, pc, walk, pos, batch, wrote, world>>

Entry(s) == <<boot, s>>
Kept == Range(messages) \cup Range(old) \cup discarded

-----------------------------------------------------------------------------
(* The ring. *)

klog_retained == Min({log_total, KLOG_RING_ENTRIES})
klog_oldest_seq == log_total - klog_retained

\* klog_write; at the bound nothing more is logged.
Logged ==
    IF log_total = MaxTotal THEN UNCHANGED kernel
    ELSE /\ log_total' = log_total + 1
         /\ overrun' = IF klog_retained = KLOG_RING_ENTRIES /\ Entry(klog_oldest_seq) \notin Kept
                       THEN overrun \cup {klog_oldest_seq} ELSE overrun

klog_write ==
    /\ log_total < MaxTotal
    /\ Logged
    /\ UNCHANGED <<files, pc, walk, pos, batch, wrote, world>>

-----------------------------------------------------------------------------
(* The service. *)

\* main: seq_load, where an empty file counts as 0, and a first message.
Start ==
    /\ pc = "start"
    /\ Logged
    /\ next' = seqfile /\ after' = seqfile /\ i' = 0 /\ pc' = "scan"
    /\ UNCHANGED <<files, held, flushed, pos, batch, wrote, world>>

\* The faulty variants of the scan: one that would not empty a full buffer,
\* one that would copy the last entry again, and one that would stop at an
\* entry that is already on disk.
LogRead_NoFlush ==
    /\ pc = "scan" /\ i < klog_retained
    /\ LET seq == klog_oldest_seq + i IN
       /\ batch' = IF seq < next THEN batch ELSE Append(batch, Entry(seq))
       /\ after' = IF seq >= after THEN seq + 1 ELSE after
    /\ i' = i + 1
    /\ UNCHANGED <<kernel, files, pc, next, held, flushed, pos, wrote, world>>

LogRead_Again ==
    /\ pc = "scan" /\ i < klog_retained
    /\ LET seq == klog_oldest_seq + i IN
       \/ seq + 1 < next /\ i' = i + 1 /\ UNCHANGED <<pc, batch, after, held>>
       \/ seq + 1 >= next /\ Len(batch) < Batch /\ batch' = Append(batch, Entry(seq))
            /\ after' = Max({after, seq + 1}) /\ i' = i + 1 /\ UNCHANGED <<pc, held>>
       \/ seq + 1 >= next /\ Len(batch) = Batch /\ pc' = "flush" /\ held' = seq
            /\ UNCHANGED <<batch, after, i>>
    /\ UNCHANGED <<kernel, files, next, flushed, pos, wrote, world>>

LogRead_Stops ==
    /\ pc = "scan" /\ i < klog_retained
    /\ LET seq == klog_oldest_seq + i IN
       \/ seq < next /\ pc' = "rotate" /\ UNCHANGED <<i, batch, after, held>>
       \/ seq >= next /\ Len(batch) < Batch /\ batch' = Append(batch, Entry(seq))
            /\ after' = Max({after, seq + 1}) /\ i' = i + 1 /\ UNCHANGED <<pc, held>>
       \/ seq >= next /\ Len(batch) = Batch /\ pc' = "flush" /\ held' = seq
            /\ UNCHANGED <<batch, after, i>>
    /\ UNCHANGED <<kernel, files, next, flushed, pos, wrote, world>>

\* drain: SYS_LOGREAD of one index.  The index counts from the oldest entry
\* retained at that moment.  A full buffer is appended first.
LogRead ==
    /\ pc = "scan" /\ i < klog_retained
    /\ LET seq == klog_oldest_seq + i IN
       \/ seq < next /\ i' = i + 1 /\ UNCHANGED <<pc, batch, after, held>>
       \/ seq >= next /\ Len(batch) < Batch /\ batch' = Append(batch, Entry(seq))
            /\ after' = Max({after, seq + 1}) /\ i' = i + 1 /\ UNCHANGED <<pc, held>>
       \/ seq >= next /\ Len(batch) = Batch /\ pc' = "flush" /\ held' = seq
            /\ UNCHANGED <<batch, after, i>>
    /\ UNCHANGED <<kernel, files, next, flushed, pos, wrote, world>>

ScanEnd ==
    /\ pc = "scan" /\ i >= klog_retained
    /\ pc' = IF batch = <<>> THEN "rotate" ELSE "append"
    /\ UNCHANGED <<kernel, files, walk, pos, batch, wrote, world>>

\* What drain does once append has returned 0.
Appended ==
    /\ wrote' = FALSE
    /\ \/ pc = "flush" /\ pc' = "scan" /\ batch' = <<Entry(held)>> /\ i' = i + 1
            /\ after' = Max({after, held + 1}) /\ flushed' = TRUE
       \/ pc = "append" /\ pc' = "save" /\ batch' = <<>> /\ UNCHANGED <<i, after, flushed>>

\* append: the next chunk of the buffer reaches the file.
AppendChunk ==
    /\ pc \in {"flush", "append"}
    /\ messages' = Append(messages, Head(batch))
    /\ \/ Len(batch) = 1 /\ Appended
       \/ Len(batch) > 1 /\ batch' = Tail(batch) /\ wrote' = TRUE
            /\ UNCHANGED <<pc, i, after, flushed>>
    /\ UNCHANGED <<kernel, old, seqfile, discarded, next, held, pos, world>>

\* append: the open or a chunk fails.  sys_write reports -1 only if it is the
\* first one; otherwise the count is short and taken for success.  After -1
\* drain returns with *next as it was, whatever it has flushed before.
AppendFails ==
    /\ pc \in {"flush", "append"} /\ "append" \in Faults
    /\ \/ ~wrote /\ ~flushed /\ pc' = "rotate" /\ batch' = <<>>
            /\ UNCHANGED <<wrote, i, after, flushed, redone>>
       \/ ~wrote /\ flushed /\ redone < MaxRedone /\ redone' = redone + 1
            /\ pc' = "rotate" /\ batch' = <<>> /\ UNCHANGED <<wrote, i, after, flushed>>
       \/ wrote /\ Appended /\ UNCHANGED redone
    /\ UNCHANGED <<kernel, files, next, held, pos, boot, kills>>

\* seq_save: O_TRUNC empties the file, and the number is written next.
SeqTruncate ==
    /\ pc = "save"
    /\ next' = after /\ seqfile' = 0 /\ pc' = "seq"
    /\ UNCHANGED <<kernel, messages, old, discarded, after, i, held, flushed>>
    /\ UNCHANGED <<pos, batch, wrote, world>>

SeqWrite ==
    /\ pc = "seq"
    /\ seqfile' = after /\ pc' = "rotate"
    /\ UNCHANGED <<kernel, messages, old, discarded, walk, pos, batch, wrote, world>>

\* seq_save reports nothing: after a failed open the file keeps the number it
\* had, after a failed write it is empty, and drain has advanced in both cases.
SeqFails ==
    /\ pc \in {"save", "seq"} /\ "save" \in Faults
    /\ next' = after /\ pc' = "rotate"
    /\ UNCHANGED <<kernel, files, after, i, held, flushed, pos, batch, wrote, world>>

\* The oldest half, to the end of the line that the middle is in.
Cut == Len(messages) \div 2 + 1

\* The end of a tick: main sleeps and drains again.
Rest == pc' = "scan" /\ i' = 0 /\ after' = next /\ flushed' = FALSE /\ pos' = 0

\* rotate: nothing to do, or the log cannot be looked at, or the tail is staged.
Rotate ==
    /\ pc = "rotate"
    /\ \/ (Len(messages) <= Cap \/ "copy" \in Faults) /\ Rest /\ UNCHANGED old
       \/ Len(messages) > Cap /\ old' = <<>> /\ pc' = "stage"
            /\ UNCHANGED <<i, after, flushed, pos>>
    /\ UNCHANGED <<kernel, messages, seqfile, discarded, next, held, batch, wrote, world>>

\* copy_range of count lines, of which pos have been passed.  A write that
\* fails is an error at the start of a block, where nothing is written yet,
\* and like a failed open or read; inside a block the count is short and
\* positive, and the rest of the block is taken for written.
CopyError(count) == pos = 0 \/ (pos < count /\ pos % CopyBlock = 0)
CopyShort(count) ==
    /\ pos < count /\ pos % CopyBlock # 0
    /\ pos' = Min({count, (pos \div CopyBlock + 1) * CopyBlock})

TailLen == Len(messages) - Cut
Staged == pc = "stage" /\ pos = TailLen

\* rotate: the tail goes to the stage file.
Stage ==
    /\ pc = "stage" /\ pos < TailLen
    /\ \/ old' = Append(old, messages[Cut + pos + 1]) /\ pos' = pos + 1
       \/ "copy" \in Faults /\ CopyShort(TailLen) /\ UNCHANGED old
    /\ UNCHANGED <<kernel, messages, seqfile, discarded, pc, walk, batch, wrote, world>>

StageFails ==
    /\ pc = "stage" /\ "copy" \in Faults /\ CopyError(TailLen)
    /\ old' = <<>> /\ Logged /\ Rest
    /\ UNCHANGED <<messages, seqfile, discarded, next, held, batch, wrote, world>>

\* The stat of the complete stage file fails: it goes, without a message.
StatFails ==
    /\ Staged /\ "copy" \in Faults
    /\ old' = <<>> /\ Rest
    /\ UNCHANGED <<kernel, messages, seqfile, discarded, next, held, batch, wrote, world>>

\* The faulty variant that would not wait for the stage file to be complete.
Overwrite_Early ==
    /\ pc = "stage"
    /\ discarded' = discarded \cup {messages[k] : k \in 1..Cut}
    /\ messages' = <<>> /\ pc' = "rewrite" /\ pos' = 0
    /\ UNCHANGED <<kernel, old, seqfile, walk, batch, wrote, world>>

\* copy_range of the stage file over the log, which O_TRUNC empties first.
Overwrite ==
    /\ Staged
    /\ discarded' = discarded \cup {messages[k] : k \in 1..Cut}
    /\ messages' = <<>> /\ pc' = "rewrite" /\ pos' = 0
    /\ UNCHANGED <<kernel, old, seqfile, walk, batch, wrote, world>>

Rewrite ==
    /\ pc = "rewrite" /\ pos < Len(old)
    /\ \/ messages' = Append(messages, old[pos + 1]) /\ pos' = pos + 1
       \/ "copy" \in Faults /\ CopyShort(Len(old)) /\ UNCHANGED messages
    /\ UNCHANGED <<kernel, old, seqfile, discarded, pc, walk, batch, wrote, world>>

\* The copy back fails, before the log has been emptied or after: a warning,
\* and the stage file goes all the same.
RewriteFails ==
    /\ Staged \/ (pc = "rewrite" /\ CopyError(Len(old)))
    /\ "copy" \in Faults
    /\ Logged /\ pc' = "drop"
    /\ UNCHANGED <<files, walk, pos, batch, wrote, world>>

DropStage ==
    /\ pc = "drop" \/ (pc = "rewrite" /\ pos = Len(old))
    /\ old' = <<>> /\ Logged /\ Rest
    /\ UNCHANGED <<messages, seqfile, discarded, next, held, batch, wrote, world>>

\* The state of a process that has not run yet.
Unstarted ==
    /\ pc' = "start" /\ next' = 0 /\ after' = 0 /\ i' = 0 /\ held' = 0
    /\ batch' = <<>> /\ wrote' = FALSE /\ pos' = 0 /\ flushed' = FALSE

\* init stops the service, or it dies, at any point; init starts it again.
Kill ==
    /\ kills < MaxKills /\ pc # "start"
    /\ kills' = kills + 1 /\ Unstarted
    /\ UNCHANGED <<kernel, files, boot, redone>>

\* The machine is restarted: klog_init makes a new ring, with one entry.
Reboot ==
    /\ boot < MaxBoots
    /\ boot' = boot + 1 /\ log_total' = 1 /\ overrun' = {} /\ Unstarted
    /\ UNCHANGED <<files, kills, redone>>

-----------------------------------------------------------------------------
Init ==
    /\ log_total = 1 /\ overrun = {}
    /\ messages = <<>> /\ old = <<>> /\ seqfile = 0 /\ discarded = {}
    /\ pc = "start" /\ next = 0 /\ after = 0 /\ i = 0 /\ held = 0
    /\ batch = <<>> /\ wrote = FALSE /\ pos = 0 /\ flushed = FALSE
    /\ boot = 1 /\ kills = 0 /\ redone = 0

Service ==
    \/ Start \/ LogRead \/ ScanEnd \/ AppendChunk \/ SeqTruncate \/ SeqWrite
    \/ Rotate \/ Stage \/ Overwrite \/ Rewrite \/ DropStage

Failures == AppendFails \/ SeqFails \/ StageFails \/ StatFails \/ RewriteFails

Next == Service \/ Failures \/ klog_write \/ Kill \/ Reboot

Spec == Init /\ [][Next]_vars

\* The service is scheduled whenever it can run.
FairSpec == Spec /\ WF_vars(Service)

-----------------------------------------------------------------------------
(* Properties. *)

TypeOK ==
    /\ log_total \in 1..MaxTotal /\ seqfile \in 0..MaxTotal
    /\ next \in 0..MaxTotal /\ after \in next..MaxTotal
    /\ i \in 0..MaxTotal /\ held \in 0..MaxTotal /\ pos \in 0..(Cap + MaxTotal)
    /\ flushed \in BOOLEAN /\ redone \in 0..MaxRedone
    /\ Len(batch) <= Batch /\ Len(messages) <= Cap + MaxTotal
    /\ pc \in {"start", "scan", "flush", "append", "save", "seq",
               "rotate", "stage", "rewrite", "drop"}

\* Nothing is lost: an entry the service has passed (its number is below the
\* next one to write) is in the log, or staged, or was dropped by a rotation,
\* or the ring had overwritten it before it was copied.
NoneLost ==
    \A s \in 0..(log_total - 1) : s < next => Entry(s) \in Kept \/ s \in overrun

Before(e, f) == e[1] < f[1] \/ (e[1] = f[1] /\ e[2] < f[2])

\* The places where the log goes back to an entry it has already been past.
Returns == {k \in 1..(Len(messages) - 1) : ~Before(messages[k], messages[k + 1])}

\* Nothing is written twice or out of order: the log is strictly increasing.
Increasing == Returns = {}

\* Entries are written again only by a service that was killed before it had
\* saved its number, or that gave a drain up because an append failed after an
\* earlier flush of the same drain; each of them makes the log go back once.
\* No other failure (a short append, an unsaved number, a failed or a short
\* copy of a rotation), no wrapping of the ring and no reboot does.
RepeatsAccounted == Cardinality(Returns) <= kills + redone

\* The log is a run of consecutive entries: rotation takes from its front and
\* drain adds at its end.
Consecutive ==
    \A k \in 1..(Len(messages) - 1) : messages[k + 1][2] = messages[k][2] + 1

\* What is logged gets to the disk.
Delivered == \A s \in 0..(MaxTotal - 1) : s < log_total ~> Entry(s) \in Kept
=============================================================================
