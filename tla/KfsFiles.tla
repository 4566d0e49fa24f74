------------------------------ MODULE KfsFiles ------------------------------
(***************************************************************************)
(* The files of KFS: allocation, block mapping, directories, and the       *)
(* open, close, read-write position, unlink and mkdir operations above     *)
(* them, from kernel/kfs.c.                                                *)
(*                                                                         *)
(* A public kfs_* entry point holds the filesystem lock and is one         *)
(* transaction, so it is one step: KfsJournal shows that it happens        *)
(* entirely or not at all.  An operation of the fs_ops layer calls several *)
(* of them, and other tasks run in between.  Sizes are counted in units, a *)
(* directory entry being one unit.  The callers are permitted everything,  *)
(* and what is in a data block is not told apart.                          *)
(***************************************************************************)
EXTENDS Integers, Sequences, FiniteSets, SequencesExt, FiniteSetsExt

CONSTANTS
    Task,
    inode_count,   \* inode numbers are 1..inode_count; 1 is the root
    total_blocks,  \* data blocks are 1..total_blocks
    NDIRECT, NINDIRECT,
    BLOCK_SIZE,    \* units in a block
    Path,          \* the paths used: sequences of names
    Flags,         \* the sets of flags files are opened with
    MaxWrite,      \* units written by one call: FILE_CHUNK
    OPEN_INODES,   \* slots of the open-inode table
    Seek           \* the offsets given to seek

ASSUME SizeAssumption ==
    /\ {inode_count, NDIRECT, BLOCK_SIZE, MaxWrite, OPEN_INODES} \subseteq Nat \ {0}
    /\ {total_blocks, NINDIRECT} \subseteq Nat /\ Seek \subseteq Int
    /\ BLOCK_SIZE >= 2 /\ MaxWrite <= BLOCK_SIZE /\ total_blocks >= 1

Ino == 1..inode_count
Root == 1
Block == 1..total_blocks
Fbn == 0..(NDIRECT + NINDIRECT - 1)
MAX_FILE_SIZE == (NDIRECT + NINDIRECT) * BLOCK_SIZE

VARIABLES
    fs,           \* the inodes, the bitmap and free_blocks, as committed
    open_inodes,  \* the open count of an inode
    handle,       \* a task's open file, or NoHandle
    op,           \* the operation a task is in, or Idle
    raced         \* history: 1 once an open has met a removal, 2 once such an
                  \* open has truncated what it did not look up

vars == <<fs, open_inodes, handle, op, raced>>

FreeInode == [type |-> "free", size |-> 0, ptr |-> [n \in Fbn |-> 0], indirect |-> 0,
              slot |-> <<>>, mtime |-> 0]
NoHandle == [ino |-> 0, pos |-> 0, flags |-> {}, stale |-> FALSE]
Idle == [call |-> "none", at |-> "idle", path |-> <<>>, rest |-> <<>>, cur |-> 0,
         ino |-> 0, type |-> "free", flags |-> {}, stale |-> FALSE]

-----------------------------------------------------------------------------
(* The allocators.  Each takes the filesystem d and returns it changed. *)

\* The faulty variant that would miss the end of the bitmap.
balloc_PastEnd(d) ==
    LET b == Min((1..(total_blocks + 1)) \ d.bitmap) IN
    [fs |-> [d EXCEPT !.bitmap = @ \cup {b}, !.free_blocks = @ - 1], blk |-> b]

\* balloc: the lowest clear bit; 0 when there is none.
balloc(d) ==
    IF Block \subseteq d.bitmap THEN [fs |-> d, blk |-> 0]
    ELSE LET b == Min(Block \ d.bitmap) IN
         [fs |-> [d EXCEPT !.bitmap = @ \cup {b}, !.free_blocks = @ - 1], blk |-> b]

\* bfree, of all the blocks in the set: a block that is free already stays so.
bfree(d, blks) ==
    [d EXCEPT !.bitmap = @ \ blks, !.free_blocks = @ + Cardinality(blks \cap d.bitmap)]

\* ialloc: the first free slot; 0 when there is none.
ialloc(d, type) ==
    LET free == {i \in Ino : d.inode[i].type = "free"} IN
    IF free = {} THEN [fs |-> d, ino |-> 0]
    ELSE [fs |-> [d EXCEPT !.inode[Min(free)] = [FreeInode EXCEPT !.type = type, !.mtime = 1]],
          ino |-> Min(free)]

\* bmap with alloc set: the indirect block first, when the file needs it, and
\* it stays if there is no block left for the data.
bmap(d, i, fbn) ==
    LET ip == d.inode[i]
        two == fbn >= NDIRECT /\ ip.indirect = 0
        ind == IF two THEN balloc(d) ELSE [fs |-> d, blk |-> ip.indirect]
        d1 == IF two THEN [ind.fs EXCEPT !.inode[i].indirect = ind.blk] ELSE d
        got == balloc(d1)
    IN  IF fbn \notin Fbn THEN [fs |-> d, blk |-> 0]
        ELSE IF ip.ptr[fbn] # 0 THEN [fs |-> d, blk |-> ip.ptr[fbn]]
        ELSE IF two /\ ind.blk = 0 THEN [fs |-> d, blk |-> 0]
        ELSE IF got.blk = 0 THEN [fs |-> d1, blk |-> 0]
        ELSE [fs |-> [got.fs EXCEPT !.inode[i].ptr[fbn] = got.blk], blk |-> got.blk]

\* writei: unit after unit until no block can be mapped.
writei(d, i, off, n) ==
    LET unit(acc, k) ==
            LET pos == off + k - 1
                m == bmap(acc.fs, i, pos \div BLOCK_SIZE)
            IN  IF acc.full THEN acc
                ELSE IF m.blk = 0 THEN [acc EXCEPT !.fs = m.fs, !.full = TRUE]
                ELSE [fs |-> [m.fs EXCEPT !.inode[i].mtime = 1,
                                 !.inode[i].size = IF pos + 1 > @ THEN pos + 1 ELSE @],
                      done |-> acc.done + 1, full |-> FALSE]
    IN  IF off > MAX_FILE_SIZE \/ n > MAX_FILE_SIZE - off
        THEN [fs |-> d, done |-> 0, full |-> TRUE]
        ELSE FoldLeft(unit, [fs |-> d, done |-> 0, full |-> FALSE], [k \in 1..n |-> k])

Mapped(ip) == ({ip.ptr[n] : n \in Fbn} \cup {ip.indirect}) \ {0}

\* The faulty variant that would forget the indirect block.
truncate_locked_KeepsIndirect(d, i) ==
    [bfree(d, {d.inode[i].ptr[n] : n \in Fbn} \ {0}) EXCEPT
        !.inode[i] = [FreeInode EXCEPT !.type = d.inode[i].type, !.mtime = 1]]

truncate_locked(d, i) ==
    [bfree(d, Mapped(d.inode[i])) EXCEPT
        !.inode[i] = [FreeInode EXCEPT !.type = d.inode[i].type, !.mtime = 1]]

-----------------------------------------------------------------------------
(* Directories. *)

\* dir_lookup: 0 when dir is no directory or has no such name.
dir_lookup(d, dir, name) ==
    LET s == d.inode[dir].slot
        hit == {k \in 1..Len(s) : s[k].ino # 0 /\ s[k].name = name}
    IN  IF d.inode[dir].type # "dir" \/ hit = {} THEN 0 ELSE s[Min(hit)].ino

\* dir_add: into the first free slot, else at the end.
dir_add(d, dir, name, ino) ==
    LET s == d.inode[dir].slot
        free == {k \in 1..Len(s) : s[k].ino = 0}
        at == IF free = {} THEN Len(s) + 1 ELSE Min(free)
        w == writei(d, dir, at - 1, 1)
        entry == [name |-> name, ino |-> ino]
    IN  [ok |-> w.done = 1,
         fs |-> [w.fs EXCEPT !.inode[dir].slot =
                   IF free = {} THEN Append(@, entry) ELSE [@ EXCEPT ![at] = entry]]]

\* dir_remove of a name that is there.
dir_remove(d, dir, name) ==
    LET s == d.inode[dir].slot
        at == Min({k \in 1..Len(s) : s[k].ino # 0 /\ s[k].name = name})
    IN  [d EXCEPT !.inode[dir].slot[at] = [name |-> "", ino |-> 0], !.inode[dir].mtime = 1]

dir_is_empty(d, dir) ==
    \A k \in 1..Len(d.inode[dir].slot) :
        d.inode[dir].slot[k].ino = 0 \/ d.inode[dir].slot[k].name \in {".", ".."}

\* lookup_parent: the directory that holds the last name of path, or 0.
lookup_parent(d, path) ==
    LET step(cur, name) == IF cur = 0 THEN 0 ELSE dir_lookup(d, cur, name)
        dir == FoldLeft(step, Root, Front(path))
    IN  IF dir # 0 /\ (dir = Root \/ d.inode[dir].type = "dir") THEN dir ELSE 0

-----------------------------------------------------------------------------
(* The transactions: what they commit, and whether they do. *)

\* The faulty variant that would not look for the name again.
Created_NoLookup(d, path) ==
    LET parent == lookup_parent(d, path)
        i == ialloc(d, "file")
        a == dir_add(i.fs, parent, Last(path), i.ino)
    IN  IF parent # 0 /\ i.ino # 0 /\ a.ok
        THEN [ok |-> TRUE, fs |-> a.fs, ino |-> i.ino]
        ELSE [ok |-> FALSE, fs |-> d, ino |-> 0]

\* kfs_create: nothing is committed when it fails half-way.
Created(d, path) ==
    LET parent == lookup_parent(d, path)
        i == ialloc(d, "file")
        a == dir_add(i.fs, parent, Last(path), i.ino)
        ok == parent # 0 /\ dir_lookup(d, parent, Last(path)) = 0 /\ i.ino # 0 /\ a.ok
    IN  IF ok THEN [ok |-> TRUE, fs |-> a.fs, ino |-> i.ino]
        ELSE [ok |-> FALSE, fs |-> d, ino |-> 0]

\* The faulty variant that would make every directory a child of the root.
MadeDir_DotDotRoot(d, path) ==
    LET parent == lookup_parent(d, path)
        i == ialloc(d, "dir")
        dot == dir_add(i.fs, i.ino, ".", i.ino)
        dotdot == dir_add(dot.fs, i.ino, "..", Root)
        a == dir_add(dotdot.fs, parent, Last(path), i.ino)
        ok == /\ parent # 0 /\ dir_lookup(d, parent, Last(path)) = 0 /\ i.ino # 0
              /\ dot.ok /\ dotdot.ok /\ a.ok
    IN  [ok |-> ok, fs |-> IF ok THEN a.fs ELSE d]

\* kfs_mkdir
MadeDir(d, path) ==
    LET parent == lookup_parent(d, path)
        i == ialloc(d, "dir")
        dot == dir_add(i.fs, i.ino, ".", i.ino)
        dotdot == dir_add(dot.fs, i.ino, "..", parent)
        a == dir_add(dotdot.fs, parent, Last(path), i.ino)
        ok == /\ parent # 0 /\ dir_lookup(d, parent, Last(path)) = 0 /\ i.ino # 0
              /\ dot.ok /\ dotdot.ok /\ a.ok
    IN  [ok |-> ok, fs |-> IF ok THEN a.fs ELSE d]

\* The faulty variant that would remove a directory that has entries.
Unlinked_NotEmpty(d, path) ==
    LET parent == lookup_parent(d, path)
        i == IF parent = 0 THEN 0 ELSE dir_lookup(d, parent, Last(path))
        ok == i # 0
        t == truncate_locked(dir_remove(d, parent, Last(path)), i)
    IN  [ok |-> ok, ino |-> i, fs |-> IF ok THEN [t EXCEPT !.inode[i] = FreeInode] ELSE d]

\* kfs_unlink: the name goes, then the blocks, then the inode.
Unlinked(d, path) ==
    LET parent == lookup_parent(d, path)
        i == IF parent = 0 THEN 0 ELSE dir_lookup(d, parent, Last(path))
        ok == i # 0 /\ (d.inode[i].type = "dir" => dir_is_empty(d, i))
        t == truncate_locked(dir_remove(d, parent, Last(path)), i)
    IN  [ok |-> ok, ino |-> i, fs |-> IF ok THEN [t EXCEPT !.inode[i] = FreeInode] ELSE d]

-----------------------------------------------------------------------------
(* The operations of the fs_ops layer. *)

Do(t, o) == op' = [op EXCEPT ![t] = o]
Return(t) == Do(t, Idle)
At(t, place) == op[t].at = place

\* An operation on a path begins with resolve.
Begin(t, call, path, flags) ==
    /\ op[t] = Idle
    /\ call = "open" => handle[t] = NoHandle
    /\ Do(t, [Idle EXCEPT !.call = call, !.at = "walk", !.path = path, !.rest = path,
                          !.cur = Root, !.flags = flags])
    /\ UNCHANGED <<fs, open_inodes, handle, raced>>

\* resolve with want_parent: kfs_iget of the directory reached so far.
ResolveGet(t) ==
    /\ At(t, "walk")
    /\ \/ fs.inode[op[t].cur].type # "dir" /\ Return(t)
       \/ /\ fs.inode[op[t].cur].type = "dir"
          /\ Do(t, [op[t] EXCEPT !.at = IF Len(op[t].rest) > 1 THEN "step"
                                        ELSE IF op[t].call = "mkdir" THEN "mkdir" ELSE "find"])
    /\ UNCHANGED <<fs, open_inodes, handle, raced>>

\* resolve: kfs_lookup_in of the next name.
ResolveStep(t) ==
    /\ At(t, "step")
    /\ LET next == dir_lookup(fs, op[t].cur, Head(op[t].rest)) IN
       \/ next = 0 /\ Return(t)
       \/ next # 0 /\ Do(t, [op[t] EXCEPT !.at = "walk", !.cur = next, !.rest = Tail(@)])
    /\ UNCHANGED <<fs, open_inodes, handle, raced>>

\* kfs_lookup_in of the last name, for open and unlink.
Find(t) ==
    /\ At(t, "find")
    /\ LET ino == dir_lookup(fs, op[t].cur, Head(op[t].rest))
           o == [op[t] EXCEPT !.ino = ino]
       IN  \/ ino = 0 /\ ("creat" \notin op[t].flags \/ op[t].call = "unlink") /\ Return(t)
           \/ ino = 0 /\ "creat" \in op[t].flags /\ op[t].call = "open"
                /\ Do(t, [o EXCEPT !.at = "create"])
           \/ ino # 0 /\ Do(t, [o EXCEPT !.at = IF op[t].call = "open" THEN "get" ELSE "check"])
    /\ UNCHANGED <<fs, open_inodes, handle, raced>>

OpenCreate(t) ==
    /\ At(t, "create")
    /\ LET c == Created(fs, op[t].path) IN
       \/ ~c.ok /\ Return(t) /\ UNCHANGED fs
       \/ c.ok /\ fs' = c.fs /\ Do(t, [op[t] EXCEPT !.at = "get", !.ino = c.ino])
    /\ UNCHANGED <<open_inodes, handle, raced>>

\* kfs_iget of the file to open: a directory is not opened for writing.
OpenGet(t) ==
    /\ At(t, "get")
    /\ LET type == fs.inode[op[t].ino].type IN
       \/ type = "dir" /\ op[t].flags # {} /\ Return(t)
       \/ ~(type = "dir" /\ op[t].flags # {})
            /\ Do(t, [op[t] EXCEPT !.at = "ref", !.type = type])
    /\ UNCHANGED <<fs, open_inodes, handle, raced>>

InUse == {i \in Ino : open_inodes[i] > 0}

\* inode_unref
Unref(i) == open_inodes' = [open_inodes EXCEPT ![i] = IF @ > 0 THEN @ - 1 ELSE 0]

\* An open that takes its reference too late: what it looked up has been
\* removed, or an unlink has made its test and not yet its removal.
Overlap(t) == op[t].stale \/ \E s \in Task : At(s, "remove")

\* inode_ref: the slot of the inode, or a free one, or -1.
inode_ref(t) ==
    /\ At(t, "ref")
    /\ LET i == op[t].ino
           trunc == "trunc" \in op[t].flags /\ op[t].type = "file"
       IN  \/ i \notin InUse /\ Cardinality(InUse) = OPEN_INODES /\ Return(t)
                /\ UNCHANGED <<open_inodes, raced>>
           \/ /\ i \in InUse \/ Cardinality(InUse) < OPEN_INODES
              /\ open_inodes' = [open_inodes EXCEPT ![i] = @ + 1]
              /\ raced' = IF Overlap(t) THEN Max({raced, 1}) ELSE raced
              /\ Do(t, [op[t] EXCEPT !.at = IF trunc THEN "trunc" ELSE "alloc"])
    /\ UNCHANGED <<fs, handle>>

\* O_TRUNC: kfs_truncate commits, or fails and the reference is given back.
OpenTruncate(t) ==
    /\ At(t, "trunc")
    /\ \/ /\ fs' = truncate_locked(fs, op[t].ino)
          /\ raced' = IF op[t].stale THEN 2 ELSE raced
          /\ Do(t, [op[t] EXCEPT !.at = "alloc"])
          /\ UNCHANGED open_inodes
       \/ Unref(op[t].ino) /\ Return(t) /\ UNCHANGED <<fs, raced>>
    /\ UNCHANGED handle

\* The faulty variant that would keep the reference when there is no memory.
Opened_KeepsRef(t) ==
    /\ At(t, "alloc")
    /\ \/ handle' = [handle EXCEPT ![t] = [ino |-> op[t].ino, pos |-> 0,
                                           flags |-> op[t].flags, stale |-> op[t].stale]]
       \/ UNCHANGED handle
    /\ Return(t)
    /\ UNCHANGED <<fs, open_inodes, raced>>

\* kzalloc of the handle, or no memory and the reference is given back.
Opened(t) ==
    /\ At(t, "alloc")
    /\ \/ /\ handle' = [handle EXCEPT ![t] = [ino |-> op[t].ino, pos |-> 0,
                                              flags |-> op[t].flags, stale |-> op[t].stale]]
          /\ UNCHANGED open_inodes
       \/ Unref(op[t].ino) /\ UNCHANGED handle
    /\ Return(t)
    /\ UNCHANGED <<fs, raced>>

\* kfs_op_close and inode_unref.
kfs_op_close(t) ==
    /\ op[t] = Idle /\ handle[t] # NoHandle
    /\ Unref(handle[t].ino)
    /\ handle' = [handle EXCEPT ![t] = NoHandle]
    /\ UNCHANGED <<fs, op, raced>>

\* The faulty variant that would only look at the caller's own handle.
UnlinkCheck_Own(t) ==
    /\ At(t, "check")
    /\ \/ handle[t].ino = op[t].ino /\ Return(t)
       \/ handle[t].ino # op[t].ino /\ Do(t, [op[t] EXCEPT !.at = "remove"])
    /\ UNCHANGED <<fs, open_inodes, handle, raced>>

\* kfs_op_unlink asks whether the inode is open, and then removes the path.
UnlinkCheck(t) ==
    /\ At(t, "check")
    /\ \/ open_inodes[op[t].ino] > 0 /\ Return(t)
       \/ open_inodes[op[t].ino] = 0 /\ Do(t, [op[t] EXCEPT !.at = "remove"])
    /\ UNCHANGED <<fs, open_inodes, handle, raced>>

\* Whoever holds the number of an inode that is freed now holds a stale one.
\* The path may lead to another inode than the one that was tested.
UnlinkRemove(t) ==
    /\ At(t, "remove")
    /\ LET u == Unlinked(fs, op[t].path)
           lost(r) == u.ok /\ r.ino = u.ino
       IN  /\ fs' = u.fs
           /\ raced' = IF u.ok /\ u.ino # op[t].ino THEN Max({raced, 1}) ELSE raced
           /\ handle' = [s \in Task |-> [handle[s] EXCEPT !.stale = @ \/ lost(handle[s])]]
           /\ op' = [s \in Task |-> IF s = t THEN Idle
                                    ELSE [op[s] EXCEPT !.stale = @ \/ lost(op[s])]]
    /\ UNCHANGED open_inodes

MkdirMake(t) ==
    /\ At(t, "mkdir")
    /\ fs' = MadeDir(fs, op[t].path).fs
    /\ Return(t)
    /\ UNCHANGED <<open_inodes, handle, raced>>

\* kfs_op_write without O_APPEND is one transaction; with it the size is read
\* first, in another.
WriteCall(t) ==
    /\ op[t] = Idle /\ handle[t].flags \cap {"write", "append"} # {}
    /\ \/ "append" \in handle[t].flags
            /\ handle' = [handle EXCEPT ![t].pos = fs.inode[handle[t].ino].size]
       \/ "append" \notin handle[t].flags /\ UNCHANGED handle
    /\ Do(t, [Idle EXCEPT !.call = "write", !.at = "write"])
    /\ UNCHANGED <<fs, open_inodes, raced>>

kfs_write(t, n) ==
    /\ At(t, "write")
    /\ LET h == handle[t]
           w == writei(fs, h.ino, h.pos, n)
           ok == fs.inode[h.ino].type = "file" /\ w.done > 0
       IN  \/ ok /\ fs' = w.fs /\ handle' = [handle EXCEPT ![t].pos = @ + w.done]
           \/ ~ok /\ UNCHANGED <<fs, handle>>
    /\ Return(t)
    /\ UNCHANGED <<open_inodes, raced>>

\* kfs_op_seek from the start, the position or the end.
kfs_op_seek(t, off) ==
    /\ op[t] = Idle /\ handle[t] # NoHandle
    /\ \E base \in {0, handle[t].pos, fs.inode[handle[t].ino].size} :
          /\ base + off \in 0..MAX_FILE_SIZE
          /\ handle' = [handle EXCEPT ![t].pos = base + off]
    /\ UNCHANGED <<fs, open_inodes, op, raced>>

-----------------------------------------------------------------------------
\* mkfs: the root directory alone.
Init ==
    /\ fs = [inode |-> [i \in Ino |->
                IF i = Root
                THEN [FreeInode EXCEPT !.type = "dir", !.size = 2, !.mtime = 1,
                        !.ptr[0] = 1, !.slot = <<[name |-> ".", ino |-> Root],
                                                 [name |-> "..", ino |-> Root]>>]
                ELSE FreeInode],
             bitmap |-> {1}, free_blocks |-> total_blocks - 1]
    /\ open_inodes = [i \in Ino |-> 0]
    /\ handle = [t \in Task |-> NoHandle]
    /\ op = [t \in Task |-> Idle]
    /\ raced = 0

Next ==
    \E t \in Task :
       \/ \E path \in Path : \/ Begin(t, "unlink", path, {}) \/ Begin(t, "mkdir", path, {})
                             \/ \E flags \in Flags : Begin(t, "open", path, flags)
       \/ ResolveGet(t) \/ ResolveStep(t) \/ Find(t)
       \/ OpenCreate(t) \/ OpenGet(t) \/ inode_ref(t) \/ OpenTruncate(t) \/ Opened(t)
       \/ UnlinkCheck(t) \/ UnlinkRemove(t) \/ MkdirMake(t)
       \/ kfs_op_close(t) \/ WriteCall(t)
       \/ \E n \in 1..MaxWrite : kfs_write(t, n)
       \/ \E off \in Seek : kfs_op_seek(t, off)

Spec == Init /\ [][Next]_vars

-----------------------------------------------------------------------------
(* Properties: the invariants of docs/kfs.md, and the promise of the        *)
(* open-inode table.                                                        *)

TypeOK ==
    /\ \A i \in Ino :
       /\ fs.inode[i].type \in {"free", "file", "dir"}
       /\ fs.inode[i].size \in 0..MAX_FILE_SIZE
       /\ Mapped(fs.inode[i]) \subseteq Block
    /\ fs.bitmap \subseteq Block
    /\ \A t \in Task : handle[t].ino \in Ino \cup {0} /\ op[t].ino \in Ino \cup {0}

Slots(i) == {<<i, n>> : n \in {n \in Fbn : fs.inode[i].ptr[n] # 0}}
            \cup (IF fs.inode[i].indirect # 0 THEN {<<i, NDIRECT + NINDIRECT>>} ELSE {})

\* The bitmap marks exactly the blocks that live inodes map, no block is
\* mapped twice, and free_blocks is what is left.
BitmapExact ==
    /\ fs.bitmap = UNION {Mapped(fs.inode[i]) : i \in Ino}
    /\ Cardinality(fs.bitmap) = Cardinality(UNION {Slots(i) : i \in Ino})
    /\ fs.free_blocks = total_blocks - Cardinality(fs.bitmap)

Named(i) == {<<dir, k>> \in Ino \X (1..(MAX_FILE_SIZE)) :
                /\ k <= Len(fs.inode[dir].slot)
                /\ fs.inode[dir].slot[k].ino = i
                /\ fs.inode[dir].slot[k].name \notin {".", ".."}}

\* An inode is allocated exactly when one directory entry names it, the root
\* apart; and the size of a directory is that of its entries: as long as no
\* open has truncated an inode that was freed after it had looked it up.
NamedOnce ==
    raced < 2 =>
       /\ \A i \in Ino \ {Root} :
             Cardinality(Named(i)) = IF fs.inode[i].type = "free" THEN 0 ELSE 1
       /\ \A i \in Ino : fs.inode[i].type = "dir" => Len(fs.inode[i].slot) = fs.inode[i].size

\* The names of a directory are unique, and .. leads to the directory that
\* holds it.
AlwaysSound ==
    \A i \in Ino : fs.inode[i].type = "dir" =>
       LET s == fs.inode[i].slot IN
       /\ \A k, l \in 1..Len(s) : s[k].ino # 0 /\ s[l].ino # 0 /\ s[k].name = s[l].name => k = l
       /\ dir_lookup(fs, i, ".") = i
       /\ \A n \in Named(i) : dir_lookup(fs, i, "..") = n[1]

\* The same, as long as no open has truncated an inode that was freed after it
\* had looked it up.
TreeSound == raced < 2 => AlwaysSound

\* The open count of an inode is the number of handles on it and of opens that
\* hold their reference and have yet to get a handle: every way out of open
\* after inode_ref leaves a handle or gives the reference back.
CountExact ==
    \A i \in Ino : open_inodes[i] =
        Cardinality({t \in Task : handle[t].ino = i})
        + Cardinality({t \in Task : op[t].at \in {"trunc", "alloc"} /\ op[t].ino = i})

\* A handle is on the file it was opened as: its inode has not been freed, and
\* so not given to another file, since the name was looked up.
AlwaysPinned == \A t \in Task : ~handle[t].stale

\* The same whatever the other tasks open, close and remove, as long as no open
\* takes its reference while an unlink is between its test and its removal, or
\* after what it looked up has been removed, and no unlink removes another
\* inode than the one it tested.
HandlesPinned == raced = 0 => AlwaysPinned

Blocks(size) == (size + BLOCK_SIZE - 1) \div BLOCK_SIZE

\* Every block below the size of a file is allocated.
NoHoles ==
    \A i \in Ino : \A n \in Fbn : n < Blocks(fs.inode[i].size) => fs.inode[i].ptr[n] # 0

\* Nothing is allocated past the size of a file.
NothingPastSize ==
    \A i \in Ino :
       /\ \A n \in Fbn : n >= Blocks(fs.inode[i].size) => fs.inode[i].ptr[n] = 0
       /\ Blocks(fs.inode[i].size) <= NDIRECT => fs.inode[i].indirect = 0
=============================================================================
