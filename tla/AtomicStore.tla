---------------------------- MODULE AtomicStore ----------------------------
(***************************************************************************)
(* What the KFS redo journal promises to the mutating operations built on  *)
(* it (create, mkdir, unlink, write, truncate, chmod, chown): a store of   *)
(* blocks that changes only by whole transactions.  A transaction that     *)
(* reported success is in the store for good, one that reported an error   *)
(* on a filesystem that stays mounted changed nothing, and one cut short   *)
(* by a stop (power loss, or a device error that takes the mount down)     *)
(* either happened completely or did not happen at all.                    *)
(***************************************************************************)
CONSTANTS Block,   \* the filesystem's blocks outside the journal area
          Data     \* what a block can hold

VARIABLES store,   \* the contents every later mount will expose
          tx,      \* the blocks the open transaction has written so far
          st,      \* "off", "idle", "open" or "done" (committed, not returned)
          ret      \* what the last mutator returned: "none", "ok" or "err"

avars == <<store, tx, st, ret>>

\* The partial functions from Block to Data: what a transaction may hold.
Writes == UNION {[S -> Data] : S \in SUBSET Block}

NoWrites == [b \in {} |-> b]

Overlay(s, w) == [b \in Block |-> IF b \in DOMAIN w THEN w[b] ELSE s[b]]

AInit ==
    /\ store \in [Block -> Data]
    /\ tx = NoWrites
    /\ st = "off"
    /\ ret = "none"

AMount ==
    /\ st = "off"
    /\ st' = "idle"
    /\ tx' = NoWrites
    /\ UNCHANGED <<store, ret>>

ABegin ==
    /\ st = "idle"
    /\ st' = "open"
    /\ tx' = NoWrites
    /\ ret' = "none"
    /\ UNCHANGED store

AWrite ==
    /\ st = "open"
    /\ \E b \in Block, d \in Data :
          tx' = [c \in DOMAIN tx \cup {b} |-> IF c = b THEN d ELSE tx[c]]
    /\ UNCHANGED <<store, st, ret>>

ACommit ==
    /\ st = "open"
    /\ st' = "done"
    /\ store' = Overlay(store, tx)
    /\ UNCHANGED <<tx, ret>>

\* A transaction that wrote nothing has nothing to install.
AReturnOk ==
    /\ st = "done" \/ (st = "open" /\ tx = NoWrites)
    /\ st' = "idle"
    /\ tx' = NoWrites
    /\ ret' = "ok"
    /\ UNCHANGED store

AReturnErr ==
    /\ st = "open"
    /\ st' = "idle"
    /\ tx' = NoWrites
    /\ ret' = "err"
    /\ UNCHANGED store

\* A stop loses the open transaction, or installs all of it.
AStop ==
    /\ st' = "off"
    /\ tx' = NoWrites
    /\ ret' \in {"none", "err"}
    /\ \/ UNCHANGED store
       \/ st = "open" /\ store' = Overlay(store, tx)

ANext == AMount \/ ABegin \/ AWrite \/ ACommit \/ AReturnOk \/ AReturnErr \/ AStop

ASpec == AInit /\ [][ANext]_avars
=============================================================================
