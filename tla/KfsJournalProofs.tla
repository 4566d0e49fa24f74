------------------------- MODULE KfsJournalProofs -------------------------
(***************************************************************************)
(* Proofs about KfsJournal for any set of blocks, any contents and any     *)
(* journal size, with or without tearing of the commit record.             *)
(***************************************************************************)
EXTENDS KfsJournal, TLAPS

\* Coalescing: no two entries of a transaction name the same home block.
Distinct(e) == \A i, j \in 1..Len(e) : e[i].blk = e[j].blk => i = j

\* The first n entries of e are in their home blocks.
AppliedUpTo(h, e, n) == \A j \in 1..n : h[e[j].blk] = e[j].data

\* The checksum and the targets of a header are those of one transaction.
Matching(h) ==
    Len(h.sum) <= MaxEntries /\ \A j \in 1..Len(h.sum) : h.targets[j] = h.sum[j].blk

\* What an old, cut or half-cleared header may still hold is harmless: if its
\* checksum and targets agree, its transaction is either still committed or
\* already in the home blocks.
StaleHarmless(h, p, d) ==
    Matching(h) => Committed(h, p) \/ AppliedUpTo(d, h.sum, Len(h.sum))

\* A block that is not whole is one the commit record on disk will rewrite.
TornCovered(h, p, d) ==
    \A b \in Block : d[b] \notin Data => Committed(h, p) /\ b \in Targets(h.sum)

\* What is true of the disk wherever the power goes.
DiskOK(h, p, d) ==
    /\ h \in Header
    /\ p \in [Slots -> Content]
    /\ d \in [Block -> Content]
    /\ Distinct(h.sum)
    /\ StaleHarmless(h, p, d)
    /\ TornCovered(h, p, d)

CacheCoherent == \A b \in Block : cache[b] # None => cache[b] = home[b]

\* Before its commit record is written, a mutator finds no other on disk.
NoRecord ==
    pc \in {"idle", "open", "payload", "header"} => hdr.live = 0 /\ hdr.count = 0

NotFailed == pc # "open" => failed = 0

LoopFacts ==
    /\ pc \in {"payload", "header", "home", "clear", "replay", "rclear"} => ent # <<>>
    /\ pc \in {"payload", "home", "replay"} => idx <= Len(ent)
    /\ pc = "header" => idx = 1

PayloadFacts ==
    /\ pc = "payload" => \A j \in 1..(idx - 1) : pay[j] = ent[j].data
    /\ pc = "header" => \A j \in 1..Len(ent) : pay[j] = ent[j].data

\* Home blocks are written only under the commit record of these entries.
RecordFacts ==
    /\ pc \in {"home", "clear", "replay", "rclear"} => Committed(hdr, pay) /\ hdr.sum = ent
    /\ pc = "rdiscard" => ~Committed(hdr, pay)

HomeFacts ==
    /\ pc \in {"home", "replay"} => AppliedUpTo(home, ent, idx - 1)
    /\ pc \in {"clear", "rclear"} => AppliedUpTo(home, ent, Len(ent))

PcFacts ==
    NoRecord /\ NotFailed /\ LoopFacts /\ PayloadFacts /\ RecordFacts /\ HomeFacts

SbFacts ==
    /\ pc \in {"idle", "scan", "rdiscard"} => sb = home[SB]
    /\ pc \in {"open", "payload", "header"} => saved = home[SB]
    /\ pc \in {"open", "payload", "header", "home", "clear"} /\ failed = 0 =>
          sb = IF SB \in Targets(ent) THEN WritesOf(ent)[SB] ELSE home[SB]

IInv ==
    /\ TypeOK
    /\ DiskOK(hdr, pay, home)
    /\ Distinct(ent)
    /\ CacheCoherent
    /\ PcFacts
    /\ SbFacts

-----------------------------------------------------------------------------
(* Lemmas about entries and headers. *)

\* journal_pending finds, for a staged block, the data staged for it.
LEMMA WritesLemma ==
    ASSUME NEW e \in Seq(Entry), Distinct(e)
    PROVE  /\ DOMAIN WritesOf(e) = Targets(e)
           /\ \A j \in 1..Len(e) : /\ e[j].blk \in Targets(e)
                                   /\ WritesOf(e)[e[j].blk] = e[j].data
           /\ \A b \in Targets(e) : \E j \in 1..Len(e) : e[j].blk = b
           /\ Targets(e) \subseteq Block
           /\ \A b \in Targets(e) : WritesOf(e)[b] \in Data
<1>1. \A j \in 1..Len(e) : e[j] \in Entry
  OBVIOUS
<1>2. \A j \in 1..Len(e) : e[j].blk \in Block /\ e[j].data \in Data
  BY <1>1 DEF Entry
<1>3. \A b \in Targets(e) : \E j \in 1..Len(e) : e[j].blk = b
  BY DEF Targets
<1>4. DOMAIN WritesOf(e) = Targets(e)
  BY DEF WritesOf
<1>5. ASSUME NEW j \in 1..Len(e)
      PROVE  e[j].blk \in Targets(e) /\ WritesOf(e)[e[j].blk] = e[j].data
  <2>1. e[j].blk \in Targets(e)
    BY DEF Targets
  <2> DEFINE k == CHOOSE i \in 1..Len(e) : e[i].blk = e[j].blk
  <2>2. k \in 1..Len(e) /\ e[k].blk = e[j].blk
    OBVIOUS
  <2>3. k = j
    BY <2>2 DEF Distinct
  <2>4. WritesOf(e)[e[j].blk] = e[k].data
    BY <2>1 DEF WritesOf
  <2> QED BY <2>1, <2>3, <2>4
<1> QED BY <1>2, <1>3, <1>4, <1>5

\* Staging a block: the transaction afterwards writes d to b, and what it
\* wrote before to the other blocks.
Staged(e, f, b, d) ==
    /\ f \in Seq(Entry)
    /\ Distinct(f)
    /\ WritesOf(f) = [c \in Targets(e) \cup {b} |-> IF c = b THEN d ELSE WritesOf(e)[c]]

LEMMA StagedIntro ==
    ASSUME NEW e \in Seq(Entry), Distinct(e), NEW b \in Block, NEW d \in Data,
           NEW f \in Seq(Entry), Distinct(f), Targets(f) = Targets(e) \cup {b},
           \A j \in 1..Len(f) : \/ f[j].blk = b /\ f[j].data = d
                                \/ f[j].blk # b /\ \E i \in 1..Len(e) : f[j] = e[i]
    PROVE  Staged(e, f, b, d)
<1>1. DOMAIN WritesOf(f) = Targets(e) \cup {b}
  BY WritesLemma
<1>2. ASSUME NEW c \in Targets(f)
      PROVE  WritesOf(f)[c] = IF c = b THEN d ELSE WritesOf(e)[c]
  <2>1. PICK j \in 1..Len(f) : f[j].blk = c
    BY DEF Targets
  <2>2. WritesOf(f)[c] = f[j].data
    BY <2>1, WritesLemma
  <2>3. CASE c = b
    BY <2>1, <2>2, <2>3
  <2>4. CASE c # b
    <3>1. PICK i \in 1..Len(e) : f[j] = e[i]
      BY <2>1, <2>4
    <3>2. WritesOf(e)[e[i].blk] = e[i].data
      BY WritesLemma
    <3> QED BY <2>1, <2>2, <2>4, <3>1, <3>2
  <2> QED BY <2>3, <2>4
<1>3. WritesOf(f) = [c \in Targets(f) |-> WritesOf(f)[c]]
  BY DEF WritesOf
<1> QED BY <1>2, <1>3 DEF Staged

LEMMA CoalesceLemma ==
    ASSUME NEW e \in Seq(Entry), Distinct(e), NEW b \in Targets(e), NEW d \in Data,
           NEW f, f = [j \in 1..Len(e) |->
                         IF e[j].blk = b THEN [blk |-> b, data |-> d] ELSE e[j]]
    PROVE  Staged(e, f, b, d) /\ Len(f) = Len(e)
<1>0. b \in Block
  BY WritesLemma
<1>1. \A j \in 1..Len(e) : e[j] \in Entry
  OBVIOUS
<1>2. [blk |-> b, data |-> d] \in Entry
  BY <1>0 DEF Entry
<1>3. \A j \in 1..Len(e) : f[j] \in Entry
  BY <1>1, <1>2
<1>4. f \in Seq(Entry) /\ Len(f) = Len(e)
  BY <1>3
<1>5. \A j \in 1..Len(e) : f[j].blk = e[j].blk
  OBVIOUS
<1>6. Distinct(f)
  BY <1>4, <1>5 DEF Distinct
<1>7. Targets(f) = Targets(e) \cup {b}
  BY <1>4, <1>5 DEF Targets
<1>8. ASSUME NEW j \in 1..Len(f)
      PROVE  \/ f[j].blk = b /\ f[j].data = d
             \/ f[j].blk # b /\ \E i \in 1..Len(e) : f[j] = e[i]
  <2>0. j \in 1..Len(e)
    BY <1>4
  <2>1. CASE e[j].blk = b
    BY <2>0, <2>1
  <2>2. CASE e[j].blk # b
    BY <2>0, <2>2
  <2> QED BY <2>1, <2>2
<1> QED BY <1>0, <1>4, <1>6, <1>7, <1>8, StagedIntro

LEMMA AppendLemma ==
    ASSUME NEW e \in Seq(Entry), Distinct(e), NEW b \in Block, b \notin Targets(e),
           NEW d \in Data, NEW f, f = Append(e, [blk |-> b, data |-> d])
    PROVE  Staged(e, f, b, d) /\ Len(f) = Len(e) + 1
<1>2. [blk |-> b, data |-> d] \in Entry
  BY DEF Entry
<1>4. f \in Seq(Entry) /\ Len(f) = Len(e) + 1
  BY <1>2
<1>5. /\ \A j \in 1..Len(e) : f[j] = e[j]
      /\ f[Len(e) + 1] = [blk |-> b, data |-> d]
  BY <1>2
<1>6. f[Len(e) + 1].blk = b /\ f[Len(e) + 1].data = d
  BY <1>5
<1>7. \A j \in 1..Len(e) : e[j].blk # b
  BY DEF Targets
<1>8. Distinct(f)
  BY <1>4, <1>5, <1>6, <1>7 DEF Distinct
<1>9. Targets(f) = Targets(e) \cup {b}
  BY <1>4, <1>5, <1>6 DEF Targets
<1>10. \A j \in 1..Len(f) : \/ f[j].blk = b /\ f[j].data = d
                            \/ f[j].blk # b /\ \E i \in 1..Len(e) : f[j] = e[i]
  BY <1>4, <1>5, <1>6, <1>7
<1> QED BY <1>4, <1>8, <1>9, <1>10, StagedIntro

\* When journal_recover accepts a header, in terms of its words.
LEMMA CommittedLemma ==
    ASSUME NEW h \in Header, NEW p \in [Slots -> Content], Distinct(h.sum)
    PROVE  Committed(h, p) <=>
              /\ h.live = 1
              /\ h.count \in Slots
              /\ Len(h.sum) = h.count
              /\ \A j \in 1..h.count : /\ h.targets[j] = h.sum[j].blk
                                      /\ p[j] = h.sum[j].data
<1>0. /\ h.count \in 0..MaxEntries /\ h.sum \in Seq(Entry)
      /\ MaxEntries \in Nat
  BY EntriesAssumption DEF Header
<1>1. ASSUME Committed(h, p)
      PROVE  /\ h.live = 1
             /\ h.count \in Slots
             /\ Len(h.sum) = h.count
             /\ \A j \in 1..h.count : /\ h.targets[j] = h.sum[j].blk
                                     /\ p[j] = h.sum[j].data
  <2>1. h.sum = Loaded(h, p) /\ h.live = 1 /\ h.count \in Slots
    BY <1>1 DEF Committed, WellFormed
  <2>2. Len(h.sum) = h.count
    BY <1>0, <2>1 DEF Loaded
  <2>3. \A j \in 1..h.count : h.sum[j] = [blk |-> h.targets[j], data |-> p[j]]
    BY <2>1 DEF Loaded
  <2>4. \A j \in 1..h.count : h.targets[j] = h.sum[j].blk /\ p[j] = h.sum[j].data
    <3> TAKE j \in 1..h.count
    <3> DEFINE r == [blk |-> h.targets[j], data |-> p[j]]
    <3>1. h.sum[j] = r
      BY <2>3
    <3>2. r.blk = h.targets[j] /\ r.data = p[j]
      OBVIOUS
    <3> QED BY <3>1, <3>2
  <2> QED BY <2>1, <2>2, <2>4
<1>2. ASSUME h.live = 1, h.count \in Slots, Len(h.sum) = h.count,
             \A j \in 1..h.count : /\ h.targets[j] = h.sum[j].blk
                                 /\ p[j] = h.sum[j].data
      PROVE  Committed(h, p)
  <2>1. \A j \in 1..h.count : h.sum[j] \in Entry
    BY <1>0, <1>2
  <2>2. \A j \in 1..h.count : h.sum[j] = [blk |-> h.targets[j], data |-> p[j]]
    BY <1>2, <2>1 DEF Entry
  <2>3. h.sum = Loaded(h, p)
    BY <1>0, <1>2, <2>2 DEF Loaded
  <2>4. ~Duplicate(h)
    BY <1>0, <1>2 DEF Duplicate, Distinct
  <2> QED BY <1>2, <2>3, <2>4 DEF Committed, WellFormed
<1> QED BY <1>1, <1>2

\* A cut header has the new checksum, count and state or the old checksum and
\* targets.
CutOf(old, new, c) ==
    /\ c \in Header
    /\ \/ c.sum = new.sum /\ c.live = new.live /\ c.count = new.count
       \/ c.sum = old.sum /\ \A i \in Slots : c.targets[i] = old.targets[i]

LEMMA CutLemma ==
    ASSUME NEW old \in Header, NEW new \in Header, NEW k \in Nat
    PROVE  CutOf(old, new, Cut(old, new, k))
<1>1. Cut(old, new, k) \in Header
  BY DEF Cut, Header, Slots
<1>2. CASE k >= 3
  BY <1>1, <1>2 DEF Cut, CutOf, Header
<1>3. CASE k < 3
  BY <1>1, <1>3, EntriesAssumption DEF Cut, CutOf, Header, Slots
<1> QED BY <1>2, <1>3

LEMMA HeadersLemma ==
    /\ CleanHeader \in Header /\ CleanHeader.live = 0
    /\ CleanHeader.count = 0 /\ CleanHeader.sum = <<>>
    /\ \A e \in Seq(Entry) : Len(e) <= MaxEntries =>
          /\ HeaderOf(e) \in Header /\ HeaderOf(e).live = 1
          /\ HeaderOf(e).count = Len(e) /\ HeaderOf(e).sum = e
          /\ \A i \in 1..Len(e) : HeaderOf(e).targets[i] = e[i].blk
<1>1. /\ CleanHeader \in Header /\ CleanHeader.live = 0
      /\ CleanHeader.count = 0 /\ CleanHeader.sum = <<>>
  BY EntriesAssumption, BlockAssumption DEF CleanHeader, Header, Slots
<1>2. ASSUME NEW e \in Seq(Entry), Len(e) <= MaxEntries
      PROVE  /\ HeaderOf(e) \in Header /\ HeaderOf(e).live = 1
             /\ HeaderOf(e).count = Len(e) /\ HeaderOf(e).sum = e
             /\ \A i \in 1..Len(e) : HeaderOf(e).targets[i] = e[i].blk
  <2>1. \A i \in 1..Len(e) : e[i].blk \in Block
    <3>1. \A i \in 1..Len(e) : e[i] \in Entry
      OBVIOUS
    <3> QED BY <3>1 DEF Entry
  <2> QED BY <1>2, <2>1, EntriesAssumption, BlockAssumption
          DEF HeaderOf, Header, Slots
<1> QED BY <1>1, <1>2

-----------------------------------------------------------------------------
(* Every write of the commit and of the recovery keeps DiskOK, whether it    *)
(* completes or not.                                                         *)

\* A payload write under a header that is not a commit record.
LEMMA PayloadWrite ==
    ASSUME NEW h, NEW p, NEW d, DiskOK(h, p, d), h.live = 0,
           NEW i \in Slots, NEW v \in Content
    PROVE  DiskOK(h, [p EXCEPT ![i] = v], d)
<1> DEFINE q == [p EXCEPT ![i] = v]
<1>1. q \in [Slots -> Content]
  BY DEF DiskOK
<1>2. ~Committed(h, p) /\ ~Committed(h, q)
  BY DEF Committed, WellFormed
<1> HIDE DEF q
<1>3. StaleHarmless(h, q, d) /\ TornCovered(h, q, d)
  BY <1>2 DEF DiskOK, StaleHarmless, TornCovered
<1> QED BY <1>1, <1>3 DEF DiskOK, q

\* The payloads of e are in place: the commit record of e, or what a cut
\* leaves of it over a header that is not live, is not a different
\* transaction.
LEMMA HeaderWrite ==
    ASSUME NEW h, NEW p, NEW d, DiskOK(h, p, d), h.live = 0, h.count = 0,
           NEW e \in Seq(Entry), Len(e) \in Slots, Distinct(e),
           \A j \in 1..Len(e) : p[j] = e[j].data,
           NEW n \in InterruptedHeader(h, HeaderOf(e)) \cup {HeaderOf(e)}
    PROVE  /\ DiskOK(n, p, d)
           /\ Committed(n, p) => n.sum = e \/ AppliedUpTo(d, n.sum, Len(n.sum))
           /\ Committed(HeaderOf(e), p)
<1>0. MaxEntries \in Nat /\ Len(e) \in Nat /\ Len(e) >= 1 /\ Len(e) <= MaxEntries
  BY EntriesAssumption DEF Slots
<1>1. /\ HeaderOf(e) \in Header /\ HeaderOf(e).live = 1
      /\ HeaderOf(e).count = Len(e) /\ HeaderOf(e).sum = e
      /\ \A i \in 1..Len(e) : HeaderOf(e).targets[i] = e[i].blk
  BY <1>0, HeadersLemma
<1>2. Committed(HeaderOf(e), p)
  <2>1. p \in [Slots -> Content]
    BY DEF DiskOK
  <2> QED BY <1>1, <2>1, CommittedLemma
<1>3. /\ h \in Header /\ p \in [Slots -> Content] /\ d \in [Block -> Content]
      /\ Distinct(h.sum) /\ StaleHarmless(h, p, d)
      /\ \A b \in Block : d[b] \in Data
      /\ ~Committed(h, p)
  BY DEF DiskOK, TornCovered, Committed, WellFormed
<1>4. \A m : TornCovered(m, p, d)
  BY <1>3 DEF TornCovered
<1>5. CASE n = HeaderOf(e)
  <2>1. StaleHarmless(n, p, d)
    BY <1>2, <1>5 DEF StaleHarmless
  <2> QED BY <1>1, <1>2, <1>3, <1>4, <1>5, <2>1 DEF DiskOK
<1>6. CASE n = h
  BY <1>2, <1>3, <1>4, <1>6 DEF DiskOK
<1>7. CASE HeaderTears /\ n \in {Cut(h, HeaderOf(e), k) : k \in 0..(MaxEntries + 3)}
  <2> PICK k \in 0..(MaxEntries + 3) : n = Cut(h, HeaderOf(e), k)
    BY <1>7
  <2>1. k \in Nat /\ h \in Header /\ HeaderOf(e) \in Header
    BY <1>0, <1>1, <1>3
  <2>2. CutOf(h, HeaderOf(e), n)
    BY <2>1, CutLemma
  <2>3. Distinct(n.sum)
    BY <1>1, <1>3, <2>2 DEF CutOf
  <2>6. Committed(n, p) <=>
          /\ n.live = 1
          /\ n.count \in Slots
          /\ Len(n.sum) = n.count
          /\ \A j \in 1..n.count : /\ n.targets[j] = n.sum[j].blk
                                  /\ p[j] = n.sum[j].data
    BY <1>3, <2>2, <2>3, CommittedLemma DEF CutOf
  <2>4. CASE n.sum = HeaderOf(e).sum /\ n.live = HeaderOf(e).live
                                   /\ n.count = HeaderOf(e).count
    <3>1. n.sum = e /\ n.live = 1 /\ n.count = Len(e)
      BY <1>1, <2>4
    <3>2. ASSUME Matching(n) PROVE Committed(n, p)
      BY <2>6, <3>1, <3>2 DEF Matching
    <3> QED BY <1>2, <1>3, <1>4, <2>2, <2>3, <3>1, <3>2 DEF DiskOK, StaleHarmless, CutOf
  <2>5. CASE n.sum = h.sum /\ \A i \in Slots : n.targets[i] = h.targets[i]
    <3>3. Matching(n) => Matching(h)
      BY <1>0, <1>3, <2>5 DEF Matching, Slots, Header
    <3>4. Matching(n) => AppliedUpTo(d, n.sum, Len(n.sum))
      BY <1>3, <2>5, <3>3 DEF StaleHarmless
    <3>5. Committed(n, p) => Matching(n)
      BY <1>0, <2>6 DEF Matching, Slots
    <3> QED BY <1>2, <1>3, <1>4, <2>2, <2>3, <3>4, <3>5 DEF DiskOK, StaleHarmless, CutOf
  <2> QED BY <2>2, <2>4, <2>5 DEF CutOf
<1> QED BY <1>5, <1>6, <1>7 DEF InterruptedHeader
\* A write of one of the committed transaction's home blocks.
LEMMA HomeWrite ==
    ASSUME NEW h, NEW p, NEW d, DiskOK(h, p, d), Committed(h, p),
           NEW i \in 1..Len(h.sum), NEW v \in Interrupted(d[h.sum[i].blk], h.sum[i].data)
    PROVE  /\ DiskOK(h, p, [d EXCEPT ![h.sum[i].blk] = v])
           /\ h.sum[i].blk \in Block /\ h.sum[i].data \in Data
<1>1. /\ h.sum \in Seq(Entry) /\ d \in [Block -> Content] /\ Distinct(h.sum)
  BY DEF DiskOK, Header
<1>2. h.sum[i] \in Entry
  BY <1>1
<1>3. h.sum[i].blk \in Block /\ h.sum[i].data \in Data
  BY <1>2 DEF Entry
<1>4. h.sum[i].blk \in Targets(h.sum)
  BY DEF Targets
<1>5. v \in Content
  BY <1>1, <1>3 DEF Interrupted, Content
<1> DEFINE c == [d EXCEPT ![h.sum[i].blk] = v]
<1>6. c \in [Block -> Content]
  BY <1>1, <1>3, <1>5
<1>7. TornCovered(h, p, c)
  BY <1>1, <1>4 DEF TornCovered, DiskOK
<1>8. StaleHarmless(h, p, c)
  BY DEF StaleHarmless
<1> QED BY <1>3, <1>6, <1>7, <1>8 DEF DiskOK

\* Clearing a header whose transaction is in place or was never committed.
LEMMA ClearWrite ==
    ASSUME NEW h, NEW p, NEW d, DiskOK(h, p, d),
           Committed(h, p) => AppliedUpTo(d, h.sum, Len(h.sum)),
           NEW n \in InterruptedHeader(h, CleanHeader) \cup {CleanHeader}
    PROVE  /\ DiskOK(n, p, d)
           /\ \A b \in Block : d[b] \in Data
           /\ Committed(n, p) => AppliedUpTo(d, n.sum, Len(n.sum))
<1>0. /\ h \in Header /\ p \in [Slots -> Content] /\ d \in [Block -> Content]
      /\ h.sum \in Seq(Entry) /\ Distinct(h.sum) /\ MaxEntries \in Nat
      /\ CleanHeader \in Header /\ CleanHeader.sum = <<>>
  BY HeadersLemma, EntriesAssumption DEF DiskOK, Header
<1>1. \A j \in 1..Len(h.sum) : h.sum[j].blk \in Block /\ h.sum[j].data \in Data
  <2>1. \A j \in 1..Len(h.sum) : h.sum[j] \in Entry
    BY <1>0
  <2> QED BY <2>1 DEF Entry
<1>2. \A b \in Block : d[b] \in Data
  <2>1. ASSUME NEW b \in Block, d[b] \notin Data PROVE FALSE
    <3>1. Committed(h, p) /\ b \in Targets(h.sum)
      BY <2>1 DEF DiskOK, TornCovered
    <3>2. PICK j \in 1..Len(h.sum) : h.sum[j].blk = b
      BY <3>1 DEF Targets
    <3>3. d[b] = h.sum[j].data
      BY <3>1, <3>2 DEF AppliedUpTo
    <3> QED BY <1>1, <2>1, <3>3
  <2> QED BY <2>1
<1>3. \A m : TornCovered(m, p, d)
  BY <1>2 DEF TornCovered
<1>4. Matching(h) => AppliedUpTo(d, h.sum, Len(h.sum))
  BY DEF DiskOK, StaleHarmless
<1>5. CASE n.sum = <<>> /\ n \in Header
  <2>1. Distinct(n.sum) /\ AppliedUpTo(d, n.sum, Len(n.sum))
    BY <1>5 DEF Distinct, AppliedUpTo
  <2> QED BY <1>0, <1>2, <1>3, <1>5, <2>1 DEF DiskOK, StaleHarmless
<1>6. CASE n \in Header /\ n.sum = h.sum /\ \A i \in Slots : n.targets[i] = h.targets[i]
  <2>a. Len(h.sum) \in Nat /\ MaxEntries \in Nat
    BY <1>0, EntriesAssumption DEF Header
  <2>b. ASSUME Len(h.sum) <= MaxEntries, NEW j \in 1..Len(h.sum) PROVE j \in Slots
    BY <2>a, <2>b DEF Slots
  <2>1. Matching(n) => Matching(h)
    BY <1>6, <2>b DEF Matching
  <2>2. Matching(n) => AppliedUpTo(d, n.sum, Len(n.sum))
    BY <1>4, <1>6, <2>1
  <2>3. Committed(n, p) <=>
          /\ n.live = 1
          /\ n.count \in Slots
          /\ Len(n.sum) = n.count
          /\ \A j \in 1..n.count : /\ n.targets[j] = n.sum[j].blk
                                  /\ p[j] = n.sum[j].data
    BY <1>0, <1>6, CommittedLemma
  <2>4. Committed(n, p) => Matching(n)
    BY <1>0, <2>3 DEF Matching, Slots
  <2> QED BY <1>0, <1>2, <1>3, <1>6, <2>2, <2>4 DEF DiskOK, StaleHarmless
<1>7. CASE HeaderTears /\ n \in {Cut(h, CleanHeader, k) : k \in 0..(MaxEntries + 3)}
  <2> PICK k \in 0..(MaxEntries + 3) : n = Cut(h, CleanHeader, k)
    BY <1>7
  <2>1. k \in Nat
    BY <1>0
  <2>2. CutOf(h, CleanHeader, n)
    BY <1>0, <2>1, CutLemma
  <2> QED BY <1>0, <1>5, <1>6, <2>2 DEF CutOf
<1> QED BY <1>0, <1>5, <1>6, <1>7 DEF InterruptedHeader

-----------------------------------------------------------------------------
(* The inductive invariant. *)

\* A freshly made filesystem on a machine that is off.
LEMMA InitIInv == Init => IInv
<1> SUFFICES ASSUME Init PROVE IInv
  OBVIOUS
<1>1. /\ CleanHeader \in Header /\ CleanHeader.live = 0
      /\ CleanHeader.count = 0 /\ CleanHeader.sum = <<>>
  BY HeadersLemma
<1>2. TypeOK
  BY <1>1, EntriesAssumption DEF Init, TypeOK, Content, EmptyCache, Slots
<1>3. DiskOK(hdr, pay, home)
  BY <1>1 DEF Init, DiskOK, StaleHarmless, TornCovered, Distinct, AppliedUpTo, Content
<1>4. Distinct(ent) /\ CacheCoherent /\ SbFacts
  BY DEF Init, Distinct, CacheCoherent, EmptyCache, SbFacts
<1>5. PcFacts
  BY DEF Init, PcFacts, NoRecord, NotFailed, LoopFacts, PayloadFacts, RecordFacts,
         HomeFacts
<1> QED BY <1>2, <1>3, <1>4, <1>5 DEF IInv

\* Outside the loops over the entries little is claimed.
LEMMA OutsideLoops ==
    ASSUME pc' \in {"off", "idle", "open", "scan"}, pc' # "open" => failed' = 0,
           pc' \in {"idle", "open"} => hdr'.live = 0 /\ hdr'.count = 0
    PROVE  PcFacts'
  BY DEF PcFacts, NoRecord, NotFailed, LoopFacts, PayloadFacts, RecordFacts, HomeFacts

\* What the invariant says of the header and of journal_failed.
LEMMA Outset ==
    ASSUME IInv
    PROVE  /\ pc \in {"idle", "open", "payload", "header"} => hdr.live = 0 /\ hdr.count = 0
           /\ pc # "open" => failed = 0
  BY DEF IInv, PcFacts, NoRecord, NotFailed

\* Nothing the invariant speaks of changes.
LEMMA SameFacts ==
    ASSUME PcFacts, UNCHANGED <<home, hdr, pay, ent, failed, pc, idx>> PROVE PcFacts'
<1>1. NoRecord' /\ NotFailed'
  BY DEF PcFacts, NoRecord, NotFailed
<1>2. LoopFacts' /\ PayloadFacts'
  BY DEF PcFacts, LoopFacts, PayloadFacts
<1>3. RecordFacts' /\ HomeFacts'
  BY DEF PcFacts, RecordFacts, HomeFacts
<1> QED BY <1>1, <1>2, <1>3 DEF PcFacts

\* Losing power in any state of the disk that DiskOK describes.
LEMMA LoseMemoryIInv ==
    ASSUME TypeOK, LoseMemory, DiskOK(hdr', pay', home') PROVE IInv'
<1>1. TypeOK'
  BY EntriesAssumption
  DEF TypeOK, LoseMemory, DiskOK, EmptyCache, Slots
<1>2. PcFacts'
  BY OutsideLoops DEF LoseMemory
<1> QED BY <1>1, <1>2 DEF LoseMemory, IInv, Distinct, CacheCoherent, EmptyCache, SbFacts

\* A device error that takes the mount down.
LEMMA TakeDownIInv ==
    ASSUME TypeOK, TakeDown, DiskOK(hdr', pay', home') PROVE IInv'
<1>1. TypeOK'
  BY EntriesAssumption
  DEF TypeOK, TakeDown, DiskOK, EmptyCache, Slots
<1>2. PcFacts'
  BY OutsideLoops DEF TakeDown
<1> QED BY <1>1, <1>2 DEF TakeDown, IInv, Distinct, CacheCoherent, EmptyCache, SbFacts

\* A mount that gives up after the disk was left in a state DiskOK describes.
LEMMA MountFailsIInv ==
    ASSUME TypeOK, MountFails, failed = 0, DiskOK(hdr', pay', home'),
           cache' \in [Block -> Content \cup {None}], CacheCoherent'
    PROVE  IInv'
<1>1. TypeOK'
  BY EntriesAssumption DEF TypeOK, MountFails, DiskOK, Slots
<1>2. PcFacts'
  BY OutsideLoops DEF MountFails
<1> QED BY <1>1, <1>2 DEF MountFails, IInv, Distinct, SbFacts

\* A mount that ends with no commit record on disk.
LEMMA MountDoneIInv ==
    ASSUME TypeOK, MountDone, failed = 0, DiskOK(hdr', pay', home'),
           hdr'.live = 0, hdr'.count = 0, sb' = home'[SB],
           cache' \in [Block -> Content \cup {None}], CacheCoherent'
    PROVE  IInv'
<1>0. sb' \in Content
  BY BlockAssumption DEF DiskOK
<1>1. TypeOK'
  BY <1>0, EntriesAssumption
  DEF TypeOK, MountDone, DiskOK, Slots, MountedPc
<1>2. PcFacts'
  BY OutsideLoops DEF MountDone
<1> QED BY <1>1, <1>2 DEF MountDone, IInv, Distinct, SbFacts

\* A mutator that returns on an instance that stays mounted.
LEMMA FinishIInv ==
    ASSUME NEW r \in {"ok", "err"}, TypeOK, Finish(r), DiskOK(hdr', pay', home'),
           hdr'.live = 0, hdr'.count = 0, sb' = home'[SB], UNCHANGED saved,
           cache' \in [Block -> Content \cup {None}], CacheCoherent'
    PROVE  IInv'
<1>0. sb' \in Content
  BY BlockAssumption DEF DiskOK
<1>1. TypeOK'
  BY <1>0, EntriesAssumption
  DEF TypeOK, Finish, DiskOK, Slots, MountedPc
<1>2. PcFacts'
  BY OutsideLoops DEF Finish
<1> QED BY <1>1, <1>2 DEF Finish, IInv, Distinct, SbFacts

LEMMA CacheIInv ==
    ASSUME IInv, NEW b \in Block, Read(b) \/ Evict(b) PROVE IInv'
<1>1. TypeOK /\ CacheCoherent /\ DiskOK(hdr, pay, home)
  BY DEF IInv
<1>2. TypeOK'
  BY <1>1 DEF TypeOK, Read, Evict, disk
<1>3. CacheCoherent'
  BY <1>1 DEF TypeOK, CacheCoherent, Read, Evict, disk
<1>4. /\ UNCHANGED <<home, hdr, pay, sb, saved, ent, failed, pc, idx>>
  BY DEF Read, Evict, disk
<1>5. PcFacts'
  BY <1>4, SameFacts DEF IInv
<1>6. SbFacts' /\ DiskOK(hdr', pay', home') /\ Distinct(ent')
  BY <1>4 DEF IInv, SbFacts
<1> QED BY <1>2, <1>3, <1>5, <1>6 DEF IInv

LEMMA BeginIInv == ASSUME IInv, journal_begin PROVE IInv'
<1>1. TypeOK'
  BY EntriesAssumption DEF IInv, TypeOK, journal_begin, disk, MountedPc
<1>2. Distinct(ent') /\ CacheCoherent' /\ DiskOK(hdr', pay', home')
  BY DEF IInv, journal_begin, disk, Distinct, CacheCoherent
<1>3. PcFacts'
  BY Outset, OutsideLoops DEF journal_begin, disk
<1>4. SbFacts'
  BY DEF IInv, journal_begin, disk, SbFacts, Targets
<1> QED BY <1>1, <1>2, <1>3, <1>4 DEF IInv

LEMMA StageIInv ==
    ASSUME IInv, NEW b \in Block, NEW d \in Data, journal_stage(b, d) PROVE IInv'
<1>0. /\ TypeOK /\ Distinct(ent) /\ pc = "open" /\ ent \in Seq(Entry)
      /\ UNCHANGED <<home, hdr, pay, cache, saved, pc, idx, ret>>
      /\ sb' = IF b = SB THEN d ELSE sb
      /\ MaxEntries \in Nat
  BY EntriesAssumption DEF IInv, TypeOK, journal_stage, disk
<1>1. \/ Staged(ent, ent', b, d) /\ Len(ent') <= MaxEntries /\ failed' = failed
      \/ ent' = ent /\ failed' = 1
  <2>1. CASE /\ b \in Targets(ent)
             /\ ent' = [j \in 1..Len(ent) |->
                          IF ent[j].blk = b THEN [blk |-> b, data |-> d] ELSE ent[j]]
             /\ UNCHANGED failed
    BY <1>0, <2>1, CoalesceLemma DEF TypeOK
  <2>2. CASE /\ b \notin Targets(ent)
             /\ Len(ent) < MaxEntries
             /\ ent' = Append(ent, [blk |-> b, data |-> d])
             /\ UNCHANGED failed
    <3>1. Staged(ent, ent', b, d) /\ Len(ent') = Len(ent) + 1
      BY <1>0, <2>2, AppendLemma
    <3> QED BY <1>0, <2>2, <3>1
  <2> QED BY <2>1, <2>2 DEF journal_stage
<1>2. ent' \in Seq(Entry) /\ Len(ent') <= MaxEntries /\ Distinct(ent')
  BY <1>0, <1>1 DEF Staged, TypeOK
<1>3. TypeOK'
  BY <1>0, <1>1, <1>2 DEF TypeOK, Content
<1>4. CacheCoherent' /\ DiskOK(hdr', pay', home')
  BY <1>0 DEF IInv, CacheCoherent
<1>5. PcFacts'
  BY <1>0, Outset, OutsideLoops
<1>6. SbFacts'
  <2>1. saved' = home'[SB]
    BY <1>0 DEF IInv, SbFacts
  <2>2. ASSUME failed' = 0
        PROVE  sb' = IF SB \in Targets(ent') THEN WritesOf(ent')[SB] ELSE home'[SB]
    <3>1. Staged(ent, ent', b, d) /\ failed = 0
      BY <1>1, <2>2
    <3>2. Targets(ent') = Targets(ent) \cup {b}
      BY <1>2, <3>1, WritesLemma DEF Staged
    <3>3. WritesOf(ent') = [c \in Targets(ent) \cup {b} |->
                              IF c = b THEN d ELSE WritesOf(ent)[c]]
      BY <3>1 DEF Staged
    <3>4. sb = IF SB \in Targets(ent) THEN WritesOf(ent)[SB] ELSE home[SB]
      BY <1>0, <3>1 DEF IInv, SbFacts
    <3> QED BY <1>0, <3>2, <3>3, <3>4
  <2> QED BY <1>0, <2>1, <2>2 DEF SbFacts
<1> QED BY <1>2, <1>3, <1>4, <1>5, <1>6 DEF IInv

LEMMA AbortIInv == ASSUME IInv, journal_abort \/ CommitNothing PROVE IInv'
<1>1. /\ UNCHANGED <<home, hdr, pay, cache, saved>>
      /\ Finish("err") \/ Finish("ok")
      /\ hdr.live = 0 /\ hdr.count = 0
      /\ TypeOK /\ DiskOK(hdr, pay, home)
  BY Outset DEF IInv, journal_abort, CommitNothing, disk
<1>2. sb' = home'[SB]
  BY <1>1 DEF IInv, SbFacts, journal_abort, CommitNothing, Targets
<1>3. CacheCoherent' /\ cache' \in [Block -> Content \cup {None}]
  BY <1>1 DEF IInv, CacheCoherent, TypeOK
<1> QED BY <1>1, <1>2, <1>3, FinishIInv

LEMMA StartIInv == ASSUME IInv, CommitStart PROVE IInv'
<1>1. UNCHANGED <<home, hdr, pay, cache, sb, saved, ent, failed, ret>>
  BY DEF CommitStart, disk
<1>2. TypeOK'
  BY <1>1, EntriesAssumption DEF IInv, TypeOK, CommitStart, MountedPc, Slots
<1>3. Distinct(ent') /\ CacheCoherent' /\ DiskOK(hdr', pay', home')
  BY <1>1 DEF IInv, CacheCoherent
<1>4. Len(ent) >= 1
  BY DEF IInv, TypeOK, CommitStart
<1>5. PcFacts'
  <2>1. hdr.live = 0 /\ hdr.count = 0 /\ failed = 0 /\ ent # <<>> /\ Len(ent) \in Nat
    BY Outset DEF IInv, TypeOK, CommitStart
  <2>2. pc' = "payload" /\ idx' = 1
    BY DEF CommitStart
  <2>3. LoopFacts' /\ PayloadFacts'
    BY <1>1, <1>4, <2>1, <2>2 DEF LoopFacts, PayloadFacts
  <2> QED BY <1>1, <2>1, <2>2, <2>3 DEF PcFacts, NoRecord, NotFailed, RecordFacts,
                                        HomeFacts
<1>6. SbFacts'
  BY <1>1 DEF IInv, SbFacts, CommitStart
<1> QED BY <1>2, <1>3, <1>5, <1>6 DEF IInv

\* Where the mutator writes a payload block, and its commit record.
LEMMA PayloadPhase ==
    ASSUME IInv, pc \in {"payload", "header"}
    PROVE  /\ hdr.live = 0 /\ hdr.count = 0 /\ failed = 0 /\ ent # <<>>
           /\ ent \in Seq(Entry) /\ MaxEntries \in Nat /\ Len(ent) <= MaxEntries
           /\ Len(ent) \in Slots /\ pay \in [Slots -> Content] /\ saved = home[SB]
           /\ pc = "payload" => /\ idx \in Slots /\ idx \in 1..Len(ent)
                                /\ \A j \in 1..(idx - 1) : pay[j] = ent[j].data
           /\ pc = "header" => idx = 1 /\ \A j \in 1..Len(ent) : pay[j] = ent[j].data
<1>1. hdr.live = 0 /\ hdr.count = 0 /\ failed = 0
  BY Outset
<1>2. /\ ent \in Seq(Entry) /\ MaxEntries \in Nat /\ Len(ent) <= MaxEntries
      /\ pay \in [Slots -> Content] /\ idx \in Slots
  BY EntriesAssumption DEF IInv, TypeOK
<1>3. ent # <<>> /\ (pc = "payload" => idx <= Len(ent)) /\ (pc = "header" => idx = 1)
  BY DEF IInv, PcFacts, LoopFacts
<1>4. Len(ent) \in Slots
  BY <1>2, <1>3 DEF Slots
<1>5. pc = "payload" => idx \in 1..Len(ent)
  BY <1>2, <1>3 DEF Slots
<1>6. /\ pc = "payload" => \A j \in 1..(idx - 1) : pay[j] = ent[j].data
      /\ pc = "header" => \A j \in 1..Len(ent) : pay[j] = ent[j].data
  BY DEF IInv, PcFacts, PayloadFacts
<1>7. saved = home[SB]
  BY DEF IInv, SbFacts
<1> QED BY <1>1, <1>2, <1>3, <1>4, <1>5, <1>6, <1>7

LEMMA PayloadIInv == ASSUME IInv, CommitPayload PROVE IInv'
<1>0. /\ TypeOK /\ DiskOK(hdr, pay, home) /\ Distinct(ent) /\ pc = "payload"
      /\ hdr.live = 0 /\ hdr.count = 0 /\ failed = 0 /\ ent # <<>>
      /\ idx \in Slots /\ idx \in 1..Len(ent) /\ ent \in Seq(Entry)
      /\ \A j \in 1..(idx - 1) : pay[j] = ent[j].data
      /\ saved = home[SB] /\ UNCHANGED <<home, hdr>>
      /\ MaxEntries \in Nat /\ Len(ent) <= MaxEntries
      /\ pay \in [Slots -> Content]
  BY PayloadPhase DEF IInv, CommitPayload
<1>1. ent[idx].data \in Data
  <2>1. ent[idx] \in Entry
    BY <1>0
  <2> QED BY <2>1 DEF Entry
<1>2. CASE /\ pay' = [pay EXCEPT ![idx] = ent[idx].data]
           /\ IF idx < Len(ent) THEN pc' = "payload" /\ idx' = idx + 1
                                ELSE pc' = "header" /\ idx' = 1
           /\ UNCHANGED <<cache, sb, saved, ent, failed, ret>>
  <2>1. DiskOK(hdr', pay', home')
    BY <1>0, <1>1, <1>2, PayloadWrite DEF Content
  <2>2. TypeOK'
    BY <1>0, <1>2, <2>1 DEF TypeOK, DiskOK, MountedPc, Slots
  <2>3. \A j \in 1..idx : pay'[j] = ent[j].data
    BY <1>0, <1>2 DEF Slots
  <2>4. PcFacts'
    <3>1. LoopFacts' /\ PayloadFacts'
      BY <1>0, <1>2, <2>3 DEF LoopFacts, PayloadFacts
    <3> QED BY <1>0, <1>2, <3>1 DEF PcFacts, NoRecord, NotFailed, RecordFacts, HomeFacts
  <2>5. SbFacts' /\ CacheCoherent' /\ Distinct(ent')
    BY <1>0, <1>2 DEF IInv, SbFacts, CacheCoherent
  <2> QED BY <2>1, <2>2, <2>4, <2>5 DEF IInv
<1>3. ASSUME NEW v \in Interrupted(pay[idx], ent[idx].data),
             pay' = [pay EXCEPT ![idx] = v],
             \/ sb' = saved /\ Finish("err") /\ UNCHANGED <<cache, saved>>
             \/ LoseMemory
      PROVE  IInv'
  <2>1. v \in Content
    BY <1>0, <1>1, <1>3 DEF Interrupted, Content
  <2>2. DiskOK(hdr', pay', home')
    BY <1>0, <1>3, <2>1, PayloadWrite
  <2>3. CASE LoseMemory
    BY <1>0, <2>2, <2>3, LoseMemoryIInv
  <2>4. CASE sb' = saved /\ Finish("err") /\ UNCHANGED <<cache, saved>>
    <3>1. CacheCoherent' /\ cache' \in [Block -> Content \cup {None}]
      BY <1>0, <2>4 DEF IInv, CacheCoherent, TypeOK
    <3> QED BY <1>0, <2>2, <2>4, <3>1, FinishIInv
  <2> QED BY <1>3, <2>3, <2>4
<1> QED BY <1>2, <1>3 DEF CommitPayload

LEMMA HeaderIInv == ASSUME IInv, CommitHeader PROVE IInv'
<1>0. /\ TypeOK /\ DiskOK(hdr, pay, home) /\ Distinct(ent) /\ pc = "header"
      /\ hdr.live = 0 /\ hdr.count = 0 /\ failed = 0 /\ ent # <<>>
      /\ Len(ent) \in Slots /\ ent \in Seq(Entry) /\ idx = 1
      /\ \A j \in 1..Len(ent) : pay[j] = ent[j].data
      /\ UNCHANGED <<home, pay>>
      /\ Len(ent) >= 1
  BY PayloadPhase DEF IInv, CommitHeader, Slots
<1>1. CASE /\ hdr' = HeaderOf(ent)
           /\ pc' = "home"
           /\ UNCHANGED <<cache, sb, saved, ent, failed, idx, ret>>
  <2>1. DiskOK(hdr', pay', home') /\ Committed(hdr', pay')
    BY <1>0, <1>1, HeaderWrite
  <2>2. hdr'.sum = ent'
    BY <1>1 DEF HeaderOf
  <2>3. TypeOK'
    BY <1>0, <1>1, <2>1 DEF TypeOK, DiskOK, MountedPc
  <2>4. PcFacts'
    <3>1. LoopFacts' /\ HomeFacts'
      BY <1>0, <1>1 DEF LoopFacts, HomeFacts, AppliedUpTo
    <3> QED BY <1>0, <1>1, <2>1, <2>2, <3>1 DEF PcFacts, NoRecord, NotFailed,
                                                PayloadFacts, RecordFacts
  <2>5. SbFacts' /\ CacheCoherent' /\ Distinct(ent')
    BY <1>0, <1>1 DEF IInv, SbFacts, CacheCoherent
  <2> QED BY <2>1, <2>3, <2>4, <2>5 DEF IInv
<1>2. CASE /\ hdr' \in InterruptedHeader(hdr, HeaderOf(ent))
           /\ TakeDown \/ LoseMemory
  <2>1. DiskOK(hdr', pay', home')
    BY <1>0, <1>2, HeaderWrite
  <2> QED BY <1>0, <1>2, <2>1, TakeDownIInv, LoseMemoryIInv
<1> QED BY <1>1, <1>2 DEF CommitHeader

\* Where the holder of the lock writes a home block.
LEMMA HomePhase ==
    ASSUME IInv, pc \in {"home", "replay"}
    PROVE  /\ DiskOK(hdr, pay, home) /\ Committed(hdr, pay) /\ hdr.sum = ent
           /\ idx \in 1..Len(ent) /\ home \in [Block -> Content]
           /\ failed = 0 /\ ent # <<>> /\ AppliedUpTo(home, ent, idx - 1)
<1>1. Committed(hdr, pay) /\ hdr.sum = ent
  BY DEF IInv, PcFacts, RecordFacts
<1>2. idx <= Len(ent) /\ ent # <<>>
  BY DEF IInv, PcFacts, LoopFacts
<1>3. idx \in Nat /\ idx >= 1 /\ home \in [Block -> Content] /\ Len(ent) \in Nat
  BY EntriesAssumption DEF IInv, TypeOK, Slots
<1>4. AppliedUpTo(home, ent, idx - 1)
  BY DEF IInv, PcFacts, HomeFacts
<1> QED BY <1>1, <1>2, <1>3, <1>4, Outset DEF IInv

\* The commit and the replay write home blocks alike.
LEMMA HomeLoop ==
    ASSUME IInv, pc \in {"home", "replay"}, UNCHANGED <<hdr, pay>>,
           home' = [home EXCEPT ![ent[idx].blk] = ent[idx].data],
           cache' = [cache EXCEPT ![ent[idx].blk] = ent[idx].data],
           \/ idx < Len(ent) /\ pc' = pc /\ idx' = idx + 1
           \/ /\ ~(idx < Len(ent)) /\ idx' = 1
              /\ pc' = IF pc = "home" THEN "clear" ELSE "rclear",
           UNCHANGED <<sb, saved, ent, failed, ret>>
    PROVE  IInv'
<1>a. TypeOK /\ Distinct(ent)
  BY DEF IInv
<1>b. /\ ent \in Seq(Entry) /\ Len(ent) \in Nat /\ Len(ent) <= MaxEntries
      /\ MaxEntries \in Nat \ {0}
  BY <1>a, EntriesAssumption DEF TypeOK
<1>c. idx \in 1..Len(ent) /\ idx \in Nat /\ idx >= 1 /\ idx <= Len(ent)
  BY <1>b, HomePhase
<1>0. /\ TypeOK /\ DiskOK(hdr, pay, home) /\ Distinct(ent)
      /\ failed = 0 /\ ent # <<>> /\ ent \in Seq(Entry)
      /\ Committed(hdr, pay) /\ hdr.sum = ent
      /\ AppliedUpTo(home, ent, idx - 1)
      /\ idx \in Nat /\ idx >= 1 /\ idx <= Len(ent) /\ idx \in 1..Len(ent)
  BY <1>a, <1>b, <1>c, HomePhase
<1>1. /\ DiskOK(hdr', pay', home')
      /\ ent[idx].blk \in Block /\ ent[idx].data \in Data
  BY <1>0, HomeWrite DEF Interrupted
<1>2. home \in [Block -> Content] /\ cache \in [Block -> Content \cup {None}]
  BY <1>0 DEF TypeOK
<1>3. \A j \in 1..Len(ent) : ent[j].blk \in Block
  BY <1>0, WritesLemma
<1>4. AppliedUpTo(home', ent, idx)
  BY <1>0, <1>1, <1>2, <1>3 DEF AppliedUpTo, Distinct
<1>5. cache' \in [Block -> Content \cup {None}]
  BY <1>1, <1>2 DEF Content
<1>6. TypeOK'
  <2>1. idx' \in Nat /\ idx' >= 1 /\ idx' <= Len(ent)
    BY <1>b, <1>c
  <2>4. idx' \in Slots
    BY <1>b, <2>1 DEF Slots
  <2>2. pc' \in {"home", "clear", "replay", "rclear"}
    OBVIOUS
  <2>3. /\ hdr' \in Header /\ pay' \in [Slots -> Content] /\ home' \in [Block -> Content]
    BY <1>1 DEF DiskOK
  <2> QED BY <1>0, <1>5, <2>2, <2>3, <2>4 DEF TypeOK, MountedPc, RecoveryPc
<1>7. CacheCoherent'
  BY <1>1, <1>2 DEF IInv, CacheCoherent
<1>8. PcFacts'
  <2>1. LoopFacts' /\ PayloadFacts'
    BY <1>0 DEF LoopFacts, PayloadFacts
  <2>2. RecordFacts'
    BY <1>0 DEF RecordFacts
  <2>3. HomeFacts'
    <3>1. CASE idx < Len(ent)
      BY <1>0, <1>4, <3>1 DEF HomeFacts
    <3>2. CASE ~(idx < Len(ent))
      <4>1. idx = Len(ent)
        BY <1>0, <3>2
      <4> QED BY <1>0, <1>4, <3>2, <4>1 DEF HomeFacts
    <3> QED BY <3>1, <3>2
  <2>4. NoRecord' /\ NotFailed'
    BY <1>0 DEF NoRecord, NotFailed
  <2> QED BY <2>1, <2>2, <2>3, <2>4 DEF PcFacts
<1>9. SbFacts'
  <2>1. ent[idx].blk \in Targets(ent)
    BY <1>0 DEF Targets
  <2> QED BY <1>0, <1>1, <1>2, <2>1, BlockAssumption DEF IInv, SbFacts
<1> QED BY <1>0, <1>1, <1>6, <1>7, <1>8, <1>9 DEF IInv

LEMMA HomeInterrupted ==
    ASSUME IInv, pc \in {"home", "replay"}, UNCHANGED <<hdr, pay>>,
           NEW v \in Interrupted(home[ent[idx].blk], ent[idx].data),
           home' = [home EXCEPT ![ent[idx].blk] = v]
    PROVE  DiskOK(hdr', pay', home') /\ ent[idx].blk \in Block
<1> QED BY HomePhase, HomeWrite

LEMMA HomeIInv == ASSUME IInv, CommitHome PROVE IInv'
<1>1. pc = "home" /\ TypeOK /\ UNCHANGED <<hdr, pay>>
  BY DEF CommitHome, IInv
<1>2. CASE /\ home' = [home EXCEPT ![ent[idx].blk] = ent[idx].data]
           /\ cache' = [cache EXCEPT ![ent[idx].blk] = ent[idx].data]
           /\ IF idx < Len(ent) THEN pc' = "home" /\ idx' = idx + 1
                                ELSE pc' = "clear" /\ idx' = 1
           /\ UNCHANGED <<sb, saved, ent, failed, ret>>
  BY <1>1, <1>2, HomeLoop
<1>3. ASSUME NEW v \in Interrupted(home[ent[idx].blk], ent[idx].data),
             home' = [home EXCEPT ![ent[idx].blk] = v],
             TakeDown \/ LoseMemory
      PROVE  IInv'
  <2>1. DiskOK(hdr', pay', home')
    BY <1>1, <1>3, HomeInterrupted
  <2> QED BY <1>1, <1>3, <2>1, TakeDownIInv, LoseMemoryIInv
<1> QED BY <1>2, <1>3 DEF CommitHome

LEMMA ClearIInv == ASSUME IInv, CommitClear PROVE IInv'
<1>0. /\ TypeOK /\ DiskOK(hdr, pay, home) /\ pc = "clear" /\ failed = 0
      /\ hdr.sum = ent /\ AppliedUpTo(home, ent, Len(ent))
      /\ ent \in Seq(Entry) /\ Distinct(ent) /\ UNCHANGED <<home, pay>>
  BY Outset DEF IInv, TypeOK, PcFacts, RecordFacts, HomeFacts, CommitClear
<1>1. ASSUME hdr' \in InterruptedHeader(hdr, CleanHeader) \cup {CleanHeader}
      PROVE  DiskOK(hdr', pay', home')
  BY <1>0, <1>1, ClearWrite
<1>2. sb = home[SB]
  <2>1. sb = IF SB \in Targets(ent) THEN WritesOf(ent)[SB] ELSE home[SB]
    BY <1>0 DEF IInv, SbFacts
  <2>2. ASSUME SB \in Targets(ent) PROVE WritesOf(ent)[SB] = home[SB]
    <3>1. PICK j \in 1..Len(ent) : ent[j].blk = SB
      BY <2>2 DEF Targets
    <3> QED BY <1>0, <3>1, WritesLemma DEF AppliedUpTo
  <2> QED BY <2>1, <2>2
<1>3. CASE /\ hdr' = CleanHeader
           /\ Finish("ok")
           /\ UNCHANGED <<cache, sb, saved>>
  <2>1. CacheCoherent' /\ cache' \in [Block -> Content \cup {None}]
    BY <1>0, <1>3 DEF IInv, CacheCoherent, TypeOK
  <2>2. hdr'.live = 0 /\ hdr'.count = 0
    BY <1>3, HeadersLemma
  <2> QED BY <1>0, <1>1, <1>2, <1>3, <2>1, <2>2, FinishIInv
<1>4. CASE /\ hdr' \in InterruptedHeader(hdr, CleanHeader)
           /\ TakeDown \/ LoseMemory
  BY <1>0, <1>1, <1>4, TakeDownIInv, LoseMemoryIInv
<1> QED BY <1>3, <1>4 DEF CommitClear

LEMMA MountIInv == ASSUME IInv, MountStart PROVE IInv'
<1>0. UNCHANGED <<home, hdr, pay, cache, saved, ent, failed, idx>>
  BY DEF MountStart, disk
<1>1. TypeOK'
  BY <1>0, BlockAssumption DEF IInv, TypeOK, MountStart, RecoveryPc
<1>2. Distinct(ent') /\ CacheCoherent' /\ DiskOK(hdr', pay', home')
  BY <1>0 DEF IInv, CacheCoherent
<1>3. SbFacts'
  BY <1>0 DEF MountStart, SbFacts
<1>4. PcFacts'
  BY <1>0, Outset, OutsideLoops DEF MountStart
<1> QED BY <1>1, <1>2, <1>3, <1>4 DEF IInv

LEMMA UnmountIInv == ASSUME IInv, Unmount PROVE IInv'
<1>0. UNCHANGED <<home, hdr, pay, sb, saved, ent, failed, idx>>
  BY DEF Unmount, disk
<1>1. TypeOK'
  BY <1>0 DEF IInv, TypeOK, Unmount, EmptyCache
<1>2. Distinct(ent') /\ CacheCoherent' /\ DiskOK(hdr', pay', home')
  BY <1>0 DEF IInv, CacheCoherent, Unmount, EmptyCache
<1>3. SbFacts'
  BY <1>0 DEF Unmount, SbFacts
<1>4. PcFacts'
  BY <1>0, Outset, OutsideLoops DEF Unmount
<1> QED BY <1>1, <1>2, <1>3, <1>4 DEF IInv

LEMMA ScanIInv == ASSUME IInv, RecoverScan \/ RecoverReadError PROVE IInv'
<1>0. /\ TypeOK /\ DiskOK(hdr, pay, home) /\ pc = "scan" /\ failed = 0
      /\ sb = home[SB] /\ UNCHANGED <<home, hdr, pay, cache>>
      /\ MaxEntries \in Nat \ {0}
  BY EntriesAssumption, Outset DEF IInv, SbFacts, RecoverScan, RecoverReadError, disk
<1>1. CacheCoherent' /\ cache' \in [Block -> Content \cup {None}]
  BY <1>0 DEF IInv, CacheCoherent, TypeOK
<1>2. CASE MountFails
  BY <1>0, <1>1, <1>2, MountFailsIInv
<1>3. CASE hdr.live = 0 /\ hdr.count = 0 /\ MountDone /\ UNCHANGED sb
  BY <1>0, <1>1, <1>3, MountDoneIInv
<1>4. CASE /\ ~Committed(hdr, pay)
           /\ pc' = "rdiscard"
           /\ UNCHANGED <<sb, saved, ent, failed, idx, ret>>
  <2>1. TypeOK'
    BY <1>0, <1>4 DEF TypeOK, RecoveryPc
  <2>2. SbFacts' /\ Distinct(ent')
    BY <1>0, <1>4 DEF IInv, SbFacts
  <2>3. PcFacts'
    BY <1>0, <1>4 DEF PcFacts, NoRecord, NotFailed, LoopFacts, PayloadFacts,
                      RecordFacts, HomeFacts
  <2> QED BY <1>0, <1>1, <2>1, <2>2, <2>3 DEF IInv
<1>5. CASE /\ Committed(hdr, pay)
           /\ pc' = "replay"
           /\ ent' = Loaded(hdr, pay)
           /\ idx' = 1
           /\ UNCHANGED <<sb, saved, failed, ret>>
  <2>1. ent' = hdr.sum
    BY <1>5 DEF Committed
  <2>2. /\ hdr \in Header /\ pay \in [Slots -> Content] /\ Distinct(hdr.sum)
        /\ hdr.sum \in Seq(Entry)
    BY <1>0 DEF DiskOK, Header
  <2>3. Len(hdr.sum) = hdr.count /\ hdr.count \in Slots
    BY <1>5, <2>2, CommittedLemma
  <2>4. Len(hdr.sum) >= 1 /\ Len(hdr.sum) <= MaxEntries /\ hdr.sum # <<>>
    BY <1>0, <2>2, <2>3 DEF Slots
  <2>5. TypeOK'
    BY <1>0, <1>5, <2>1, <2>2, <2>4 DEF TypeOK, RecoveryPc, Slots
  <2>6. PcFacts'
    <3>1. HomeFacts'
      BY <1>5 DEF HomeFacts, AppliedUpTo
    <3>2. LoopFacts'
      BY <1>5, <2>1, <2>4 DEF LoopFacts
    <3> QED BY <1>0, <1>5, <2>1, <3>1, <3>2 DEF PcFacts, NoRecord, NotFailed,
                                                PayloadFacts, RecordFacts
  <2>7. SbFacts' /\ Distinct(ent')
    BY <1>5, <2>1, <2>2 DEF SbFacts
  <2> QED BY <1>0, <1>1, <2>5, <2>6, <2>7 DEF IInv
<1> QED BY <1>2, <1>3, <1>4, <1>5 DEF RecoverScan, RecoverReadError

LEMMA ReplayIInv == ASSUME IInv, RecoverReplay PROVE IInv'
<1>1. pc = "replay" /\ TypeOK /\ CacheCoherent /\ failed = 0 /\ UNCHANGED <<hdr, pay>>
  BY Outset DEF RecoverReplay, IInv
<1>2. CASE /\ home' = [home EXCEPT ![ent[idx].blk] = ent[idx].data]
           /\ cache' = [cache EXCEPT ![ent[idx].blk] = ent[idx].data]
           /\ IF idx < Len(ent) THEN pc' = "replay" /\ idx' = idx + 1
                                ELSE pc' = "rclear" /\ idx' = 1
           /\ UNCHANGED <<sb, saved, ent, failed, ret>>
  BY <1>1, <1>2, HomeLoop
<1>3. ASSUME NEW v \in Interrupted(home[ent[idx].blk], ent[idx].data),
             home' = [home EXCEPT ![ent[idx].blk] = v],
             \/ MountFails /\ cache' = [cache EXCEPT ![ent[idx].blk] = None]
             \/ LoseMemory
      PROVE  IInv'
  <2>1. DiskOK(hdr', pay', home') /\ ent[idx].blk \in Block
    BY <1>1, <1>3, HomeInterrupted
  <2>2. CASE LoseMemory
    BY <1>1, <2>1, <2>2, LoseMemoryIInv
  <2>3. CASE MountFails /\ cache' = [cache EXCEPT ![ent[idx].blk] = None]
    <3>1. cache' \in [Block -> Content \cup {None}]
      BY <1>1, <2>3 DEF TypeOK
    <3>2. CacheCoherent'
      BY <1>1, <1>3, <2>1, <2>3 DEF CacheCoherent, TypeOK
    <3> QED BY <1>1, <2>1, <2>3, <3>1, <3>2, MountFailsIInv
  <2> QED BY <1>3, <2>2, <2>3
<1> QED BY <1>2, <1>3 DEF RecoverReplay

LEMMA RecoverClearIInv == ASSUME IInv, RecoverClear \/ RecoverDiscard PROVE IInv'
<1>0. /\ TypeOK /\ DiskOK(hdr, pay, home) /\ pc \in {"rclear", "rdiscard"}
      /\ failed = 0 /\ UNCHANGED <<home, pay>>
      /\ Committed(hdr, pay) => AppliedUpTo(home, hdr.sum, Len(hdr.sum))
  BY Outset DEF IInv, PcFacts, RecordFacts, HomeFacts, RecoverClear, RecoverDiscard
<1>1. ASSUME hdr' \in InterruptedHeader(hdr, CleanHeader) \cup {CleanHeader}
      PROVE  DiskOK(hdr', pay', home')
  BY <1>0, <1>1, ClearWrite
<1>2. ASSUME UNCHANGED cache
      PROVE  CacheCoherent' /\ cache' \in [Block -> Content \cup {None}]
  BY <1>0, <1>2 DEF IInv, CacheCoherent, TypeOK
<1>3. CASE LoseMemory /\ hdr' \in InterruptedHeader(hdr, CleanHeader)
  BY <1>0, <1>1, <1>3, LoseMemoryIInv
<1>4. CASE /\ MountFails /\ UNCHANGED cache
           /\ hdr' \in InterruptedHeader(hdr, CleanHeader) \cup {CleanHeader}
  BY <1>0, <1>1, <1>2, <1>4, MountFailsIInv
<1>5. CASE hdr' = CleanHeader /\ MountDone /\ UNCHANGED cache /\ sb' = home[SB]
  <2>1. hdr'.live = 0 /\ hdr'.count = 0
    BY <1>5, HeadersLemma
  <2> QED BY <1>0, <1>1, <1>2, <1>5, <2>1, MountDoneIInv
<1>6. RecoverDiscard /\ UNCHANGED sb => sb' = home[SB]
  BY DEF IInv, SbFacts, RecoverDiscard
<1> QED BY <1>3, <1>4, <1>5, <1>6 DEF RecoverClear, RecoverDiscard

\* Every step of the journal keeps the invariant.
LEMMA NextIInv == IInv /\ [Next]_vars => IInv'
<1> SUFFICES ASSUME IInv, [Next]_vars PROVE IInv'
  OBVIOUS
<1>1. CASE UNCHANGED vars
  <2>1. UNCHANGED <<home, hdr, pay, cache, sb, saved, ent, failed, pc, idx, ret>>
    BY <1>1 DEF vars
  <2>2. TypeOK' /\ CacheCoherent'
    BY <2>1 DEF IInv, TypeOK, CacheCoherent
  <2>3. PcFacts'
    BY <2>1, SameFacts DEF IInv
  <2>4. SbFacts' /\ DiskOK(hdr', pay', home') /\ Distinct(ent')
    BY <2>1 DEF IInv, SbFacts
  <2> QED BY <2>2, <2>3, <2>4 DEF IInv
<1>2. CASE Crash
  <2>1. DiskOK(hdr', pay', home') /\ TypeOK /\ LoseMemory
    BY <1>2 DEF Crash, IInv, disk
  <2> QED BY <2>1, LoseMemoryIInv
<1>3. CASE Commit \/ Recover
  BY <1>3, PayloadIInv, HeaderIInv, HomeIInv, ClearIInv, ScanIInv, ReplayIInv,
     RecoverClearIInv DEF Commit, Recover
<1>4. CASE \E b \in Block, d \in Data : journal_stage(b, d)
  BY <1>4, StageIInv
<1>5. CASE \E b \in Block : Read(b) \/ Evict(b)
  BY <1>5, CacheIInv
<1> QED BY <1>1, <1>2, <1>3, <1>4, <1>5, BeginIInv, AbortIInv, StartIInv,
          MountIInv, UnmountIInv DEF Next

THEOREM Invariance == Spec => []IInv
  BY InitIInv, NextIInv, PTL DEF Spec
-----------------------------------------------------------------------------
(* What the invariant gives. *)

RecoveredOf(h, p, d) ==
    [b \in Block |-> IF Committed(h, p) /\ b \in Targets(h.sum)
                     THEN WritesOf(h.sum)[b] ELSE d[b]]

\* A disk without a pending transaction is recovered as it is.
LEMMA AppliedRecovered ==
    ASSUME NEW h, NEW p, NEW d, DiskOK(h, p, d),
           Committed(h, p) => AppliedUpTo(d, h.sum, Len(h.sum))
    PROVE  RecoveredOf(h, p, d) = d
<1>1. h.sum \in Seq(Entry) /\ Distinct(h.sum) /\ d \in [Block -> Content]
  BY DEF DiskOK, Header
<1>2. ASSUME NEW b \in Block, Committed(h, p), b \in Targets(h.sum)
      PROVE  WritesOf(h.sum)[b] = d[b]
  <2>1. PICK j \in 1..Len(h.sum) : h.sum[j].blk = b
    BY <1>2 DEF Targets
  <2> QED BY <1>1, <1>2, <2>1, WritesLemma DEF AppliedUpTo
<1> QED BY <1>1, <1>2 DEF RecoveredOf

\* TypeOK is invariant: in particular a transaction never outgrows the
\* journal's payload area.
THEOREM TypeCorrect == Spec => []TypeOK
<1>1. IInv => TypeOK
  BY DEF IInv
<1> QED BY <1>1, Invariance, PTL

LEMMA RecoverableLemma == IInv => Recoverable
<1> SUFFICES ASSUME IInv, NEW b \in Block PROVE Recovered[b] \in Data
  BY DEF Recoverable
<1>1. hdr.sum \in Seq(Entry) /\ Distinct(hdr.sum) /\ TornCovered(hdr, pay, home)
  BY DEF IInv, DiskOK, Header
<1>2. CASE Committed(hdr, pay) /\ b \in Targets(hdr.sum)
  BY <1>1, <1>2, WritesLemma DEF Recovered
<1>3. CASE ~(Committed(hdr, pay) /\ b \in Targets(hdr.sum))
  BY <1>1, <1>3 DEF Recovered, TornCovered
<1> QED BY <1>2, <1>3

\* Wherever the power goes, during a commit, a device error or an earlier
\* recovery, journal_recover leaves only whole blocks, for any number of
\* blocks and any journal size, even when the commit record itself tears.
THEOREM CrashSafe == Spec => []Recoverable
  BY Invariance, RecoverableLemma, PTL

LEMMA ViewLemma == IInv => ViewIsCommitted
<1> SUFFICES ASSUME IInv, pc = "idle"
             PROVE  /\ \A b \in Block : bread(b) = Recovered[b]
                    /\ sb = Recovered[SB]
  BY DEF ViewIsCommitted
<1>1. ~Committed(hdr, pay)
  BY Outset DEF Committed, WellFormed
<1>2. \A b \in Block : Recovered[b] = home[b]
  BY <1>1 DEF Recovered
<1>3. \A b \in Block : bread(b) = home[b]
  BY DEF bread, Pending, IInv, CacheCoherent
<1>4. sb = home[SB]
  BY DEF IInv, SbFacts
<1> QED BY <1>2, <1>3, <1>4, BlockAssumption

\* A mounted, idle instance serves exactly the committed contents, cached or
\* not, and holds the committed superblock, after any history of commits,
\* aborts, failures and recoveries.
THEOREM ReadsCommitted == Spec => []ViewIsCommitted
  BY Invariance, ViewLemma, PTL

LEMMA WriteAheadStep ==
    ASSUME IInv, [Next]_vars, NEW b \in Block, home'[b] # home[b]
    PROVE  Committed(hdr, pay) /\ b \in Targets(hdr.sum)
<1>1. CASE CommitHome \/ RecoverReplay
  <2>1. /\ Committed(hdr, pay) /\ hdr.sum = ent /\ idx \in 1..Len(ent)
        /\ home \in [Block -> Content]
    BY <1>1, HomePhase DEF CommitHome, RecoverReplay
  <2>2. ent[idx].blk \in Targets(ent)
    BY <2>1 DEF Targets
  <2>3. b = ent[idx].blk
    BY <1>1, <2>1 DEF CommitHome, RecoverReplay
  <2> QED BY <2>1, <2>2, <2>3
<1>2. CASE ~(CommitHome \/ RecoverReplay)
  <2>1. UNCHANGED home
    BY <1>2 DEF Next, vars, disk, Commit, Recover, journal_begin, journal_abort,
       journal_stage, CommitNothing, CommitStart, CommitPayload, CommitHeader,
       CommitClear, MountStart, RecoverScan, RecoverReadError, RecoverClear,
       RecoverDiscard, Unmount, Crash, Read, Evict
  <2> QED BY <2>1
<1> QED BY <1>1, <1>2

\* No home block changes before the commit record that covers it is on disk.
THEOREM HomeWritesAhead == Spec => WriteAhead
<1>1. IInv /\ [Next]_vars =>
        [\A b \in Block : home'[b] # home[b] =>
            Committed(hdr, pay) /\ b \in Targets(hdr.sum)]_vars
  BY WriteAheadStep
<1> QED BY <1>1, Invariance, PTL DEF Spec, WriteAhead
-----------------------------------------------------------------------------
(* The journal implements AtomicStore. *)

LEMMA EmptyWrites == WritesOf(<<>>) = Abstract!NoWrites
<1>1. Targets(<<>>) = {}
  BY DEF Targets
<1> QED BY <1>1 DEF WritesOf, Abstract!NoWrites

LEMMA RecoveredIs ==
    /\ Recovered = RecoveredOf(hdr, pay, home)
    /\ Recovered' = RecoveredOf(hdr', pay', home')
  BY DEF Recovered, RecoveredOf

\* An initial state of the journal is one of the store.
LEMMA InitAbstract == Init => Abstract!AInit
<1> SUFFICES ASSUME Init PROVE Abstract!AInit
  OBVIOUS
<1>1. IInv
  BY InitIInv
<1>2. Recovered \in [Block -> Data]
  BY <1>1, RecoverableLemma DEF Recoverable, Recovered
<1>3. AbstractTx = Abstract!NoWrites /\ AbstractSt = "off"
  BY EmptyWrites DEF Init, AbstractTx, AbstractSt, Mounted, MountedPc
<1> QED BY <1>2, <1>3 DEF Abstract!AInit, Init

\* Stopping, with the store as it was or with the whole transaction in it.
LEMMA StopAbstract ==
    ASSUME pc' = "off", ret' \in {"none", "err"},
           \/ Recovered' = Recovered
           \/ AbstractSt = "open" /\ Recovered' = Abstract!Overlay(Recovered, AbstractTx)
    PROVE  Abstract!AStop
<1>1. AbstractSt' = "off" /\ AbstractTx' = Abstract!NoWrites
  BY EmptyWrites DEF AbstractSt, AbstractTx, Mounted, MountedPc
<1> QED BY <1>1 DEF Abstract!AStop
\* A mutator that returns on a mounted instance.
LEMMA ReturnAbstract ==
    ASSUME NEW r, Finish(r), Recovered' = Recovered
    PROVE  /\ AbstractSt = "open" /\ r = "err" => Abstract!AReturnErr
           /\ r = "ok" /\ (AbstractSt = "done" \/ (AbstractSt = "open" /\ AbstractTx = Abstract!NoWrites))
                => Abstract!AReturnOk
<1>1. AbstractSt' = "idle" /\ AbstractTx' = Abstract!NoWrites /\ ret' = r
  BY EmptyWrites DEF Finish, AbstractSt, AbstractTx, Mounted, MountedPc
<1> QED BY <1>1 DEF Abstract!AReturnErr, Abstract!AReturnOk

LEMMA StageAbstract ==
    ASSUME IInv, NEW b \in Block, NEW d \in Data, journal_stage(b, d)
    PROVE  Abstract!AWrite \/ UNCHANGED Abstract!avars
<1>0. /\ Distinct(ent) /\ pc = "open" /\ ent \in Seq(Entry)
      /\ UNCHANGED <<home, hdr, pay, pc, ret>>
  BY DEF IInv, TypeOK, journal_stage, disk
<1>1. \/ Staged(ent, ent', b, d)
      \/ ent' = ent
  <2>1. CASE /\ b \in Targets(ent)
             /\ ent' = [j \in 1..Len(ent) |->
                          IF ent[j].blk = b THEN [blk |-> b, data |-> d] ELSE ent[j]]
    BY <1>0, <2>1, CoalesceLemma
  <2>2. CASE /\ b \notin Targets(ent)
             /\ ent' = Append(ent, [blk |-> b, data |-> d])
    BY <1>0, <2>2, AppendLemma
  <2> QED BY <2>1, <2>2 DEF journal_stage
<1>2. AbstractSt = "open" /\ UNCHANGED <<AbstractSt, Recovered, ret>>
  BY <1>0, RecoveredIs DEF AbstractSt
<1>3. AbstractTx = WritesOf(ent) /\ AbstractTx' = WritesOf(ent')
  BY <1>0 DEF AbstractTx, Mounted, MountedPc
<1>4. CASE ent' = ent
  BY <1>2, <1>3, <1>4 DEF Abstract!avars
<1>5. CASE Staged(ent, ent', b, d)
  <2>1. AbstractTx' = [c \in DOMAIN AbstractTx \cup {b} |->
                         IF c = b THEN d ELSE AbstractTx[c]]
    BY <1>0, <1>3, <1>5, WritesLemma DEF Staged
  <2> QED BY <1>2, <2>1 DEF Abstract!AWrite
<1> QED BY <1>1, <1>4, <1>5

LEMMA PayloadAbstract ==
    ASSUME IInv, CommitPayload
    PROVE  Abstract!ANext \/ UNCHANGED Abstract!avars
<1>0. hdr.live = 0 /\ UNCHANGED <<home, hdr>> /\ pc = "payload"
  BY Outset DEF CommitPayload
<1>1. ~Committed(hdr, pay) /\ ~Committed(hdr', pay')
  BY <1>0 DEF Committed, WellFormed
<1>2. Recovered' = Recovered
  BY <1>0, <1>1, RecoveredIs DEF RecoveredOf
<1>3. AbstractSt = "open"
  BY <1>0 DEF AbstractSt
<1>4. CASE pc' \in {"payload", "header"} /\ UNCHANGED <<ent, ret>>
  BY <1>0, <1>2, <1>4 DEF Abstract!avars, AbstractTx, AbstractSt, Mounted, MountedPc
<1>5. CASE LoseMemory
  BY <1>2, <1>5, StopAbstract DEF LoseMemory, Abstract!ANext
<1>6. CASE Finish("err")
  BY <1>2, <1>3, <1>6, ReturnAbstract DEF Abstract!ANext
<1> QED BY <1>4, <1>5, <1>6 DEF CommitPayload

\* The header write is the commit point.
LEMMA HeaderAbstract ==
    ASSUME IInv, CommitHeader PROVE Abstract!ANext
<1>0. /\ DiskOK(hdr, pay, home) /\ Distinct(ent) /\ pc = "header"
      /\ hdr.live = 0 /\ hdr.count = 0
      /\ Len(ent) \in Slots /\ ent \in Seq(Entry)
      /\ \A j \in 1..Len(ent) : pay[j] = ent[j].data
      /\ UNCHANGED <<home, pay>> /\ home \in [Block -> Content]
  BY PayloadPhase DEF IInv, TypeOK, CommitHeader
<1>1. Recovered = home
  <2>1. ~Committed(hdr, pay)
    BY <1>0 DEF Committed, WellFormed
  <2> QED BY <1>0, <2>1, RecoveredIs, AppliedRecovered
<1>2. AbstractSt = "open" /\ AbstractTx = WritesOf(ent)
  BY <1>0 DEF AbstractSt, AbstractTx, Mounted, MountedPc
<1>3. DOMAIN WritesOf(ent) = Targets(ent)
  BY <1>0, WritesLemma
<1>4. ASSUME Committed(hdr', pay'), hdr'.sum = ent
      PROVE  Recovered' = Abstract!Overlay(Recovered, AbstractTx)
  BY <1>0, <1>1, <1>2, <1>3, <1>4, RecoveredIs DEF RecoveredOf, Abstract!Overlay
<1>5. CASE /\ hdr' = HeaderOf(ent)
           /\ pc' = "home"
           /\ UNCHANGED <<cache, sb, saved, ent, failed, idx, ret>>
  <2>1. Committed(hdr', pay') /\ hdr'.sum = ent
    <3>1. Committed(hdr', pay')
      BY <1>0, <1>5, HeaderWrite
    <3>2. hdr'.sum = ent
      BY <1>5 DEF HeaderOf
    <3> QED BY <3>1, <3>2
  <2>2. AbstractSt' = "done" /\ AbstractTx' = AbstractTx
    BY <1>2, <1>5 DEF AbstractSt, AbstractTx, Mounted, MountedPc
  <2> QED BY <1>2, <1>4, <1>5, <2>1, <2>2 DEF Abstract!ANext, Abstract!ACommit
<1>6. CASE /\ hdr' \in InterruptedHeader(hdr, HeaderOf(ent))
           /\ TakeDown \/ LoseMemory
  <2>1. /\ DiskOK(hdr', pay', home')
        /\ Committed(hdr', pay') =>
             hdr'.sum = ent \/ AppliedUpTo(home', hdr'.sum, Len(hdr'.sum))
    BY <1>0, <1>6, HeaderWrite
  <2>2. CASE Committed(hdr', pay') /\ hdr'.sum = ent
    BY <1>2, <1>4, <1>6, <2>2, StopAbstract DEF TakeDown, LoseMemory, Abstract!ANext
  <2>3. CASE Committed(hdr', pay') => AppliedUpTo(home', hdr'.sum, Len(hdr'.sum))
    <3>1. Recovered' = Recovered
      BY <1>0, <1>1, <2>1, <2>3, RecoveredIs, AppliedRecovered
    <3> QED BY <1>6, <3>1, StopAbstract DEF TakeDown, LoseMemory, Abstract!ANext
  <2> QED BY <2>1, <2>2, <2>3
<1> QED BY <1>5, <1>6 DEF CommitHeader

\* Home writes of a committed transaction do not change what is recovered.
LEMMA HomeAbstract ==
    ASSUME IInv, CommitHome \/ RecoverReplay
    PROVE  Abstract!ANext \/ UNCHANGED Abstract!avars
<1>0. /\ Committed(hdr, pay) /\ hdr.sum = ent /\ idx \in 1..Len(ent)
      /\ home \in [Block -> Content] /\ UNCHANGED <<hdr, pay>>
  BY HomePhase DEF CommitHome, RecoverReplay
<1>1. ent[idx].blk \in Targets(ent)
  BY <1>0 DEF Targets
<1>2. \A b \in Block : b # ent[idx].blk => home'[b] = home[b]
  BY <1>0 DEF CommitHome, RecoverReplay
<1>3. Recovered' = Recovered
  BY <1>0, <1>1, <1>2, RecoveredIs DEF RecoveredOf
<1>4. CASE pc = "home" /\ pc' \in {"home", "clear"} /\ UNCHANGED <<ent, ret>>
  BY <1>3, <1>4 DEF Abstract!avars, AbstractTx, AbstractSt, Mounted, MountedPc
<1>5. CASE pc = "replay" /\ pc' \in {"replay", "rclear", "off"} /\ UNCHANGED ret
  BY <1>3, <1>5 DEF Abstract!avars, AbstractTx, AbstractSt, Mounted, MountedPc
<1>6. CASE LoseMemory \/ TakeDown
  BY <1>3, <1>6, StopAbstract DEF LoseMemory, TakeDown, Abstract!ANext
<1> QED BY <1>4, <1>5, <1>6 DEF CommitHome, RecoverReplay, MountFails
LEMMA ClearAbstract ==
    ASSUME IInv, CommitClear \/ RecoverClear \/ RecoverDiscard
    PROVE  Abstract!ANext \/ UNCHANGED Abstract!avars
<1>0. /\ DiskOK(hdr, pay, home) /\ pc \in {"clear", "rclear", "rdiscard"}
      /\ Committed(hdr, pay) => AppliedUpTo(home, hdr.sum, Len(hdr.sum))
      /\ UNCHANGED <<home, pay>>
      /\ hdr' \in InterruptedHeader(hdr, CleanHeader) \cup {CleanHeader}
  BY DEF IInv, PcFacts, RecordFacts, HomeFacts, CommitClear, RecoverClear, RecoverDiscard
<1>1. /\ DiskOK(hdr', pay', home')
      /\ Committed(hdr', pay') => AppliedUpTo(home', hdr'.sum, Len(hdr'.sum))
  BY <1>0, ClearWrite
<1>2. Recovered' = Recovered
  BY <1>0, <1>1, RecoveredIs, AppliedRecovered
<1>3. CASE LoseMemory \/ TakeDown
  BY <1>2, <1>3, StopAbstract DEF LoseMemory, TakeDown, Abstract!ANext
<1>4. CASE pc = "clear" /\ Finish("ok")
  <2>1. AbstractSt = "done"
    BY <1>4 DEF AbstractSt
  <2> QED BY <1>2, <1>4, <2>1, ReturnAbstract DEF Abstract!ANext
<1>5. CASE pc \in {"rclear", "rdiscard"} /\ pc' = "off" /\ UNCHANGED ret
  BY <1>2, <1>5 DEF Abstract!avars, AbstractTx, AbstractSt, Mounted, MountedPc
<1>6. CASE pc \in {"rclear", "rdiscard"} /\ MountDone
  BY <1>2, <1>6, EmptyWrites
  DEF MountDone, Abstract!ANext, Abstract!AMount, AbstractTx, AbstractSt,
      Mounted, MountedPc
<1> QED BY <1>3, <1>4, <1>5, <1>6
     DEF CommitClear, RecoverClear, RecoverDiscard, MountFails

\* The steps that write nothing to the disk.
LEMMA MemoryAbstract ==
    ASSUME IInv,
           \/ journal_begin \/ journal_abort \/ CommitNothing \/ CommitStart
           \/ MountStart \/ RecoverScan \/ RecoverReadError \/ Unmount \/ Crash
           \/ \E b \in Block : Read(b) \/ Evict(b)
    PROVE  Abstract!ANext \/ UNCHANGED Abstract!avars
<1>0. UNCHANGED <<home, hdr, pay>>
  BY DEF journal_begin, journal_abort, CommitNothing, CommitStart, MountStart,
     RecoverScan, RecoverReadError, Unmount, Crash, Read, Evict, disk
<1>1. Recovered' = Recovered
  BY <1>0, RecoveredIs
<1>2. CASE journal_begin
  BY <1>1, <1>2, EmptyWrites
  DEF journal_begin, Abstract!ANext, Abstract!ABegin, AbstractTx, AbstractSt,
      Mounted, MountedPc
<1>3. CASE journal_abort \/ CommitNothing
  <2>1. AbstractSt = "open" /\ AbstractTx = WritesOf(ent)
    BY <1>3 DEF journal_abort, CommitNothing, AbstractSt, AbstractTx, Mounted, MountedPc
  <2>2. Finish("err") \/ (Finish("ok") /\ ent = <<>>)
    BY <1>3 DEF journal_abort, CommitNothing
  <2> QED BY <1>1, <2>1, <2>2, EmptyWrites, ReturnAbstract DEF Abstract!ANext
<1>4. CASE CommitStart
  BY <1>1, <1>4
  DEF CommitStart, Abstract!avars, AbstractTx, AbstractSt, Mounted, MountedPc
<1>5. CASE MountStart \/ Unmount \/ Crash
  <2>1. CASE pc' = "off"
    BY <1>1, <1>5, <2>1, StopAbstract
    DEF MountStart, Unmount, Crash, LoseMemory, Abstract!ANext
  <2>2. CASE MountStart
    BY <1>1, <2>2, EmptyWrites
    DEF MountStart, Abstract!ANext, Abstract!AStop, AbstractTx, AbstractSt,
        Mounted, MountedPc
  <2> QED BY <1>5, <2>1, <2>2 DEF Unmount, Crash, LoseMemory
<1>6. CASE RecoverScan \/ RecoverReadError
  <2>0. pc = "scan"
    BY <1>6 DEF RecoverScan, RecoverReadError
  <2>1. CASE MountDone
    BY <1>1, <2>0, <2>1, EmptyWrites
    DEF MountDone, Abstract!ANext, Abstract!AMount, AbstractTx, AbstractSt,
        Mounted, MountedPc
  <2>2. CASE pc' \in {"rdiscard", "replay", "off"} /\ UNCHANGED ret
    BY <1>1, <2>0, <2>2
    DEF Abstract!avars, AbstractTx, AbstractSt, Mounted, MountedPc
  <2> QED BY <1>6, <2>1, <2>2 DEF RecoverScan, RecoverReadError, MountFails
<1>7. CASE \E b \in Block : Read(b) \/ Evict(b)
  BY <1>1, <1>7 DEF Read, Evict, Abstract!avars, AbstractTx, AbstractSt, Mounted
<1> QED BY <1>2, <1>3, <1>4, <1>5, <1>6, <1>7

LEMMA NextAbstract ==
    IInv /\ [Next]_vars => [Abstract!ANext]_(Abstract!avars)
<1> SUFFICES ASSUME IInv, [Next]_vars
             PROVE  Abstract!ANext \/ UNCHANGED Abstract!avars
  OBVIOUS
<1>1. CASE UNCHANGED vars
  <2>1. Recovered' = Recovered
    BY <1>1, RecoveredIs DEF vars
  <2> QED BY <1>1, <2>1 DEF vars, Abstract!avars, AbstractTx, AbstractSt, Mounted
<1>2. CASE \E b \in Block, d \in Data : journal_stage(b, d)
  BY <1>2, StageAbstract DEF Abstract!ANext
<1>3. CASE Commit
  BY <1>3, PayloadAbstract, HeaderAbstract, HomeAbstract, ClearAbstract DEF Commit
<1>4. CASE RecoverReplay \/ RecoverClear \/ RecoverDiscard
  BY <1>4, HomeAbstract, ClearAbstract
<1> QED BY <1>1, <1>2, <1>3, <1>4, MemoryAbstract DEF Next, Recover

\* The redo journal implements the atomic store, for any set of blocks, any
\* contents, any journal size, and whether or not the commit record tears:
\* a mutator's blocks become visible together, at the header write, and a
\* reported success survives every later crash.
THEOREM Refinement == Spec => Implements
  BY InitAbstract, NextAbstract, Invariance, PTL
  DEF Spec, Implements, Abstract!ASpec
=============================================================================
