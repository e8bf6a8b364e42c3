------------------------- MODULE GeyserConsumerProofs -------------------------
(***************************************************************************)
(* What consume_account_updates makes of its updates, for every set of     *)
(* slots and accounts, every cache size and any number of messages.        *)
(***************************************************************************)
EXTENDS GeyserConsumer, FiniteSetTheorems, WellFoundedInduction, TLAPS

Looping == pc \in {"subscribing", "check", "select"}

UsedSlots == {forwarded[i].slot : i \in 1..Len(forwarded)}

(* The updates of account p in slot s that were forwarded. *)
Writes(s, p) == {i \in 1..Len(forwarded) : forwarded[i].slot = s /\ forwarded[i].pubkey = p}

(* Only slots that were forwarded are in the cache. *)
CacheInv ==
    /\ IsFiniteSet(UsedSlots)
    /\ Looping => Cached \subseteq UsedSlots

(* As long as nothing can have been evicted, the entry of an account in a  *)
(* slot counts its writes and remembers the seq of the first.              *)
EntryInv(s, p) ==
    IF seqs[s][p] = NoSeq
    THEN Writes(s, p) = {}
    ELSE /\ seqs[s][p].slot_seq = Cardinality(Writes(s, p))
         /\ seqs[s][p].slot_seq > 0
         /\ \A i \in Writes(s, p) :
               /\ forwarded[i].seq >= seqs[s][p].global_seq
               /\ forwarded[i].slot_seq = 0 => forwarded[i].seq = seqs[s][p].global_seq

SeqsInv == Looping /\ FitsCache => \A s \in Slot, p \in Pubkey : EntryInv(s, p)

ConsumerInv == TypeOK /\ CacheInv /\ SeqsInv /\ Numbered /\ FirstSeqIsFloor

-----------------------------------------------------------------------------
(* A finite set has an element of least value: what least recently used    *)
(* rests on.  The sets of elements not above a given one are ordered by    *)
(* inclusion, and a minimal one of them is that of a least element.        *)
LEMMA LeastExists ==
  ASSUME NEW T, IsFiniteSet(T), T # {}, NEW f, \A t \in T : f[t] \in Nat
  PROVE  \E m \in T : \A n \in T : f[m] <= f[n]
<1> DEFINE D == {{y \in T : f[y] <= f[x]} : x \in T}
<1>1. D \subseteq FiniteSubsetsOf(T)
  <2>1. \A d \in D : d \in SUBSET T
    OBVIOUS
  <2>2. \A d \in D : IsFiniteSet(d)
    BY <2>1, FS_Subset
  <2> QED
    BY <2>1, <2>2 DEF FiniteSubsetsOf
<1>2. D # {}
  OBVIOUS
<1> HIDE DEF D
<1>3. PICK d \in D : \A e \in D : ~(<<e, d>> \in StrictSubsetOrdering(T))
  BY <1>1, <1>2, FS_StrictSubsetOrderingWellFounded, WFMin
<1>4. \A e \in D : e \in SUBSET T /\ d \in SUBSET T /\ (e \subseteq d => e = d)
  <2>1. D \subseteq SUBSET T
    BY <1>1 DEF FiniteSubsetsOf
  <2> QED
    BY <1>3, <2>1 DEF StrictSubsetOrdering
<1>5. PICK x \in T : d = {y \in T : f[y] <= f[x]}
  BY DEF D
<1>6. ASSUME NEW n \in T, ~(f[x] <= f[n]) PROVE FALSE
  <2> DEFINE e == {y \in T : f[y] <= f[n]}
  <2>1. e \in D
    BY DEF D
  <2>2. \A y \in T : f[y] \in Nat /\ f[n] \in Nat /\ f[x] \in Nat
    OBVIOUS
  <2>3. e \subseteq d
    BY <1>5, <1>6, <2>2
  <2>4. x \in d /\ x \notin e
    BY <1>5, <1>6, <2>2
  <2> QED
    BY <2>1, <2>3, <2>4, <1>4
<1> QED
  BY <1>6

-----------------------------------------------------------------------------
(* Nothing is cached, numbered or forwarded at the start.                  *)
LEMMA InitConsumer == Init => ConsumerInv
<1> SUFFICES ASSUME Init PROVE ConsumerInv
  OBVIOUS
<1>1. Cached = {} /\ UsedSlots = {} /\ \A s \in Slot, p \in Pubkey : Writes(s, p) = {}
  BY DEF Init, Cached, UsedSlots, Writes
<1>2. exit \in BOOLEAN /\ app \in BOOLEAN /\ ended \in BOOLEAN
  BY Zenon DEF Init
<1>3. seqs \in [Slot -> [Pubkey -> AccountWriteSeq \cup {NoSeq}]]
  BY DEF Init, NoSeqs
<1>4. IsFiniteSet(Cached) /\ Cardinality(Cached) <= CacheSize
  BY <1>1, FS_EmptySet, ConsumerAssumption
<1>5. /\ method \in Methods
      /\ pc \in {"subscribing", "check", "select"} \cup Returned
      /\ used \in [Slot -> Nat]
      /\ late \in Nat
      /\ oldest \in Slot /\ rooted \in Slot
      /\ forwarded \in Seq([slot : Slot, pubkey : Pubkey, seq : WriteVersion, slot_seq : Nat])
  BY ConsumerAssumption DEF Init
<1>6. TypeOK
  BY <1>2, <1>3, <1>4, <1>5, Zenon DEF TypeOK
<1>7. CacheInv
  BY <1>1, FS_EmptySet DEF CacheInv
<1>8. SeqsInv
  <2>1. \A s \in Slot, p \in Pubkey : seqs[s][p] = NoSeq
    BY DEF Init, NoSeqs
  <2> QED
    BY <1>1, <2>1 DEF SeqsInv, EntryInv
<1>9. Numbered /\ FirstSeqIsFloor
  BY DEF Init, Numbered, FirstSeqIsFloor
<1> QED
  BY <1>6, <1>7, <1>8, <1>9 DEF ConsumerInv

-----------------------------------------------------------------------------
(* The step that matters: an update is counted and sent on.                *)

(* An update's own entry, and what is stored after it. *)
LEMMA WriteSeqType ==
  ASSUME TypeOK, NEW u \in Update
  PROVE  /\ WriteSeq(u) \in AccountWriteSeq
         /\ Counted(u) \in AccountWriteSeq
         /\ Counted(u) # NoSeq
<1>1. WriteSeq(u) \in AccountWriteSeq
  <2>1. u.slot \in Slot /\ u.pubkey \in Pubkey /\ u.seq \in WriteVersion
    BY DEF Update
  <2>2. seqs[u.slot][u.pubkey] \in AccountWriteSeq \cup {NoSeq}
    BY <2>1 DEF TypeOK
  <2>3. [global_seq |-> u.seq, slot_seq |-> 0] \in AccountWriteSeq
    BY <2>1 DEF AccountWriteSeq
  <2> QED
    BY <2>2, <2>3, Zenon DEF WriteSeq
<1>2. Counted(u) \in AccountWriteSeq
  BY <1>1 DEF Counted, AccountWriteSeq
<1>3. Counted(u) # NoSeq
  BY <1>1, ConsumerAssumption DEF Counted, NoSeq, AccountWriteSeq
<1> QED
  BY <1>1, <1>2, <1>3

(* The cache after an update: its slot is in, and an overfull cache has    *)
(* lost its least recently used slot.                                      *)
LEMMA ForwardCache ==
  ASSUME TypeOK, NEW u \in Update, Forward(u)
  PROVE  /\ Cached' = (Cached \ Evicted(u.slot)) \cup {u.slot}
         /\ IsFiniteSet(Cached') /\ Cardinality(Cached') <= CacheSize
<1>1. u.slot \in Slot /\ Len(forwarded) \in Nat /\ Evicted(u.slot) \subseteq Cached
  BY DEF Update, TypeOK, Evicted
<1>2. Cached' = (Cached \ Evicted(u.slot)) \cup {u.slot}
  BY <1>1 DEF Forward, Cached, TypeOK
<1>3. CASE u.slot \in Cached
  <2>1. Cached' = Cached
    BY <1>1, <1>2, <1>3 DEF Evicted
  <2> QED
    BY <1>2, <2>1 DEF TypeOK
<1>4. CASE u.slot \notin Cached /\ Cardinality(Cached) < CacheSize
  <2>1. Cached' = Cached \cup {u.slot}
    BY <1>2, <1>4 DEF Evicted
  <2>2. IsFiniteSet(Cached) /\ Cardinality(Cached) \in Nat
    BY FS_CardinalityType DEF TypeOK
  <2>3. IsFiniteSet(Cached') /\ Cardinality(Cached') = Cardinality(Cached) + 1
    BY <1>4, <2>1, <2>2, FS_AddElement
  <2> QED
    BY <1>2, <1>4, <2>2, <2>3, ConsumerAssumption
<1>5. CASE u.slot \notin Cached /\ ~(Cardinality(Cached) < CacheSize)
  <2>1. IsFiniteSet(Cached) /\ Cardinality(Cached) \in Nat /\ Cardinality(Cached) = CacheSize
    BY <1>5, FS_CardinalityType, ConsumerAssumption DEF TypeOK
  <2>2. Cached # {}
    BY <2>1, FS_EmptySet, ConsumerAssumption
  <2>3. \A s \in Cached : used[s] \in Nat
    BY DEF Cached, TypeOK
  <2>4. PICK m \in Cached : \A n \in Cached : used[m] <= used[n]
    BY <2>1, <2>2, <2>3, LeastExists
  <2>5. m \in Evicted(u.slot)
    BY <1>5, <2>4 DEF Evicted
  <2> DEFINE Rest == Cached \ {m}
             Kept == Cached \ Evicted(u.slot)
  <2>6. IsFiniteSet(Rest) /\ Cardinality(Rest) = CacheSize - 1
    BY <2>1, <2>4, FS_RemoveElement
  <2>7. Kept \in SUBSET Rest
    BY <2>5
  <2>8. IsFiniteSet(Kept) /\ Cardinality(Kept) <= CacheSize - 1
    BY <2>6, <2>7, FS_Subset
  <2>9. Cardinality(Kept) \in Nat
    BY <2>8, FS_CardinalityType
  <2>10. IsFiniteSet(Kept \cup {u.slot}) /\ Cardinality(Kept \cup {u.slot}) <= CacheSize
    <3> HIDE DEF Kept
    <3> QED
      BY <2>8, <2>9, FS_AddElement, ConsumerAssumption
  <2> QED
    BY <1>2, <2>10
<1> QED
  BY <1>3, <1>4, <1>5

(* What is sent on, and that the cache, with room for every slot that was  *)
(* ever used, has evicted nothing.                                         *)
LEMMA ForwardFits ==
  ASSUME ConsumerInv, Looping, NEW u \in Update, Forward(u), app, FitsCache'
  PROVE  FitsCache /\ Evicted(u.slot) = {}
<1> DEFINE w == [slot |-> u.slot, pubkey |-> u.pubkey, seq |-> u.seq, slot_seq |-> WriteSeq(u).slot_seq]
<1>1. forwarded' = Append(forwarded, w) /\ w.slot = u.slot
  BY DEF Forward
<1>2. UsedSlots' = UsedSlots \cup {u.slot}
  BY <1>1 DEF UsedSlots, ConsumerInv, TypeOK
<1>3. IsFiniteSet(UsedSlots) /\ IsFiniteSet(UsedSlots') /\ Cardinality(UsedSlots') <= CacheSize
  BY <1>2, FS_AddElement DEF ConsumerInv, CacheInv, FitsCache, UsedSlots
<1>4. Cardinality(UsedSlots) \in Nat /\ Cardinality(UsedSlots') \in Nat
  BY <1>3, FS_CardinalityType
<1>5. FitsCache
  <2>1. Cardinality(UsedSlots) <= Cardinality(UsedSlots')
    BY <1>2, <1>3, FS_Subset
  <2> QED
    BY <1>3, <1>4, <2>1, ConsumerAssumption DEF FitsCache, UsedSlots
<1>6. CASE u.slot \in Cached
  BY <1>5, <1>6 DEF Evicted
<1>7. CASE u.slot \notin Cached
  <2>1. Cached \subseteq UsedSlots' /\ IsFiniteSet(Cached) /\ Cardinality(Cached) \in Nat
    BY <1>2, FS_CardinalityType DEF ConsumerInv, CacheInv, TypeOK
  <2>2. Cached \cup {u.slot} \in SUBSET UsedSlots'
    BY <1>2, <2>1
  <2>3. Cardinality(Cached \cup {u.slot}) = Cardinality(Cached) + 1
    BY <1>7, <2>1, FS_AddElement
  <2>4. Cardinality(Cached \cup {u.slot}) <= Cardinality(UsedSlots')
    BY <1>3, <2>2, FS_Subset
  <2>5. Cardinality(Cached) < CacheSize
    BY <1>3, <1>4, <2>1, <2>3, <2>4, ConsumerAssumption
  <2> QED
    BY <1>5, <2>5 DEF Evicted
<1> QED
  BY <1>6, <1>7

(* The types after an update. *)
LEMMA ForwardType ==
  ASSUME TypeOK, NEW u \in Update, Forward(u)
  PROVE  TypeOK'
<1>1. u.slot \in Slot /\ u.pubkey \in Pubkey /\ u.seq \in WriteVersion /\ Len(forwarded) \in Nat
  BY DEF Update, TypeOK
<1>2. WriteSeq(u) \in AccountWriteSeq /\ Counted(u) \in AccountWriteSeq
  BY WriteSeqType
<1>3. IsFiniteSet(Cached') /\ Cardinality(Cached') <= CacheSize
  BY ForwardCache
<1>4. used' \in [Slot -> Nat]
  BY <1>1 DEF Forward, TypeOK
<1>5. seqs' \in [Slot -> [Pubkey -> AccountWriteSeq \cup {NoSeq}]]
  BY <1>1, <1>2 DEF Forward, TypeOK, NoSeqs
<1>6. forwarded' \in Seq([slot : Slot, pubkey : Pubkey, seq : WriteVersion, slot_seq : Nat])
  <2> DEFINE w == [slot |-> u.slot, pubkey |-> u.pubkey, seq |-> u.seq, slot_seq |-> WriteSeq(u).slot_seq]
             W == [slot : Slot, pubkey : Pubkey, seq : WriteVersion, slot_seq : Nat]
  <2>1. WriteSeq(u).slot_seq \in Nat
    BY <1>2 DEF AccountWriteSeq
  <2>2. w \in W
    BY <1>1, <2>1
  <2>3. forwarded' = forwarded \/ forwarded' = Append(forwarded, w)
    BY Zenon DEF Forward
  <2>4. forwarded \in Seq(W)
    BY Zenon DEF TypeOK
  <2> HIDE DEF w, W
  <2>5. forwarded' \in Seq(W)
    BY <2>2, <2>3, <2>4
  <2> QED
    BY <2>5 DEF W
<1>7. late' \in Nat /\ pc' \in {"subscribing", "check", "select"} \cup Returned
  BY DEF Forward, HandOn, TypeOK, LoopHead, Returned, Errors
<1>8. UNCHANGED <<method, exit, rooted, app, ended, oldest>>
  BY DEF Forward, HandOn
<1> QED
  BY <1>3, <1>4, <1>5, <1>6, <1>7, <1>8, Zenon DEF TypeOK

(* An update adds itself, and nothing else, to the writes of its account.  *)
LEMMA ForwardWrites ==
  ASSUME TypeOK, NEW u \in Update, Forward(u), app, NEW s \in Slot, NEW p \in Pubkey
  PROVE  /\ Len(forwarded') = Len(forwarded) + 1 /\ Len(forwarded) \in Nat
         /\ \A i \in 1..Len(forwarded) : forwarded'[i] = forwarded[i]
         /\ LET w == forwarded'[Len(forwarded) + 1]
            IN  w.slot = u.slot /\ w.pubkey = u.pubkey /\ w.seq = u.seq
                  /\ w.slot_seq = WriteSeq(u).slot_seq
         /\ Writes(s, p)' = IF s = u.slot /\ p = u.pubkey
                            THEN Writes(s, p) \cup {Len(forwarded) + 1} ELSE Writes(s, p)
         /\ Writes(s, p) \subseteq 1..Len(forwarded)
         /\ IsFiniteSet(Writes(s, p)) /\ Cardinality(Writes(s, p)) \in Nat
<1> DEFINE w == [slot |-> u.slot, pubkey |-> u.pubkey, seq |-> u.seq, slot_seq |-> WriteSeq(u).slot_seq]
<1>1. forwarded' = Append(forwarded, w)
  BY DEF Forward
<1>2. /\ Len(forwarded') = Len(forwarded) + 1 /\ Len(forwarded) \in Nat
      /\ \A i \in 1..Len(forwarded) : forwarded'[i] = forwarded[i]
      /\ forwarded'[Len(forwarded) + 1] = w
  BY <1>1 DEF TypeOK
<1>3. w.slot = u.slot /\ w.pubkey = u.pubkey /\ w.seq = u.seq /\ w.slot_seq = WriteSeq(u).slot_seq
  OBVIOUS
<1> HIDE DEF w
<1>4. Writes(s, p)' = IF s = u.slot /\ p = u.pubkey
                      THEN Writes(s, p) \cup {Len(forwarded) + 1} ELSE Writes(s, p)
  BY <1>2, <1>3 DEF Writes
<1>5. Writes(s, p) \in SUBSET (1..Len(forwarded))
  BY DEF Writes
<1>6. IsFiniteSet(Writes(s, p)) /\ Cardinality(Writes(s, p)) \in Nat
  <2>1. IsFiniteSet(1..Len(forwarded))
    BY <1>2, FS_Interval
  <2>2. IsFiniteSet(Writes(s, p))
    BY <1>5, <2>1, FS_Subset
  <2> QED
    BY <2>2, FS_CardinalityType
<1> QED
  BY <1>2, <1>3, <1>4, <1>5, <1>6

(* Numbering and order survive an update that is sent on.                  *)
LEMMA ForwardSeqs ==
  ASSUME ConsumerInv, Looping, NEW u \in Update, ~OutOfOrder(u), Forward(u), app, FitsCache'
  PROVE  /\ \A s \in Slot, p \in Pubkey : EntryInv(s, p)'
         /\ Numbered' /\ FirstSeqIsFloor'
<1>1. FitsCache /\ Evicted(u.slot) = {}
  BY ForwardFits
<1>2. /\ TypeOK /\ Numbered /\ FirstSeqIsFloor
      /\ \A s \in Slot, p \in Pubkey : EntryInv(s, p)
  BY <1>1 DEF ConsumerInv, SeqsInv
<1>3. /\ u.slot \in Slot /\ u.pubkey \in Pubkey /\ u.seq \in Nat
      /\ WriteSeq(u) \in AccountWriteSeq /\ Counted(u) \in AccountWriteSeq /\ Counted(u) # NoSeq
  BY <1>2, WriteSeqType, ConsumerAssumption DEF Update
<1>4. \A s \in Slot, p \in Pubkey :
         seqs'[s][p] = IF s = u.slot /\ p = u.pubkey THEN Counted(u) ELSE seqs[s][p]
  BY <1>1, <1>2, <1>3 DEF Forward, TypeOK
<1> DEFINE n == Len(forwarded) + 1
           e == WriteSeq(u)
           own == Writes(u.slot, u.pubkey)
<1>5. /\ e.global_seq \in Nat /\ e.slot_seq \in Nat
      /\ e.slot_seq = Cardinality(own)
      /\ e.global_seq <= u.seq
      /\ e.slot_seq = 0 => u.seq = e.global_seq
      /\ \A i \in own : /\ forwarded[i].seq >= e.global_seq
                        /\ forwarded[i].slot_seq = 0 => forwarded[i].seq = e.global_seq
  <2>1. e.global_seq \in Nat /\ e.slot_seq \in Nat
    BY <1>3, ConsumerAssumption DEF AccountWriteSeq
  <2>2. EntryInv(u.slot, u.pubkey)
    BY <1>2, <1>3
  <2>3. CASE seqs[u.slot][u.pubkey] = NoSeq
    <3>1. own = {} /\ Cardinality(own) = 0
      BY <2>2, <2>3, FS_EmptySet DEF EntryInv
    <3>2. e.global_seq = u.seq /\ e.slot_seq = 0
      BY <2>3 DEF WriteSeq
    <3> QED
      BY <2>1, <3>1, <3>2, <1>3
  <2>4. CASE seqs[u.slot][u.pubkey] # NoSeq
    <3>1. e = seqs[u.slot][u.pubkey]
      BY <2>4 DEF WriteSeq
    <3>2. e.global_seq <= u.seq
      BY <2>1, <1>3 DEF OutOfOrder
    <3> QED
      BY <2>1, <2>2, <2>4, <3>1, <3>2 DEF EntryInv
  <2> QED
    BY <2>3, <2>4
<1>6. /\ Len(forwarded') = n /\ Len(forwarded) \in Nat
      /\ \A i \in 1..Len(forwarded) : forwarded'[i] = forwarded[i]
      /\ forwarded'[n].slot = u.slot /\ forwarded'[n].pubkey = u.pubkey
      /\ forwarded'[n].seq = u.seq /\ forwarded'[n].slot_seq = e.slot_seq
      /\ own \subseteq 1..Len(forwarded) /\ IsFiniteSet(own)
  BY <1>2, <1>3, ForwardWrites
<1>7. ASSUME NEW s \in Slot, NEW p \in Pubkey PROVE EntryInv(s, p)'
  <2>1. CASE s = u.slot /\ p = u.pubkey
    <3>1. Writes(s, p)' = own \cup {n} /\ n \notin own
      BY <1>2, <1>6, <2>1, ForwardWrites
    <3>2. Cardinality(own \cup {n}) = Cardinality(own) + 1
      BY <1>6, <3>1, FS_AddElement
    <3>3. seqs'[s][p] = Counted(u) /\ Counted(u).slot_seq = e.slot_seq + 1
              /\ Counted(u).global_seq = e.global_seq
      BY <1>4, <2>1 DEF Counted
    <3>4. \A i \in own \cup {n} :
             /\ forwarded'[i].seq >= e.global_seq
             /\ forwarded'[i].slot_seq = 0 => forwarded'[i].seq = e.global_seq
      <4> HIDE DEF e, own
      <4> QED
        BY <1>5, <1>6, <1>3
    <3> QED
      BY <1>3, <1>5, <3>1, <3>2, <3>3, <3>4 DEF EntryInv
  <2>2. CASE ~(s = u.slot /\ p = u.pubkey)
    <3>1. Writes(s, p)' = Writes(s, p) /\ Writes(s, p) \subseteq 1..Len(forwarded)
      BY <1>2, <2>2, ForwardWrites
    <3>2. seqs'[s][p] = seqs[s][p]
      BY <1>4, <2>2
    <3> QED
      BY <1>2, <1>6, <3>1, <3>2 DEF EntryInv
  <2> QED
    BY <2>1, <2>2
<1>8. Numbered'
  <2>1. SUFFICES ASSUME NEW j \in 1..n
                 PROVE  forwarded'[j].slot_seq = Cardinality({i \in 1..(j - 1) : SameAccount(i, j)'})
    BY <1>6 DEF Numbered
  <2>2. CASE j = n
    <3>1. {i \in 1..(j - 1) : SameAccount(i, j)'} = own
      BY <1>6, <2>2 DEF SameAccount, Writes
    <3> QED
      BY <1>5, <1>6, <2>2, <3>1
  <2>3. CASE j # n
    <3>1. j \in 1..Len(forwarded) /\ \A i \in 1..(j - 1) : i \in 1..Len(forwarded)
      BY <1>6, <2>3
    <3>2. {i \in 1..(j - 1) : SameAccount(i, j)'} = {i \in 1..(j - 1) : SameAccount(i, j)}
      BY <1>6, <3>1 DEF SameAccount
    <3> QED
      BY <1>1, <1>2, <1>6, <3>1, <3>2 DEF Numbered
  <2> QED
    BY <2>2, <2>3
<1>9. FirstSeqIsFloor'
  <2>1. SUFFICES ASSUME NEW i \in 1..n, NEW j \in 1..n, i < j, SameAccount(i, j)',
                        forwarded'[i].slot_seq = 0
                 PROVE  forwarded'[i].seq <= forwarded'[j].seq
    BY <1>6 DEF FirstSeqIsFloor
  <2>2. i \in 1..Len(forwarded)
    BY <1>6, <2>1
  <2>3. CASE j = n
    <3>1. i \in own
      BY <1>6, <2>1, <2>2, <2>3 DEF SameAccount, Writes
    <3>2. forwarded[i].seq = e.global_seq
      BY <1>5, <1>6, <2>1, <2>2, <3>1
    <3> QED
      BY <1>5, <1>6, <2>2, <2>3, <3>2
  <2>4. CASE j # n
    <3>1. j \in 1..Len(forwarded)
      BY <1>6, <2>4
    <3>2. SameAccount(i, j)
      BY <1>6, <2>1, <2>2, <3>1 DEF SameAccount
    <3> QED
      BY <1>1, <1>2, <1>6, <2>1, <2>2, <3>1, <3>2 DEF FirstSeqIsFloor
  <2> QED
    BY <2>3, <2>4
<1> QED
  BY <1>7, <1>8, <1>9

(* A step that leaves what was forwarded and the cache alone changes       *)
(* nothing but the types.                                                  *)
LEMMA FrameConsumer ==
  ASSUME ConsumerInv, UNCHANGED <<used, seqs, forwarded>>, Looping' => Looping
  PROVE  CacheInv' /\ SeqsInv' /\ Numbered' /\ FirstSeqIsFloor'
<1>1. Cached' = Cached /\ UsedSlots' = UsedSlots /\ FitsCache' = FitsCache
  BY DEF Cached, UsedSlots, FitsCache
<1>2. CacheInv'
  BY <1>1 DEF ConsumerInv, CacheInv
<1>3. \A s \in Slot, p \in Pubkey : EntryInv(s, p)' = EntryInv(s, p)
  BY DEF EntryInv, Writes
<1>4. SeqsInv'
  BY <1>1, <1>3 DEF ConsumerInv, SeqsInv
<1>5. Numbered' /\ FirstSeqIsFloor'
  BY <1>1 DEF ConsumerInv, Numbered, FirstSeqIsFloor, SameAccount
<1> QED
  BY <1>2, <1>4, <1>5

(* An update that passes both checks is counted; when the application has  *)
(* gone it is not sent on, and the loop returns.                           *)
LEMMA ForwardConsumer ==
  ASSUME ConsumerInv, Looping, NEW u \in Update, ~OutOfOrder(u), Forward(u)
  PROVE  ConsumerInv'
<1>1. TypeOK /\ TypeOK'
  BY ForwardType DEF ConsumerInv
<1>2. CASE ~app
  <2>1. forwarded' = forwarded /\ ~Looping'
    BY <1>2 DEF Forward, HandOn, Looping
  <2>2. UsedSlots' = UsedSlots /\ FitsCache' = FitsCache
    BY <2>1 DEF UsedSlots, FitsCache
  <2>3. CacheInv' /\ SeqsInv'
    BY <2>1, <2>2 DEF ConsumerInv, CacheInv, SeqsInv
  <2>4. Numbered' /\ FirstSeqIsFloor'
    BY <2>1, <2>2 DEF ConsumerInv, Numbered, FirstSeqIsFloor, SameAccount
  <2> QED
    BY <1>1, <2>3, <2>4 DEF ConsumerInv
<1>3. CASE app
  <2>1. CacheInv'
    <3> DEFINE w == [slot |-> u.slot, pubkey |-> u.pubkey, seq |-> u.seq, slot_seq |-> WriteSeq(u).slot_seq]
    <3>1. forwarded' = Append(forwarded, w) /\ w.slot = u.slot
      BY <1>3 DEF Forward
    <3>2. UsedSlots' = UsedSlots \cup {u.slot}
      <4>1. /\ Len(forwarded) \in Nat /\ Len(forwarded') = Len(forwarded) + 1
            /\ \A i \in 1..Len(forwarded) : forwarded'[i] = forwarded[i]
            /\ forwarded'[Len(forwarded) + 1] = w
        BY <3>1, <1>1 DEF TypeOK
      <4> HIDE DEF w
      <4> QED
        BY <3>1, <4>1 DEF UsedSlots
    <3>3. IsFiniteSet(UsedSlots')
      BY <3>2, FS_AddElement DEF ConsumerInv, CacheInv
    <3>4. Cached' \subseteq Cached \cup {u.slot}
      BY <1>1, ForwardCache
    <3> QED
      BY <3>2, <3>3, <3>4 DEF ConsumerInv, CacheInv
  <2>2. CASE FitsCache'
    BY <1>1, <1>3, <2>1, <2>2, ForwardSeqs DEF ConsumerInv, SeqsInv
  <2>3. CASE ~FitsCache'
    BY <1>1, <2>1, <2>3 DEF ConsumerInv, SeqsInv, Numbered, FirstSeqIsFloor
  <2> QED
    BY <2>2, <2>3
<1> QED
  BY <1>2, <1>3

(* No step but a counted update touches the cache, the numbers or what was *)
(* forwarded, and none takes a loop that has returned back into its loop.  *)
LEMMA OtherConsumer ==
  ASSUME ConsumerInv,
         \/ \E slot \in Slot : RaiseRooted(slot) \/ Subscribed(slot)
         \/ SetExit \/ DropReceiver \/ EndStream \/ SubscribeError \/ CheckExit \/ Tick
         \/ ReceiveEnd \/ ReceiveError \/ PassOn \/ UNCHANGED vars
         \/ Return("StaleAccountUpdate") \/ Return("OutOfOrderSeqAccountUpdate")
  PROVE  ConsumerInv'
<1> USE DEF RaiseRooted, Subscribed, SetExit, DropReceiver, EndStream, SubscribeError, CheckExit,
            Tick, ReceiveEnd, ReceiveError, PassOn, HandOn, Return, LoopHead, vars, cacheVars
<1>1. UNCHANGED <<used, seqs, forwarded>> /\ method' = method
  OBVIOUS
<1>2. Looping' => Looping
  BY DEF Looping
<1>3. CacheInv' /\ SeqsInv' /\ Numbered' /\ FirstSeqIsFloor'
  BY <1>1, <1>2, FrameConsumer
<1>4. Cached' = Cached
  BY <1>1 DEF Cached
<1>5. rooted' \in Slot /\ oldest' \in Slot /\ late' \in Nat
  BY DEF ConsumerInv, TypeOK
<1>6. exit' \in BOOLEAN /\ app' \in BOOLEAN /\ ended' \in BOOLEAN
  BY Zenon DEF ConsumerInv, TypeOK
<1>7. pc' \in {"subscribing", "check", "select"} \cup Returned
  BY DEF ConsumerInv, TypeOK, Returned, Errors
<1>8. TypeOK'
  BY <1>1, <1>4, <1>5, <1>6, <1>7, Zenon DEF ConsumerInv, TypeOK
<1> QED
  BY <1>3, <1>8 DEF ConsumerInv

(* Every step of the client keeps the invariant.                           *)
LEMMA StepConsumer == ConsumerInv /\ [Next]_vars => ConsumerInv'
<1> SUFFICES ASSUME ConsumerInv, [Next]_vars PROVE ConsumerInv'
  OBVIOUS
<1>1. ASSUME NEW u \in Update, ProcessUpdate(u) PROVE ConsumerInv'
  <2>1. CASE ~Stale(u) /\ ~OutOfOrder(u) /\ Forward(u)
    <3>1. Looping
      BY <1>1 DEF ProcessUpdate, Looping
    <3> QED
      BY <2>1, <3>1, ForwardConsumer
  <2>2. CASE Return("StaleAccountUpdate") \/ Return("OutOfOrderSeqAccountUpdate")
    BY <2>2, OtherConsumer
  <2> QED
    BY <1>1, <2>1, <2>2 DEF ProcessUpdate
<1>2. CASE \/ \E slot \in Slot : RaiseRooted(slot) \/ Subscribed(slot)
           \/ SetExit \/ DropReceiver \/ EndStream \/ SubscribeError \/ CheckExit \/ Tick
           \/ ReceiveEnd \/ ReceiveError \/ PassOn \/ UNCHANGED vars
  BY <1>2, OtherConsumer
<1> QED
  BY <1>1, <1>2 DEF Next

-----------------------------------------------------------------------------
(* The state of a client stays well typed, and its cache never holds more  *)
(* than ACCOUNT_WRITE_SEQS_CACHE_SIZE slots.                               *)
THEOREM ConsumerTypeCorrect == Spec => []TypeOK
<1>1. Init => ConsumerInv
  BY InitConsumer
<1>2. ConsumerInv /\ [Next]_vars => ConsumerInv'
  BY StepConsumer
<1>3. ConsumerInv => TypeOK
  BY DEF ConsumerInv
<1> QED
  BY <1>1, <1>2, <1>3, PTL DEF Spec

(* The writes of an account within a slot are numbered 0, 1, 2, ...        *)
(* whatever slots, accounts and errors are interleaved with them, as long  *)
(* as the slots in use fit in the cache.                                   *)
THEOREM WritesNumbered == Spec => []Numbered
<1>1. Init => ConsumerInv
  BY InitConsumer
<1>2. ConsumerInv /\ [Next]_vars => ConsumerInv'
  BY StepConsumer
<1>3. ConsumerInv => Numbered
  BY DEF ConsumerInv
<1> QED
  BY <1>1, <1>2, <1>3, PTL DEF Spec

(* Nothing older than the first write seen of an account in a slot is      *)
(* forwarded: the comparison process_update makes never lets one through.  *)
THEOREM FirstWriteIsFloor == Spec => []FirstSeqIsFloor
<1>1. Init => ConsumerInv
  BY InitConsumer
<1>2. ConsumerInv /\ [Next]_vars => ConsumerInv'
  BY StepConsumer
<1>3. ConsumerInv => FirstSeqIsFloor
  BY DEF ConsumerInv
<1> QED
  BY <1>1, <1>2, <1>3, PTL DEF Spec

(* A message that was handed on after the flag was set left the loop at    *)
(* the point where the flag is looked at; a command has no flag.           *)
LateInv ==
    /\ exit => method \in Consumers
    /\ late = 0 \/ (late = 1 /\ exit /\ pc \notin {"select", "subscribing"})

(* Each of the consumer's loops hands on at most one message after the     *)
(* exit flag is set.                                                       *)
THEOREM ExitBound == Spec => []AtMostOneLate
<1>1. Init => LateInv
  BY Zenon DEF Init, LateInv
<1>2. LateInv /\ [Next]_vars => LateInv'
  <2> SUFFICES ASSUME LateInv, [Next]_vars PROVE LateInv'
    OBVIOUS
  <2> USE DEF LateInv, vars, cacheVars, LoopHead, HandOn, Return
  <2>1. ASSUME NEW u \in Update, ProcessUpdate(u) PROVE LateInv'
    BY <2>1 DEF ProcessUpdate, Forward
  <2>2. ASSUME NEW slot \in Slot, RaiseRooted(slot) \/ Subscribed(slot) PROVE LateInv'
    BY <2>2 DEF RaiseRooted, Subscribed
  <2>3. CASE SetExit \/ DropReceiver \/ EndStream
    BY <2>3 DEF SetExit, DropReceiver, EndStream
  <2>4. CASE SubscribeError \/ CheckExit \/ Tick
    BY <2>4 DEF SubscribeError, CheckExit, Tick
  <2>5. CASE ReceiveEnd \/ ReceiveError \/ PassOn
    BY <2>5 DEF ReceiveEnd, ReceiveError, PassOn, Spinning, Commands, Consumers
  <2>6. CASE UNCHANGED vars
    BY <2>6
  <2> QED
    BY <2>1, <2>2, <2>3, <2>4, <2>5, <2>6 DEF Next
<1>3. LateInv => AtMostOneLate
  BY DEF LateInv, AtMostOneLate
<1> QED
  BY <1>1, <1>2, <1>3, PTL DEF Spec

(* An update refused as too old was below the header or below a rooted     *)
(* limit that is not cut off at 0; the rooted slot only rises and the      *)
(* header is read once, so that stays true after the loop has returned.    *)
StaleInv ==
    /\ rooted \in Nat /\ oldest \in Nat
    /\ pc = "StaleAccountUpdate" => oldest > 0 \/ rooted > MaxRootedSlotDistance

(* Near the start of the chain no update ends the loop as stale, for every *)
(* tolerated distance and every order of updates and rooted slots          *)
(* (process_update).                                                       *)
THEOREM GenesisNotStale == Spec => []NoneStaleAtGenesis
<1>1. Init => StaleInv
  BY ConsumerAssumption DEF Init, StaleInv
<1>2. StaleInv /\ [Next]_vars => StaleInv'
  <2> SUFFICES ASSUME StaleInv, [Next]_vars PROVE StaleInv'
    OBVIOUS
  <2> USE ConsumerAssumption DEF StaleInv, vars, cacheVars, LoopHead, HandOn, Return
  <2>1. ASSUME NEW u \in Update, ProcessUpdate(u) PROVE StaleInv'
    <3>1. CASE Stale(u) /\ Return("StaleAccountUpdate")
      <4>1. u.slot \in Nat
        BY DEF Update
      <4>2. oldest > 0 \/ OldestTolerated > 0
        BY <3>1, <4>1 DEF Stale, OldestTolerated
      <4> QED
        BY <3>1, <4>2 DEF OldestTolerated
    <3>2. CASE ~Stale(u)
      BY <2>1, <3>2 DEF ProcessUpdate, Forward
    <3> QED
      BY <2>1, <3>1, <3>2 DEF ProcessUpdate
  <2>2. ASSUME NEW slot \in Slot, RaiseRooted(slot) \/ Subscribed(slot) PROVE StaleInv'
    BY <2>2 DEF RaiseRooted, Subscribed
  <2>3. CASE SetExit \/ DropReceiver \/ EndStream
    BY <2>3 DEF SetExit, DropReceiver, EndStream
  <2>4. CASE SubscribeError \/ CheckExit \/ Tick
    BY <2>4 DEF SubscribeError, CheckExit, Tick
  <2>5. CASE ReceiveEnd \/ ReceiveError \/ PassOn
    BY <2>5 DEF ReceiveEnd, ReceiveError, PassOn
  <2>6. CASE UNCHANGED vars
    BY <2>6
  <2> QED
    BY <2>1, <2>2, <2>3, <2>4, <2>5, <2>6 DEF Next
<1>3. StaleInv => NoneStaleAtGenesis
  BY ConsumerAssumption DEF StaleInv, NoneStaleAtGenesis
<1> QED
  BY <1>1, <1>2, <1>3, PTL DEF Spec

=============================================================================
