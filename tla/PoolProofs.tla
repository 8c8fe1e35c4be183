----------------------------- MODULE PoolProofs -----------------------------
(***************************************************************************)
(* Proofs about Pool, for every number of goroutines and of resources and  *)
(* every MaxSize: its accounting, who owns the resources, and that the     *)
(* pool is what Leases says it is.                                         *)
(*                                                                         *)
(* The first inductive invariant joins four facts that hold only together: *)
(* the counters add up (SlotConservation), Pool.leased counts its owners   *)
(* (LeasedCountsHolders, which keeps the decrements from going below 0),   *)
(* nothing is available while a call waits (NoLostWakeup), and the queue   *)
(* and the channels agree with the places of the processes (QueueInv).     *)
(***************************************************************************)
EXTENDS Pool, FiniteSetTheorems, SequenceTheorems, TLAPS

Queued == {waiters[i] : i \in 1..Len(waiters)}

(* A process is in the queue at most once and only while it waits, and a   *)
(* grant is in the channel of a process that waits and left the queue.     *)
QueueInv ==
  /\ \A i, j \in 1..Len(waiters) : waiters[i] = waiters[j] => i = j
  /\ \A p \in Queued : pc[p] \in {"wait", "abandon"} /\ grant[p] = None
  /\ \A p \in Procs : grant[p] # None => pc[p] \in {"wait", "abandon"}

(* A process that validates, uses or closes a resource has one.            *)
HeldInv ==
  \A p \in Procs : pc[p] \in {"useIdle", "leased", "closeResource"} => held[p] \in Res

IInv ==
  /\ TypeOK
  /\ HeldInv
  /\ QueueInv
  /\ NoLostWakeup
  /\ SlotConservation
  /\ LeasedCountsHolders

-----------------------------------------------------------------------------
(* Sequences *)

(* A sequence is empty exactly when its length is 0.                       *)
LEMMA EmptyIffLen0 ==
  ASSUME NEW S, NEW s \in Seq(S)
  PROVE  /\ Len(s) \in Nat
         /\ s = <<>> <=> Len(s) = 0
<1>1. s = <<>> => Len(s) = 0
  BY EmptySeq
<1> QED
  BY <1>1, EmptySeq, LenProperties

(* A contiguous part of a sequence.                                        *)
LEMMA SliceFacts ==
  ASSUME NEW S, NEW s \in Seq(S), NEW m \in 1..(Len(s) + 1), NEW n \in (m - 1)..Len(s)
  PROVE  SubSeq(s, m, n) \in Seq(S) /\ Len(SubSeq(s, m, n)) = n - m + 1
<1>1. Len(s) \in Nat /\ m \in Int /\ n \in Int /\ m - 1 <= n
  BY LenProperties
<1>2. \A i \in m..n : s[i] \in S
  BY <1>1, ElementOfSeq
<1>3. /\ SubSeq(s, m, n) \in Seq(S)
      /\ Len(SubSeq(s, m, n)) = IF m <= n THEN n - m + 1 ELSE 0
  BY <1>1, <1>2, SubSeqProperties
<1>4. (IF m <= n THEN n - m + 1 ELSE 0) = n - m + 1
  BY <1>1
<1> QED
  BY <1>3, <1>4

(* What is left of the queue when its head is popped.                      *)
LEMMA TailFacts ==
  ASSUME NEW S, NEW s \in Seq(S), s # <<>>
  PROVE  /\ Len(s) \in Nat \ {0} /\ Head(s) = s[1] /\ s[1] \in S
         /\ Tail(s) \in Seq(S) /\ Len(Tail(s)) = Len(s) - 1
         /\ \A i \in 1..(Len(s) - 1) : Tail(s)[i] = s[i + 1]
  BY HeadTailProperties, EmptySeq, ElementOfSeq, LenProperties

(* The branch of grantAvailable that a single freed slot takes: nothing    *)
(* waits and the slot stays free, or the head of the queue gets a permit.  *)
LEMMA ReturnSlotCases ==
  ASSUME TypeOK, NoLostWakeup, leased > 0,
         NEW g \in [Procs -> Res \cup {Permit, None}], ReturnSlot(g)
  PROVE  \/ /\ waiters = <<>> /\ waiters' = <<>> /\ idle' = idle
            /\ leased' = leased - 1 /\ freeSlots' = freeSlots + 1 /\ grant' = g
         \/ /\ waiters # <<>> /\ waiters' = Tail(waiters) /\ idle' = idle
            /\ leased' = leased /\ freeSlots' = freeSlots
            /\ grant' = [g EXCEPT ![Head(waiters)] = Permit]
<1> DEFINE n == Len(waiters)
           r == ResourceGrants(idle)
           s == SlotGrants(idle, freeSlots + 1)
<1>0. /\ n \in Nat /\ Len(idle) \in Nat /\ freeSlots \in Nat /\ leased \in Nat
      /\ waiters \in Seq(Procs) /\ idle \in Seq(Res)
  BY LenProperties DEF TypeOK
<1>a. /\ waiters' = SubSeq(waiters, r + s + 1, n)
      /\ idle' = SubSeq(idle, 1, Len(idle) - r)
      /\ leased' = (leased - 1) + r + s
      /\ freeSlots' = (freeSlots + 1) - s
      /\ grant' = Delivered(idle, r, s, g)
  <2>1. GrantAvailable(idle, leased - 1, freeSlots + 1, g)
    BY DEF ReturnSlot
  <2> HIDE DEF s, r
  <2> QED
    BY <2>1 DEF GrantAvailable, r, s
<1>b. r = IF n <= Len(idle) THEN n ELSE Len(idle)
  BY DEF ResourceGrants, Smaller
<1>c. s = IF n - r <= freeSlots + 1 THEN n - r ELSE freeSlots + 1
  BY DEF SlotGrants, Smaller
<1> HIDE DEF r, s
<1>1. CASE waiters = <<>>
  <2>1. n = 0 /\ r = 0 /\ s = 0
    BY <1>0, <1>1, <1>b, <1>c, EmptyIffLen0
  <2>2. SubSeq(waiters, 1, n) = waiters /\ SubSeq(idle, 1, Len(idle)) = idle
    BY <1>0, SubSeqFull
  <2> HIDE DEF n
  <2>3. grant' = [q \in Procs |-> g[q]]
    BY <1>a, <2>1 DEF Delivered
  <2>5. grant' = g
    BY <2>3
  <2>7. waiters' = waiters /\ idle' = idle /\ leased' = leased - 1 /\ freeSlots' = freeSlots + 1
    BY <1>a, <1>0, <2>1, <2>2
  <2> QED
    BY <1>1, <2>5, <2>7
<1>2. CASE waiters # <<>>
  <2>1. idle = <<>> /\ freeSlots = 0 /\ n \in Nat \ {0}
    BY <1>2, <1>0, EmptyIffLen0 DEF NoLostWakeup
  <2>2. Len(idle) = 0 /\ r = 0 /\ s = 1
    <3>1. Len(idle) = 0
      BY <2>1, <1>0, EmptyIffLen0
    <3> HIDE DEF n
    <3> QED
      BY <2>1, <3>1, <1>0, <1>b, <1>c
  <2> HIDE DEF n
  <2>5. \A q \in Procs : /\ ~ \E i \in 1..r : waiters[i] = q
                         /\ (\E i \in (r + 1)..(r + s) : waiters[i] = q) <=> q = Head(waiters)
    BY <2>2, <1>0, <1>2, TailFacts
  <2>6. grant' = [g EXCEPT ![Head(waiters)] = Permit]
    <3>1. grant' = [q \in Procs |-> IF q = Head(waiters) THEN Permit ELSE g[q]]
      BY <1>a, <2>5 DEF Delivered
    <3> QED
      BY <3>1, ZenonT(30)
  <2>7. waiters' = Tail(waiters)
    BY <2>2, <1>a, <1>0, <1>2, TailIsSubSeq DEF n
  <2>8. idle' = idle
    BY <2>1, <2>2, <1>a, SubSeqEmpty
  <2> QED
    BY <1>0, <1>2, <1>a, <2>1, <2>2, <2>6, <2>7, <2>8
<1> QED
  BY <1>1, <1>2

-----------------------------------------------------------------------------
(* Slots and their owners *)

(* How a set of processes grows and shrinks.                               *)
LEMMA CountFacts ==
  ASSUME NEW H \in SUBSET Procs, NEW p \in Procs
  PROVE  /\ Cardinality(H) \in Nat
         /\ p \in H => /\ Cardinality(H) > 0
                       /\ Cardinality(H \ {p}) = Cardinality(H) - 1
         /\ p \notin H => Cardinality(H \cup {p}) = Cardinality(H) + 1
<1>1. IsFiniteSet(H) /\ IsFiniteSet(H \ {p})
  BY ProcsFinite, FS_Subset, FS_RemoveElement
<1>2. /\ Cardinality(H) \in Nat /\ Cardinality(H \ {p}) \in Nat
      /\ Cardinality(H \ {p}) = IF p \in H THEN Cardinality(H) - 1 ELSE Cardinality(H)
      /\ Cardinality(H \cup {p}) = IF p \in H THEN Cardinality(H) ELSE Cardinality(H) + 1
  BY <1>1, FS_CardinalityType, FS_RemoveElement, FS_AddElement
<1> QED
  BY <1>2

(* A slot that changes hands.                                              *)
LEMMA SwapCount ==
  ASSUME NEW H \in SUBSET Procs, NEW p \in H, NEW q \in Procs, q \notin H
  PROVE  Cardinality((H \ {p}) \cup {q}) = Cardinality(H)
<1>1. H \ {p} \in SUBSET Procs /\ q \notin H \ {p} /\ p \in Procs
  OBVIOUS
<1>2. Cardinality((H \ {p}) \cup {q}) = Cardinality(H \ {p}) + 1
  BY <1>1, CountFacts
<1>3. Cardinality(H \ {p}) = Cardinality(H) - 1 /\ Cardinality(H) \in Nat
  BY <1>1, CountFacts, ZenonT(30)
<1> QED
  BY <1>2, <1>3

(* The part of TypeOK that the sections under the mutex touch.             *)
PoolTypes ==
  /\ idle \in Seq(Res) /\ leased \in Nat /\ freeSlots \in Nat
  /\ waiters \in Seq(Procs)
  /\ grant \in [Procs -> Res \cup {Permit, None}]

PoolInv == QueueInv /\ NoLostWakeup /\ SlotConservation /\ LeasedCountsHolders

Owning == {"useIdle", "stale", "createLeased", "leased"}

(* What the invariant says of the sorts of the variables.                  *)
LEMMA PoolFacts ==
  ASSUME IInv
  PROVE  /\ PoolTypes /\ pc \in [Procs -> Locations] /\ held \in [Procs -> Res \cup {None}]
         /\ Holders \in SUBSET Procs /\ leased = Cardinality(Holders)
         /\ Holders # {} => leased > 0
         /\ Len(idle) \in Nat /\ Len(waiters) \in Nat /\ MaxSize \in Nat
<1>1. /\ PoolTypes /\ pc \in [Procs -> Locations] /\ held \in [Procs -> Res \cup {None}]
      /\ leased = Cardinality(Holders) /\ MaxSize \in Nat
  BY PoolAssumption DEF IInv, TypeOK, PoolTypes, LeasedCountsHolders
<1>2. Holders \in SUBSET Procs
  BY DEF Holders
<1>3. Holders # {} => Cardinality(Holders) > 0
  BY <1>2, CountFacts, ZenonT(30)
<1>4. Len(idle) \in Nat /\ Len(waiters) \in Nat
  BY <1>1, LenProperties DEF PoolTypes
<1> QED
  BY <1>1, <1>2, <1>3, <1>4

(* Whoever is queued is one of the processes.                              *)
LEMMA QueuedProcs ==
  ASSUME waiters \in Seq(Procs)
  PROVE  \A q \in Queued : q \in Procs
  BY ElementOfSeq DEF Queued

(* A process that owns a slot stops owning it and hands it to nobody.      *)
LEMMA LeaveKeeps ==
  ASSUME IInv, NEW p \in Procs, NEW l \in Locations \ (Owning \cup {"wait", "abandon"}),
         p \in Holders, p \notin Queued, Goto(p, l),
         grant' = [grant EXCEPT ![p] = None], waiters' = waiters
  PROVE  /\ QueueInv' /\ leased - 1 = Cardinality(Holders')
         /\ leased - 1 \in Nat /\ grant' \in [Procs -> Res \cup {Permit, None}]
<1>1. /\ leased \in Nat /\ leased > 0 /\ Holders \in SUBSET Procs /\ leased = Cardinality(Holders)
      /\ pc \in [Procs -> Locations] /\ waiters \in Seq(Procs) /\ Len(waiters) \in Nat
      /\ grant \in [Procs -> Res \cup {Permit, None}] /\ QueueInv
  BY PoolFacts DEF PoolTypes, IInv
<1>2. pc' = [pc EXCEPT ![p] = l] /\ l \notin Owning /\ l \notin {"wait", "abandon"}
  BY DEF Goto
<1>3. Holders' = Holders \ {p}
  BY <1>1, <1>2 DEF Holders, Owning
<1>4. Cardinality(Holders \ {p}) = leased - 1
  BY <1>1, CountFacts
<1>5. QueueInv'
  <2>1. \A q \in Queued' : q \in Queued /\ q # p /\ q \in Procs
    BY <1>1, QueuedProcs DEF Queued
  <2>2. \A q \in Queued' : pc'[q] \in {"wait", "abandon"} /\ grant'[q] = None
    BY <2>1, <1>1, <1>2 DEF QueueInv
  <2>3. \A q \in Procs : grant'[q] # None => pc'[q] \in {"wait", "abandon"}
    BY <1>1, <1>2 DEF QueueInv
  <2>4. \A i, j \in 1..Len(waiters') : waiters'[i] = waiters'[j] => i = j
    BY <1>1 DEF QueueInv
  <2> QED
    BY <2>2, <2>3, <2>4 DEF QueueInv
<1> QED
  BY <1>1, <1>3, <1>4, <1>5

(* A process that owns a slot hands it to the head of the queue.           *)
LEMMA HandOverKeeps ==
  ASSUME IInv, NEW p \in Procs, NEW l \in Locations \ (Owning \cup {"wait", "abandon"}),
         p \in Holders, p \notin Queued, Goto(p, l), NEW x \in Res \cup {Permit},
         waiters # <<>>, waiters' = Tail(waiters),
         grant' = [[grant EXCEPT ![p] = None] EXCEPT ![Head(waiters)] = x]
  PROVE  /\ QueueInv' /\ leased = Cardinality(Holders')
         /\ waiters' \in Seq(Procs) /\ grant' \in [Procs -> Res \cup {Permit, None}]
<1>0. QueueInv
  BY DEF IInv
<1>1. /\ Holders \in SUBSET Procs /\ leased = Cardinality(Holders)
      /\ pc \in [Procs -> Locations] /\ waiters \in Seq(Procs) /\ Len(waiters) \in Nat
      /\ grant \in [Procs -> Res \cup {Permit, None}]
  BY PoolFacts DEF PoolTypes
<1>2. pc' = [pc EXCEPT ![p] = l] /\ l \notin Owning /\ l \notin {"wait", "abandon"}
  BY DEF Goto
<1> DEFINE w == Head(waiters)
<1>3. /\ w = waiters[1] /\ w \in Queued /\ w \in Procs /\ w # p
      /\ waiters' \in Seq(Procs) /\ Len(waiters') = Len(waiters) - 1 /\ Len(waiters) > 0
      /\ \A i \in 1..(Len(waiters) - 1) : waiters'[i] = waiters[i + 1]
  BY <1>1, TailFacts DEF Queued
<1>4. pc[w] \in {"wait", "abandon"} /\ grant[w] = None
  BY <1>3, <1>0 DEF QueueInv
<1> HIDE DEF w
<1>5. grant' = [[grant EXCEPT ![p] = None] EXCEPT ![w] = x]
  BY DEF w
<1>6. w \notin Holders /\ Holders' = (Holders \ {p}) \cup {w}
  <2>1. w \notin Holders
    BY <1>4 DEF Holders
  <2>2. p \notin Holders' /\ w \in Holders'
    BY <1>1, <1>2, <1>3, <1>5, PoolAssumption DEF Holders, Owning
  <2>3. \A q \in Procs \ {p, w} : q \in Holders' <=> q \in Holders
    BY <1>1, <1>2, <1>5 DEF Holders
  <2>4. Holders' \in SUBSET Procs
    BY DEF Holders
  <2> QED
    BY <1>1, <1>3, <2>1, <2>2, <2>3, <2>4
<1>7. leased = Cardinality(Holders')
  <2>1. Cardinality((Holders \ {p}) \cup {w}) = Cardinality(Holders)
    BY <1>1, <1>3, <1>6, SwapCount
  <2> QED
    BY <1>1, <2>1, <1>6
<1>8. Queued' \subseteq Queued \ {w}
  <2> SUFFICES ASSUME NEW i \in 1..(Len(waiters) - 1)
               PROVE  waiters[i + 1] \in Queued /\ waiters[i + 1] # w
    BY <1>3, <1>1 DEF Queued
  <2>1. i + 1 \in 1..Len(waiters) /\ 1 \in 1..Len(waiters) /\ i + 1 # 1
    BY <1>3, <1>1
  <2> QED
    BY <2>1, <1>3, <1>0 DEF QueueInv, Queued
<1>9. QueueInv'
  <2>1. \A q \in Queued' : pc'[q] \in {"wait", "abandon"} /\ grant'[q] = None
    <3> SUFFICES ASSUME NEW q \in Queued'
                 PROVE  pc'[q] \in {"wait", "abandon"} /\ grant'[q] = None
      BY ZenonT(30)
    <3>1. q \in Queued /\ q # w /\ q # p /\ q \in Procs
      BY <1>8, <1>1, QueuedProcs
    <3> QED
      BY <3>1, <1>0, <1>1, <1>2, <1>5 DEF QueueInv
  <2>2. \A q \in Procs : grant'[q] # None => pc'[q] \in {"wait", "abandon"}
    BY <1>0, <1>1, <1>2, <1>3, <1>4, <1>5 DEF QueueInv
  <2>3. \A i, j \in 1..Len(waiters') : waiters'[i] = waiters'[j] => i = j
    <3> SUFFICES ASSUME NEW i \in 1..(Len(waiters) - 1), NEW j \in 1..(Len(waiters) - 1),
                        waiters[i + 1] = waiters[j + 1]
                 PROVE  i = j
      BY <1>3
    <3>1. i + 1 \in 1..Len(waiters) /\ j + 1 \in 1..Len(waiters)
      BY <1>1
    <3>2. i + 1 = j + 1
      BY <3>1, <1>0 DEF QueueInv
    <3> QED
      BY <3>2
  <2> QED
    BY <2>1, <2>2, <2>3, ZenonT(30) DEF QueueInv
<1> QED
  BY <1>1, <1>3, <1>5, <1>7, <1>9

(* A process that gives its slot up, by the shared section of useIdle,     *)
(* createLeased, abandon and discard, leaves the pool consistent.          *)
LEMMA ReturnSlotKeeps ==
  ASSUME IInv, NEW p \in Procs, NEW l \in Locations \ (Owning \cup {"wait", "abandon"}),
         p \in Holders, p \notin Queued, Goto(p, l),
         NEW g, g = [grant EXCEPT ![p] = None], ReturnSlot(g), closed' = closed
  PROVE  PoolTypes' /\ PoolInv'
<1>0. TypeOK /\ NoLostWakeup /\ SlotConservation
  BY DEF IInv
<1>1. /\ leased \in Nat /\ leased > 0 /\ freeSlots \in Nat /\ idle \in Seq(Res)
      /\ g \in [Procs -> Res \cup {Permit, None}] /\ waiters \in Seq(Procs)
      /\ MaxSize \in Nat /\ Len(idle) \in Nat
  BY PoolFacts DEF PoolTypes
<1>2. CASE /\ waiters = <<>> /\ waiters' = <<>> /\ idle' = idle
           /\ leased' = leased - 1 /\ freeSlots' = freeSlots + 1 /\ grant' = g
  <2>1. /\ QueueInv' /\ leased - 1 = Cardinality(Holders')
        /\ leased - 1 \in Nat /\ grant' \in [Procs -> Res \cup {Permit, None}]
    BY <1>2, LeaveKeeps, ZenonT(30)
  <2>2. SlotConservation' /\ NoLostWakeup'
    BY <1>0, <1>1, <1>2 DEF SlotConservation, NoLostWakeup
  <2> QED
    BY <1>1, <1>2, <2>1, <2>2 DEF PoolInv, PoolTypes, LeasedCountsHolders
<1>3. CASE /\ waiters # <<>> /\ waiters' = Tail(waiters) /\ idle' = idle
           /\ leased' = leased /\ freeSlots' = freeSlots
           /\ grant' = [g EXCEPT ![Head(waiters)] = Permit]
  <2>1. /\ QueueInv' /\ leased = Cardinality(Holders') /\ waiters' \in Seq(Procs)
        /\ grant' \in [Procs -> Res \cup {Permit, None}]
    BY <1>3, HandOverKeeps, ZenonT(30)
  <2>2. SlotConservation' /\ NoLostWakeup'
    BY <1>0, <1>1, <1>3 DEF SlotConservation, NoLostWakeup
  <2> QED
    BY <1>1, <1>3, <2>1, <2>2 DEF PoolInv, PoolTypes, LeasedCountsHolders
<1> QED
  BY <1>0, <1>1, <1>2, <1>3, ReturnSlotCases, ZenonT(30)

(* putBack leaves the pool consistent on each of its three branches.       *)
LEMMA PutBackKeeps ==
  ASSUME IInv, NEW p \in Procs, p \in Holders, p \notin Queued, NEW r \in Res,
         NEW g, g = [grant EXCEPT ![p] = None], PutBack(p, r, g), closed' = closed
  PROVE  PoolTypes' /\ PoolInv'
<1>0. NoLostWakeup /\ SlotConservation
  BY DEF IInv
<1>1. /\ leased \in Nat /\ leased > 0 /\ freeSlots \in Nat /\ idle \in Seq(Res)
      /\ g \in [Procs -> Res \cup {Permit, None}] /\ waiters \in Seq(Procs)
      /\ MaxSize \in Nat /\ Len(idle) \in Nat
  BY PoolFacts DEF PoolTypes
<1>l. \A l \in {"out", "closeResource"} : l \in Locations \ (Owning \cup {"wait", "abandon"})
  BY DEF Locations, Owning
<1>2. CASE /\ closed /\ leased' = leased - 1 /\ Goto(p, "closeResource")
           /\ grant' = g /\ UNCHANGED <<idle, freeSlots, waiters>>
  <2>1. /\ QueueInv' /\ leased - 1 = Cardinality(Holders')
        /\ leased - 1 \in Nat /\ grant' \in [Procs -> Res \cup {Permit, None}]
    BY <1>2, <1>l, LeaveKeeps, ZenonT(30)
  <2>2. SlotConservation' /\ NoLostWakeup'
    BY <1>0, <1>1, <1>2 DEF SlotConservation, NoLostWakeup
  <2> QED
    BY <1>1, <1>2, <2>1, <2>2 DEF PoolInv, PoolTypes, LeasedCountsHolders
<1>3. CASE /\ ~closed /\ waiters # <<>> /\ grant' = [g EXCEPT ![Head(waiters)] = r]
           /\ waiters' = Tail(waiters) /\ Goto(p, "out") /\ UNCHANGED <<idle, leased, freeSlots>>
  <2>1. /\ QueueInv' /\ leased = Cardinality(Holders') /\ waiters' \in Seq(Procs)
        /\ grant' \in [Procs -> Res \cup {Permit, None}]
    BY <1>3, <1>l, HandOverKeeps, ZenonT(30)
  <2>2. SlotConservation' /\ NoLostWakeup'
    BY <1>0, <1>1, <1>3 DEF SlotConservation, NoLostWakeup
  <2> QED
    BY <1>1, <1>3, <2>1, <2>2 DEF PoolInv, PoolTypes, LeasedCountsHolders
<1>4. CASE /\ ~closed /\ waiters = <<>> /\ leased' = leased - 1 /\ idle' = Append(idle, r)
           /\ grant' = g /\ Goto(p, "out") /\ UNCHANGED <<freeSlots, waiters>>
  <2>1. /\ QueueInv' /\ leased - 1 = Cardinality(Holders')
        /\ leased - 1 \in Nat /\ grant' \in [Procs -> Res \cup {Permit, None}]
    BY <1>4, <1>l, LeaveKeeps, ZenonT(30)
  <2>2. idle' \in Seq(Res) /\ Len(idle') = Len(idle) + 1
    BY <1>1, <1>4, AppendProperties
  <2>3. SlotConservation' /\ NoLostWakeup'
    <3>1. NoLostWakeup' /\ ~closed'
      BY <1>4 DEF NoLostWakeup
    <3>2. Len(idle') + leased' + freeSlots' = MaxSize
      <4>1. Len(idle) + leased + freeSlots = MaxSize
        BY <1>0, <1>4 DEF SlotConservation
      <4>2. leased' = leased - 1 /\ freeSlots' = freeSlots
        BY <1>4
      <4> QED
        BY <4>1, <4>2, <1>1, <2>2
    <3> QED
      BY <3>1, <3>2 DEF SlotConservation
  <2> QED
    BY <1>1, <1>4, <2>1, <2>2, <2>3, SMTT(30) DEF PoolInv, PoolTypes, LeasedCountsHolders
<1> QED
  BY <1>2, <1>3, <1>4 DEF PutBack

(* A step of p that touches neither the pool nor a channel, and neither    *)
(* takes nor gives up a slot or a place in the queue.                      *)
LEMMA MoveKeeps ==
  ASSUME IInv, NEW p \in Procs, NEW l \in Locations, Goto(p, l),
         pc[p] \in Owning <=> l \in Owning,
         pc[p] \in {"wait", "abandon"} => l \in {"wait", "abandon"},
         UNCHANGED <<poolVars, grant>>
  PROVE  PoolTypes' /\ PoolInv'
<1>1. /\ PoolTypes /\ pc \in [Procs -> Locations] /\ leased = Cardinality(Holders)
      /\ QueueInv /\ NoLostWakeup /\ SlotConservation
  BY PoolFacts DEF IInv
<1>2. pc' = [pc EXCEPT ![p] = l]
  BY DEF Goto
<1>3. Holders' = Holders
  BY <1>1, <1>2 DEF Holders, Owning
<1>4. QueueInv'
  <2>1. Queued' = Queued /\ \A q \in Queued : q \in Procs
    BY <1>1, QueuedProcs DEF Queued, poolVars, PoolTypes
  <2>2. \A q \in Procs : pc[q] \in {"wait", "abandon"} => pc'[q] \in {"wait", "abandon"}
    BY <1>1, <1>2
  <2>3. \A i, j \in 1..Len(waiters') : waiters'[i] = waiters'[j] => i = j
    BY <1>1 DEF QueueInv, poolVars
  <2> QED
    BY <1>1, <2>1, <2>2, <2>3, SMTT(30) DEF QueueInv, poolVars
<1>5. PoolTypes' /\ NoLostWakeup' /\ SlotConservation' /\ LeasedCountsHolders'
  BY <1>1, <1>3 DEF PoolTypes, NoLostWakeup, SlotConservation, LeasedCountsHolders, poolVars
<1> QED
  BY <1>4, <1>5 DEF PoolInv

(* A call takes a slot: Holders grows by p and nobody waits.               *)
LEMMA TakeSlotKeeps ==
  ASSUME IInv, NEW p \in Procs, NEW l \in Owning, pc[p] = "acquire", Goto(p, l),
         waiters = <<>>, UNCHANGED <<waiters, grant>>
  PROVE  QueueInv' /\ leased + 1 = Cardinality(Holders')
<1>1. /\ PoolTypes /\ pc \in [Procs -> Locations] /\ leased = Cardinality(Holders)
      /\ QueueInv /\ Holders \in SUBSET Procs
  BY PoolFacts DEF IInv
<1>2. pc' = [pc EXCEPT ![p] = l] /\ grant[p] = None
  BY <1>1 DEF Goto, QueueInv
<1>3. p \notin Holders /\ Holders' = Holders \cup {p}
  BY <1>1, <1>2 DEF Holders, Owning
<1>4. Cardinality(Holders') = leased + 1
  BY <1>1, <1>3, CountFacts
<1>5. QueueInv'
  <2>1. Len(waiters') = 0
    BY <1>1, EmptyIffLen0 DEF PoolTypes
  <2>2. \A q \in Procs : grant'[q] # None => pc'[q] \in {"wait", "abandon"}
    BY <1>1, <1>2 DEF QueueInv
  <2> QED
    BY <2>1, <2>2 DEF QueueInv, Queued
<1> QED
  BY <1>4, <1>5

(* The queue with one element more at its end.                             *)
LEMMA AppendFacts ==
  ASSUME NEW S, NEW s \in Seq(S), NEW e \in S
  PROVE  /\ Append(s, e) \in Seq(S) /\ Len(Append(s, e)) = Len(s) + 1
         /\ \A i \in 1..Len(s) : Append(s, e)[i] = s[i]
         /\ Append(s, e)[Len(s) + 1] = e
  BY AppendProperties

(* The queue without its i-th element.                                     *)
LEMMA RemoveAtFacts ==
  ASSUME NEW S, NEW s \in Seq(S), NEW i \in 1..Len(s)
  PROVE  /\ RemoveAt(s, i) \in Seq(S) /\ Len(RemoveAt(s, i)) = Len(s) - 1
         /\ \A k \in 1..(Len(s) - 1) :
              RemoveAt(s, i)[k] = IF k < i THEN s[k] ELSE s[k + 1]
<1> DEFINE a == SubSeq(s, 1, i - 1)
           b == SubSeq(s, i + 1, Len(s))
<1>0. Len(s) \in Nat /\ i \in Int
  BY LenProperties
<1>1. a \in Seq(S) /\ Len(a) = i - 1 /\ \A k \in 1..(i - 1) : a[k] = s[k]
  <2>1. \A k \in 1..(i - 1) : s[k] \in S
    BY <1>0, ElementOfSeq
  <2>2. /\ a \in Seq(S)
        /\ Len(a) = IF 1 <= i - 1 THEN (i - 1) - 1 + 1 ELSE 0
        /\ \A k \in 1..((i - 1) - 1 + 1) : a[k] = s[1 + k - 1]
    BY <1>0, <2>1, SubSeqProperties
  <2> HIDE DEF a
  <2> QED
    BY <1>0, <2>2
<1>2. b \in Seq(S) /\ Len(b) = Len(s) - i /\ \A k \in 1..(Len(s) - i) : b[k] = s[i + k]
  <2>1. \A k \in (i + 1)..Len(s) : s[k] \in S
    BY <1>0, ElementOfSeq
  <2>2. /\ b \in Seq(S)
        /\ Len(b) = IF i + 1 <= Len(s) THEN Len(s) - (i + 1) + 1 ELSE 0
        /\ \A k \in 1..(Len(s) - (i + 1) + 1) : b[k] = s[(i + 1) + k - 1]
    BY <1>0, <2>1, SubSeqProperties
  <2> HIDE DEF b
  <2> QED
    BY <1>0, <2>2
<1>3. RemoveAt(s, i) = a \o b
  BY DEF RemoveAt
<1> HIDE DEF a, b
<1>4. /\ a \o b \in Seq(S) /\ Len(a \o b) = Len(a) + Len(b)
      /\ \A k \in 1..(Len(a) + Len(b)) :
           (a \o b)[k] = IF k <= Len(a) THEN a[k] ELSE b[k - Len(a)]
  BY <1>1, <1>2, ConcatProperties, ZenonT(30)
<1>5. ASSUME NEW k \in 1..(Len(s) - 1)
      PROVE  (a \o b)[k] = IF k < i THEN s[k] ELSE s[k + 1]
  <2>1. k \in 1..(Len(a) + Len(b))
    BY <1>0, <1>1, <1>2
  <2>2. CASE k < i
    BY <2>1, <2>2, <1>0, <1>1, <1>4, SMTT(30)
  <2>3. CASE ~(k < i)
    <3>1. k - (i - 1) \in 1..(Len(s) - i) /\ ~(k <= i - 1)
      BY <2>3, <1>0
    <3>2. (a \o b)[k] = b[k - (i - 1)]
      BY <2>1, <3>1, <1>1, <1>4, SMTT(30)
    <3>3. b[k - (i - 1)] = s[i + (k - (i - 1))]
      BY <3>1, <1>2
    <3>4. i + (k - (i - 1)) = k + 1
      BY <1>0
    <3> QED
      BY <2>3, <3>2, <3>3, <3>4, SMTT(30)
  <2> QED
    BY <2>2, <2>3, ZenonT(30)
<1>6. Len(a) + Len(b) = Len(s) - 1
  BY <1>0, <1>1, <1>2
<1> QED
  BY <1>3, <1>4, <1>5, <1>6, ZenonT(30)

-----------------------------------------------------------------------------
(* The inductive invariant *)

(* The initial pool is consistent.                                         *)
LEMMA InitInv == Init => IInv
<1> SUFFICES ASSUME Init PROVE IInv
  OBVIOUS
<1>1. TypeOK /\ HeldInv /\ Len(waiters) = 0 /\ Len(idle) = 0
  BY PoolAssumption, EmptySeq, ZenonT(30) DEF Init, TypeOK, HeldInv, Locations
<1>2. QueueInv
  BY <1>1 DEF Init, QueueInv, Queued
<1>3. NoLostWakeup /\ SlotConservation
  BY <1>1, PoolAssumption DEF Init, NoLostWakeup, SlotConservation
<1>4. LeasedCountsHolders
  <2>1. Holders = {}
    BY DEF Init, Holders
  <2> QED
    BY <2>1, FS_EmptySet DEF Init, LeasedCountsHolders
<1> QED
  BY <1>1, <1>2, <1>3, <1>4 DEF IInv

(* The steps of a goroutine that change neither the pool nor a channel.    *)
LEMMA LocalSteps ==
  ASSUME IInv, NEW p \in Procs,
         \/ CallAcquire(p) \/ AcquireFails(p) \/ StopWaiting(p) \/ Validated(p)
         \/ CloseStale(p) \/ NewSucceeds(p) \/ CloseResource(p)
  PROVE  IInv'
<1>0. TypeOK /\ HeldInv
  BY DEF IInv
<1>1. CASE CallAcquire(p)
  <2>1. PoolInv'
    BY <1>1, MoveKeeps DEF CallAcquire, Locations, Owning, poolVars
  <2>2. TypeOK' /\ HeldInv'
    BY <1>0, <1>1 DEF CallAcquire, TypeOK, HeldInv, Goto, Locations, poolVars
  <2> QED BY <2>1, <2>2 DEF IInv, PoolInv
<1>2. CASE AcquireFails(p)
  <2>1. PoolInv'
    BY <1>2, MoveKeeps DEF AcquireFails, Locations, Owning, poolVars
  <2>2. TypeOK' /\ HeldInv'
    BY <1>0, <1>2 DEF AcquireFails, TypeOK, HeldInv, Goto, Locations, poolVars, otherVars
  <2> QED BY <2>1, <2>2 DEF IInv, PoolInv
<1>3. CASE StopWaiting(p)
  <2>1. PoolInv'
    BY <1>3, MoveKeeps DEF StopWaiting, Locations, Owning, poolVars
  <2>2. TypeOK' /\ HeldInv'
    BY <1>0, <1>3 DEF StopWaiting, TypeOK, HeldInv, Goto, Locations, poolVars, otherVars
  <2> QED BY <2>1, <2>2 DEF IInv, PoolInv
<1>4. CASE Validated(p)
  <2>1. PoolInv'
    BY <1>4, MoveKeeps DEF Validated, Locations, Owning, poolVars
  <2>2. TypeOK' /\ HeldInv'
    BY <1>0, <1>4 DEF Validated, TypeOK, HeldInv, Goto, Locations, poolVars, otherVars
  <2> QED BY <2>1, <2>2 DEF IInv, PoolInv
<1>5. CASE CloseStale(p)
  <2>1. PoolInv'
    BY <1>5, MoveKeeps DEF CloseStale, Locations, Owning, poolVars
  <2>2. TypeOK' /\ HeldInv'
    BY <1>0, <1>5 DEF CloseStale, TypeOK, HeldInv, Goto, Locations, poolVars, otherVars
  <2> QED BY <2>1, <2>2 DEF IInv, PoolInv
<1>6. CASE NewSucceeds(p)
  <2>1. PoolInv'
    BY <1>6, MoveKeeps DEF NewSucceeds, Locations, Owning, poolVars
  <2>2. TypeOK' /\ HeldInv'
    BY <1>0, <1>6 DEF NewSucceeds, TypeOK, HeldInv, Goto, Locations, poolVars, otherVars
  <2> QED BY <2>1, <2>2 DEF IInv, PoolInv
<1>7. CASE CloseResource(p)
  <2>1. PoolInv'
    BY <1>7, MoveKeeps DEF CloseResource, Locations, Owning, poolVars
  <2>2. TypeOK' /\ HeldInv'
    BY <1>0, <1>7 DEF CloseResource, TypeOK, HeldInv, Goto, Locations, poolVars, otherVars
  <2> QED BY <2>1, <2>2 DEF IInv, PoolInv
<1> QED
  BY <1>1, <1>2, <1>3, <1>4, <1>5, <1>6, <1>7, SMTT(30)

(* The steps that give a slot up or put a resource back.                   *)
LEMMA ReturnSteps ==
  ASSUME IInv, NEW p \in Procs,
         RetryAcquire(p) \/ NewFails(p) \/ Discard(p) \/ Release(p) \/ AbandonGranted(p)
  PROVE  IInv'
<1>0. TypeOK /\ HeldInv /\ QueueInv
  BY DEF IInv
<1>p. /\ pc \in [Procs -> Locations] /\ grant \in [Procs -> Res \cup {Permit, None}]
      /\ held \in [Procs -> Res \cup {None}]
  BY <1>0 DEF TypeOK
<1>l. \A l \in {"out", "acquire", "closeResource"} :
         l \in Locations \ (Owning \cup {"wait", "abandon"})
  BY DEF Locations, Owning
<1>g. pc[p] \in {"stale", "createLeased", "leased"} =>
        p \in Holders /\ p \notin Queued /\ grant = [grant EXCEPT ![p] = None]
  <2>1. pc[p] \in {"stale", "createLeased", "leased"} =>
          p \in Holders /\ p \notin Queued /\ grant[p] = None
    BY <1>0, <1>p DEF QueueInv, Holders
  <2> QED
    BY <2>1, <1>p
<1>t. ASSUME PoolTypes', UNCHANGED <<closed, ctxDone, live, otherVars>>,
             pc' \in [Procs -> Locations], held' \in [Procs -> Res \cup {None}]
      PROVE  TypeOK'
  BY <1>0, <1>t DEF TypeOK, PoolTypes, otherVars
<1>1. CASE RetryAcquire(p)
  <2>1. PoolTypes' /\ PoolInv'
    BY <1>1, <1>g, <1>l, ReturnSlotKeeps DEF RetryAcquire
  <2>2. /\ pc' \in [Procs -> Locations] /\ held' \in [Procs -> Res \cup {None}] /\ HeldInv'
    BY <1>0, <1>1, <1>p DEF RetryAcquire, HeldInv, Goto, Locations
  <2>3. TypeOK'
    BY <1>1, <1>t, <2>1, <2>2 DEF RetryAcquire
  <2> QED BY <2>1, <2>2, <2>3 DEF IInv, PoolInv
<1>2. CASE NewFails(p)
  <2>1. PoolTypes' /\ PoolInv'
    BY <1>2, <1>g, <1>l, ReturnSlotKeeps DEF NewFails
  <2>2. /\ pc' \in [Procs -> Locations] /\ held' \in [Procs -> Res \cup {None}] /\ HeldInv'
    BY <1>0, <1>2, <1>p DEF NewFails, HeldInv, Goto, Locations
  <2>3. TypeOK'
    BY <1>2, <1>t, <2>1, <2>2 DEF NewFails
  <2> QED BY <2>1, <2>2, <2>3 DEF IInv, PoolInv
<1>3. CASE Discard(p)
  <2>1. PoolTypes' /\ PoolInv'
    BY <1>3, <1>g, <1>l, ReturnSlotKeeps DEF Discard
  <2>2. /\ pc' \in [Procs -> Locations] /\ held' \in [Procs -> Res \cup {None}] /\ HeldInv'
    BY <1>0, <1>3, <1>p DEF Discard, HeldInv, Goto, Locations
  <2>3. TypeOK'
    BY <1>3, <1>t, <2>1, <2>2 DEF Discard
  <2> QED BY <2>1, <2>2, <2>3 DEF IInv, PoolInv
<1>4. CASE Release(p)
  <2>0. held[p] \in Res
    BY <1>0, <1>4 DEF Release, HeldInv
  <2>1. PoolTypes' /\ PoolInv'
    BY <1>4, <1>g, <2>0, PutBackKeeps, ZenonT(30) DEF Release
  <2>2. /\ pc' \in [Procs -> Locations] /\ held' \in [Procs -> Res \cup {None}] /\ HeldInv'
    BY <1>0, <1>4, <1>p, <2>0 DEF Release, PutBack, HeldInv, Goto, Locations
  <2>3. TypeOK'
    BY <1>4, <1>t, <2>1, <2>2, ZenonT(30) DEF Release
  <2> QED BY <2>1, <2>2, <2>3 DEF IInv, PoolInv
<1>5. CASE AbandonGranted(p)
  <2> DEFINE g == [grant EXCEPT ![p] = None]
  <2>0. p \in Holders /\ p \notin Queued /\ grant[p] \in Res \cup {Permit}
    BY <1>0, <1>5, <1>p DEF AbandonGranted, Holders, QueueInv
  <2>1. CASE grant[p] # Permit /\ PutBack(p, grant[p], g)
    <3>1. PoolTypes' /\ PoolInv'
      BY <1>5, <2>0, <2>1, PutBackKeeps, ZenonT(30) DEF AbandonGranted
    <3>2. /\ pc' \in [Procs -> Locations] /\ held' \in [Procs -> Res \cup {None}] /\ HeldInv'
      BY <1>0, <1>5, <1>p, <2>0, <2>1, ZenonT(30) DEF AbandonGranted, PutBack, HeldInv, Goto, Locations
    <3>3. TypeOK'
      BY <1>5, <1>t, <3>1, <3>2 DEF AbandonGranted
    <3> QED BY <3>1, <3>2, <3>3 DEF IInv, PoolInv
  <2>2. CASE grant[p] = Permit /\ ReturnSlot(g) /\ Goto(p, "out") /\ UNCHANGED held
    <3>1. PoolTypes' /\ PoolInv'
      BY <1>5, <1>l, <2>0, <2>2, ReturnSlotKeeps, ZenonT(30) DEF AbandonGranted
    <3>2. /\ pc' \in [Procs -> Locations] /\ held' \in [Procs -> Res \cup {None}] /\ HeldInv'
      BY <1>0, <1>5, <1>p, <2>2, ZenonT(30) DEF HeldInv, Goto, Locations
    <3>3. TypeOK'
      BY <1>5, <1>t, <3>1, <3>2 DEF AbandonGranted
    <3> QED BY <3>1, <3>2, <3>3 DEF IInv, PoolInv
  <2> QED
    BY <1>5, <2>1, <2>2 DEF AbandonGranted
<1> QED
  BY <1>1, <1>2, <1>3, <1>4, <1>5

(* The steps by which a call takes something from the pool.                *)
LEMMA TakeSteps ==
  ASSUME IInv, NEW p \in Procs, AcquireIdle(p) \/ AcquireSlot(p) \/ TakeGrant(p)
  PROVE  IInv'
<1>0. TypeOK /\ HeldInv /\ QueueInv /\ NoLostWakeup /\ SlotConservation
  BY DEF IInv
<1>p. /\ PoolTypes /\ pc \in [Procs -> Locations] /\ held \in [Procs -> Res \cup {None}]
      /\ Len(idle) \in Nat /\ MaxSize \in Nat /\ leased = Cardinality(Holders)
  BY PoolFacts
<1>1. CASE AcquireIdle(p)
  <2>1. /\ waiters = <<>> /\ idle # <<>> /\ ~closed /\ waiters' = waiters
        /\ leased' = leased + 1 /\ freeSlots' = freeSlots /\ closed' = closed
    BY <1>0, <1>1 DEF AcquireIdle, NoLostWakeup
  <2>2. QueueInv' /\ LeasedCountsHolders'
    BY <1>1, <2>1, TakeSlotKeeps DEF AcquireIdle, Owning, LeasedCountsHolders
  <2>3. /\ Len(idle) > 0 /\ idle[Len(idle)] \in Res
        /\ idle' \in Seq(Res) /\ Len(idle') = Len(idle) - 1
    <3>1. Len(idle) > 0 /\ idle \in Seq(Res)
      BY <1>p, <2>1, EmptyIffLen0 DEF PoolTypes
    <3>2. 1 \in 1..(Len(idle) + 1) /\ Len(idle) - 1 \in (1 - 1)..Len(idle)
      BY <1>p, <3>1
    <3>3. /\ SubSeq(idle, 1, Len(idle) - 1) \in Seq(Res)
          /\ Len(SubSeq(idle, 1, Len(idle) - 1)) = (Len(idle) - 1) - 1 + 1
      BY <3>1, <3>2, SliceFacts, ZenonT(30)
    <3> QED
      BY <1>1, <1>p, <3>1, <3>3, ElementOfSeq, SMTT(30) DEF AcquireIdle
  <2>4. NoLostWakeup' /\ SlotConservation'
    <3>1. Len(idle) + leased + freeSlots = MaxSize /\ leased \in Nat /\ freeSlots \in Nat
      BY <1>0, <1>p, <2>1 DEF SlotConservation, PoolTypes
    <3>2. Len(idle') + leased' + freeSlots' = MaxSize
      BY <1>p, <2>1, <2>3, <3>1, SMTT(30)
    <3> QED
      BY <2>1, <3>2 DEF NoLostWakeup, SlotConservation
  <2>5. held' = [held EXCEPT ![p] = idle[Len(idle)]]
    BY <1>1 DEF AcquireIdle, Last
  <2>6. HeldInv' /\ held' \in [Procs -> Res \cup {None}] /\ pc' \in [Procs -> Locations]
    BY <1>0, <1>1, <1>p, <2>3, <2>5, ZenonT(30) DEF AcquireIdle, HeldInv, Goto, Locations
  <2>7. TypeOK'
    BY <1>0, <1>1, <2>1, <2>3, <2>6 DEF AcquireIdle, TypeOK, otherVars
  <2> QED
    BY <2>2, <2>4, <2>6, <2>7, ZenonT(30) DEF IInv
<1>2. CASE AcquireSlot(p)
  <2>1. waiters = <<>>
    BY <1>0, <1>2, <1>p DEF AcquireSlot, NoLostWakeup, PoolTypes
  <2>2. QueueInv' /\ LeasedCountsHolders'
    BY <1>2, <2>1, TakeSlotKeeps, ZenonT(30) DEF AcquireSlot, Owning, LeasedCountsHolders
  <2>3. NoLostWakeup' /\ SlotConservation'
    BY <1>0, <1>2, <1>p, <2>1 DEF AcquireSlot, NoLostWakeup, SlotConservation, PoolTypes
  <2>4. TypeOK' /\ HeldInv'
    BY <1>0, <1>2 DEF AcquireSlot, TypeOK, HeldInv, Goto, Locations, otherVars
  <2> QED
    BY <2>2, <2>3, <2>4 DEF IInv
<1>3. CASE TakeGrant(p)
  <2>1. /\ pc[p] = "wait" /\ grant[p] # None /\ grant' = [grant EXCEPT ![p] = None]
        /\ UNCHANGED <<poolVars, ctxDone, live, otherVars>>
    BY <1>3 DEF TakeGrant
  <2>2. PICK l \in {"useIdle", "createLeased"} : pc' = [pc EXCEPT ![p] = l]
    BY <1>3 DEF TakeGrant, Goto
  <2>3. Holders' = Holders
    <3>1. p \in Holders /\ p \in Holders'
      BY <1>p, <2>1, <2>2 DEF Holders
    <3>2. \A q \in Procs \ {p} : q \in Holders' <=> q \in Holders
      BY <1>p, <2>1, <2>2 DEF Holders, PoolTypes
    <3>3. Holders \in SUBSET Procs /\ Holders' \in SUBSET Procs
      BY DEF Holders
    <3> QED
      BY <3>1, <3>2, <3>3
  <2>4. LeasedCountsHolders' /\ NoLostWakeup' /\ SlotConservation'
    BY <1>0, <1>p, <2>1, <2>3 DEF LeasedCountsHolders, NoLostWakeup, SlotConservation, poolVars
  <2>5. QueueInv'
    <3>1. Queued' = Queued /\ p \notin Queued /\ \A q \in Queued : q \in Procs
      BY <1>0, <1>p, <2>1, QueuedProcs DEF Queued, poolVars, PoolTypes, QueueInv
    <3>2. \A q \in Queued : pc'[q] \in {"wait", "abandon"} /\ grant'[q] = None
      BY <1>0, <1>p, <2>1, <2>2, <3>1, ZenonT(30) DEF QueueInv, PoolTypes
    <3>3. \A q \in Procs : grant'[q] # None => pc'[q] \in {"wait", "abandon"}
      BY <1>0, <1>p, <2>1, <2>2 DEF QueueInv, PoolTypes
    <3>4. \A i, j \in 1..Len(waiters') : waiters'[i] = waiters'[j] => i = j
      BY <1>0, <2>1 DEF QueueInv, poolVars
    <3> QED
      BY <3>1, <3>2, <3>3, <3>4, ZenonT(30) DEF QueueInv
  <2>6. TypeOK' /\ HeldInv'
    BY <1>0, <1>3 DEF TakeGrant, TypeOK, HeldInv, Goto, Locations, poolVars, otherVars
  <2> QED
    BY <2>4, <2>5, <2>6 DEF IInv
<1> QED
  BY <1>1, <1>2, <1>3

(* The steps by which a call enters and leaves the queue.                  *)
LEMMA QueueSteps ==
  ASSUME IInv, NEW p \in Procs, AcquireQueue(p) \/ AbandonQueued(p)
  PROVE  IInv'
<1>0. TypeOK /\ HeldInv /\ QueueInv /\ NoLostWakeup /\ SlotConservation /\ LeasedCountsHolders
  BY DEF IInv
<1>p. /\ PoolTypes /\ pc \in [Procs -> Locations] /\ Len(waiters) \in Nat
      /\ waiters \in Seq(Procs)
  BY PoolFacts DEF PoolTypes
<1>q. \A q \in Queued : q \in Procs
  BY <1>p, QueuedProcs
<1>1. CASE AcquireQueue(p)
  <2>1. /\ waiters' \in Seq(Procs) /\ Len(waiters') = Len(waiters) + 1
        /\ \A i \in 1..Len(waiters) : waiters'[i] = waiters[i]
        /\ waiters'[Len(waiters) + 1] = p
    <3>1. waiters' = Append(waiters, p)
      BY <1>1, ZenonT(30) DEF AcquireQueue
    <3>2. /\ Append(waiters, p) \in Seq(Procs) /\ Len(Append(waiters, p)) = Len(waiters) + 1
          /\ \A i \in 1..Len(waiters) : Append(waiters, p)[i] = waiters[i]
          /\ Append(waiters, p)[Len(waiters) + 1] = p
      BY <1>p, AppendFacts, ZenonT(30)
    <3> QED
      BY <3>1, <3>2, ZenonT(30)
  <2>2. /\ pc[p] = "acquire" /\ pc' = [pc EXCEPT ![p] = "wait"] /\ grant' = grant
        /\ idle = <<>> /\ freeSlots = 0 /\ p \notin Queued /\ grant[p] = None
        /\ UNCHANGED <<idle, leased, freeSlots, closed>>
    BY <1>0, <1>1, ZenonT(30) DEF AcquireQueue, Goto, QueueInv
  <2>3. Holders' = Holders
    BY <1>p, <2>2 DEF Holders
  <2>4. LeasedCountsHolders' /\ NoLostWakeup' /\ SlotConservation'
    BY <1>0, <2>2, <2>3, ZenonT(30) DEF LeasedCountsHolders, NoLostWakeup, SlotConservation
  <2>5. QueueInv'
    <3>1. Queued' \subseteq Queued \cup {p}
      <4> SUFFICES ASSUME NEW i \in 1..(Len(waiters) + 1)
                   PROVE  waiters'[i] \in Queued \cup {p}
        BY <2>1 DEF Queued
      <4>1. CASE i \in 1..Len(waiters)
        BY <2>1, <4>1 DEF Queued
      <4>2. CASE i = Len(waiters) + 1
        BY <2>1, <4>2
      <4> QED
        BY <1>p, <4>1, <4>2
    <3>2. \A q \in Queued' : pc'[q] \in {"wait", "abandon"} /\ grant'[q] = None
      BY <1>0, <1>p, <1>q, <2>2, <3>1, ZenonT(30) DEF QueueInv
    <3>3. \A q \in Procs : grant'[q] # None => pc'[q] \in {"wait", "abandon"}
      BY <1>0, <1>p, <2>2, SMTT(30) DEF QueueInv
    <3>4. \A i \in 1..Len(waiters) : waiters[i] # p
      BY <2>2 DEF Queued
    <3>5. \A i, j \in 1..(Len(waiters) + 1) : waiters'[i] = waiters'[j] => i = j
      <4>1. \A i, j \in 1..Len(waiters) : waiters[i] = waiters[j] => i = j
        BY <1>0 DEF QueueInv
      <4>2. /\ \A i \in 1..Len(waiters) : waiters'[i] = waiters[i]
            /\ waiters'[Len(waiters) + 1] = p
        BY <2>1, ZenonT(30)
      <4>3. \A i \in 1..(Len(waiters) + 1) : i \in 1..Len(waiters) \/ i = Len(waiters) + 1
        BY <1>p
      <4> QED
        BY <3>4, <4>1, <4>2, <4>3, ZenonT(30)
    <3> QED
      BY <2>1, <3>2, <3>3, <3>5, SMTT(30) DEF QueueInv
  <2>6. TypeOK' /\ HeldInv'
    BY <1>0, <1>1, <2>1 DEF AcquireQueue, TypeOK, HeldInv, Goto, Locations, otherVars
  <2> QED
    BY <2>4, <2>5, <2>6 DEF IInv
<1>2. CASE AbandonQueued(p)
  <2>0. PICK k \in 1..Len(waiters) : waiters[k] = p /\ waiters' = RemoveAt(waiters, k)
    BY <1>2, ZenonT(30) DEF AbandonQueued
  <2>1. /\ waiters' \in Seq(Procs) /\ Len(waiters') = Len(waiters) - 1
        /\ \A i \in 1..(Len(waiters) - 1) :
             waiters'[i] = IF i < k THEN waiters[i] ELSE waiters[i + 1]
    BY <1>p, <2>0, RemoveAtFacts, ZenonT(30)
  <2>2. /\ pc[p] = "abandon" /\ pc' = [pc EXCEPT ![p] = "out"] /\ grant' = grant
        /\ p \in Queued /\ grant[p] = None /\ waiters # <<>>
        /\ UNCHANGED <<idle, leased, freeSlots, closed>>
    <3>1. p \in Queued /\ waiters # <<>>
      BY <1>p, <2>0, EmptyIffLen0 DEF Queued
    <3> QED
      BY <1>0, <1>2, <3>1 DEF AbandonQueued, Goto, QueueInv
  <2>3. Holders' = Holders
    BY <1>p, <2>2 DEF Holders
  <2>4. LeasedCountsHolders' /\ NoLostWakeup' /\ SlotConservation'
    BY <1>0, <2>2, <2>3 DEF LeasedCountsHolders, NoLostWakeup, SlotConservation
  <2>5. QueueInv'
    <3> DEFINE From(i) == IF i < k THEN i ELSE i + 1
    <3>1. \A i \in 1..(Len(waiters) - 1) :
             From(i) \in 1..Len(waiters) /\ From(i) # k /\ waiters'[i] = waiters[From(i)]
      BY <1>p, <2>0, <2>1
    <3>2. \A i, j \in 1..(Len(waiters) - 1) : From(i) = From(j) => i = j
      BY <1>p, <2>0
    <3> HIDE DEF From
    <3>3. \A i, j \in 1..Len(waiters') : waiters'[i] = waiters'[j] => i = j
      <4>1. \A i, j \in 1..Len(waiters) : waiters[i] = waiters[j] => i = j
        BY <1>0 DEF QueueInv
      <4>2. Len(waiters') = Len(waiters) - 1
        BY <2>1, ZenonT(30)
      <4> QED
        BY <3>1, <3>2, <4>1, <4>2, ZenonT(30)
    <3>4. \A q \in Queued' : q \in Queued /\ q # p
      <4> SUFFICES ASSUME NEW i \in 1..(Len(waiters) - 1)
                   PROVE  waiters'[i] \in Queued /\ waiters'[i] # p
        BY <2>1 DEF Queued
      <4> QED
        BY <1>0, <2>0, <3>1, SMTT(30) DEF QueueInv, Queued
    <3>5. \A q \in Queued' : pc'[q] \in {"wait", "abandon"} /\ grant'[q] = None
      BY <1>0, <1>p, <1>q, <2>2, <3>4 DEF QueueInv
    <3>6. \A q \in Procs : grant'[q] # None => pc'[q] \in {"wait", "abandon"}
      BY <1>0, <1>p, <2>2, ZenonT(30) DEF QueueInv
    <3> QED
      BY <3>3, <3>5, <3>6, ZenonT(30) DEF QueueInv
  <2>6. TypeOK' /\ HeldInv'
    BY <1>0, <1>2, <2>1 DEF AbandonQueued, TypeOK, HeldInv, Goto, Locations, otherVars
  <2> QED
    BY <2>4, <2>5, <2>6 DEF IInv
<1> QED
  BY <1>1, <1>2

(* evictExpired hands nothing over: nobody waits while something is idle.  *)
LEMMA EvictFacts ==
  ASSUME IInv, NEW k \in 1..Len(idle),
         GrantAvailable(SubSeq(idle, k + 1, Len(idle)), leased, freeSlots + k, grant)
  PROVE  /\ waiters = <<>> /\ ~closed
         /\ idle' = SubSeq(idle, k + 1, Len(idle)) /\ idle' \in Seq(Res) /\ Len(idle') = Len(idle) - k
         /\ waiters' = waiters /\ leased' = leased /\ grant' = grant /\ freeSlots' = freeSlots + k
<1>0. NoLostWakeup /\ SlotConservation
  BY DEF IInv
<1>p. /\ PoolTypes /\ idle \in Seq(Res) /\ Len(idle) \in Nat
      /\ leased \in Nat /\ freeSlots \in Nat /\ waiters \in Seq(Procs)
  BY PoolFacts DEF PoolTypes
<1> DEFINE kept == SubSeq(idle, k + 1, Len(idle))
<1>2. kept \in Seq(Res) /\ Len(kept) = Len(idle) - k
  <2>1. k + 1 \in 1..(Len(idle) + 1) /\ Len(idle) \in ((k + 1) - 1)..Len(idle)
    BY <1>p
  <2>2. kept \in Seq(Res) /\ Len(kept) = Len(idle) - (k + 1) + 1
    BY <1>p, <2>1, SliceFacts
  <2> HIDE DEF kept
  <2> QED
    BY <1>p, <2>2
<1>3. waiters = <<>> /\ Len(waiters) = 0 /\ ~closed
  <2>1. idle # <<>>
    BY <1>p, EmptyIffLen0
  <2> QED
    BY <1>0, <1>p, <2>1, EmptyIffLen0 DEF NoLostWakeup, SlotConservation
<1> HIDE DEF kept
<1>4. ResourceGrants(kept) = 0 /\ SlotGrants(kept, freeSlots + k) = 0
  <2>1. ResourceGrants(kept) = 0
    BY <1>p, <1>2, <1>3 DEF ResourceGrants, Smaller
  <2> QED
    BY <1>p, <1>3, <2>1 DEF SlotGrants, Smaller
<1>5. /\ waiters' = SubSeq(waiters, 0 + 0 + 1, 0)
      /\ idle' = SubSeq(kept, 1, Len(kept) - 0)
      /\ leased' = leased + 0 + 0
      /\ freeSlots' = (freeSlots + k) - 0
      /\ grant' = Delivered(kept, 0, 0, grant)
  BY <1>3, <1>4 DEF GrantAvailable, kept
<1>6. waiters' = waiters /\ leased' = leased /\ freeSlots' = freeSlots + k
  BY <1>p, <1>3, <1>5, SubSeqFull
<1>7. idle' = kept
  BY <1>2, <1>5, SubSeqFull
<1>8. grant' = grant
  <2>1. grant' = [q \in Procs |-> grant[q]]
    BY <1>5 DEF Delivered
  <2> QED
    BY <2>1, <1>p DEF PoolTypes
<1> QED
  BY <1>2, <1>3, <1>6, <1>7, <1>8 DEF kept

(* The janitor's and the closer's steps, and the end of a context.         *)
LEMMA OtherSteps ==
  ASSUME IInv,
         \/ \E p \in Procs : ContextEnds(p)
         \/ EvictExpired \/ JanitorStep \/ CloseBegins \/ CloserStep \/ UNCHANGED vars
  PROVE  IInv'
<1>0. TypeOK /\ HeldInv /\ QueueInv /\ NoLostWakeup /\ SlotConservation /\ LeasedCountsHolders
  BY DEF IInv
<1>p. /\ PoolTypes /\ idle \in Seq(Res) /\ Len(idle) \in Nat /\ MaxSize \in Nat
      /\ leased \in Nat /\ freeSlots \in Nat /\ waiters \in Seq(Procs)
  BY PoolFacts DEF PoolTypes
<1>u. ASSUME UNCHANGED <<waiters, pc, grant, leased>>
      PROVE  QueueInv' /\ LeasedCountsHolders'
  <2>1. Queued' = Queued /\ Holders' = Holders
    BY <1>u DEF Queued, Holders
  <2> QED
    BY <1>0, <1>u, <2>1 DEF QueueInv, LeasedCountsHolders
<1>v. ASSUME UNCHANGED <<poolVars, pc, held, grant>>
      PROVE  QueueInv' /\ LeasedCountsHolders' /\ NoLostWakeup' /\ SlotConservation' /\ HeldInv'
  BY <1>0, <1>u, <1>v DEF poolVars, NoLostWakeup, SlotConservation, HeldInv
<1>1. CASE \E p \in Procs : ContextEnds(p)
  <2>1. UNCHANGED <<poolVars, pc, held, grant>>
    BY <1>1 DEF ContextEnds
  <2>2. TypeOK'
    BY <1>0, <1>1 DEF ContextEnds, TypeOK, poolVars, otherVars
  <2> QED BY <1>v, <2>1, <2>2, ZenonT(30) DEF IInv
<1>2. CASE JanitorStep \/ CloserStep \/ UNCHANGED vars
  <2>1. UNCHANGED <<poolVars, pc, held, grant>>
    BY <1>2, ZenonT(30) DEF JanitorStep, CloserStep, CloseExpired, StopJanitor, JanitorDone,
                CloseGivesUp, CloseIdle, vars, procVars
  <2>2. TypeOK'
    BY <1>0, <1>2 DEF JanitorStep, CloserStep, CloseExpired, StopJanitor, JanitorDone,
                CloseGivesUp, CloseIdle, vars, procVars, poolVars, otherVars, TypeOK
  <2> QED BY <1>v, <2>1, <2>2, ZenonT(30) DEF IInv
<1>3. CASE CloseBegins
  <2>1. UNCHANGED <<waiters, pc, grant, leased>> /\ HeldInv'
    <3>1. UNCHANGED <<waiters, pc, held, grant, leased>>
      BY <1>3 DEF CloseBegins, procVars
    <3> QED BY <1>0, <3>1 DEF HeldInv
  <2>2. idle' = <<>> /\ closed' = TRUE /\ ~closed /\ freeSlots' = freeSlots
    BY <1>3 DEF CloseBegins
  <2>3. NoLostWakeup' /\ SlotConservation'
    BY <1>0, <1>p, <2>1, <2>2 DEF NoLostWakeup, SlotConservation
  <2>4. ToSet(idle) \subseteq Res /\ ToSet(waiters) \subseteq Procs
    BY <1>p, LenProperties DEF ToSet
  <2>5. TypeOK'
    BY <1>0, <1>3, <2>4, EmptySeq, ZenonT(30) DEF CloseBegins, TypeOK, procVars
  <2> QED BY <1>u, <2>1, <2>3, <2>5, ZenonT(30) DEF IInv
<1>4. CASE EvictExpired
  <2>1. PICK k \in 1..Len(idle) :
          /\ expired' = ToSet(SubSeq(idle, 1, k))
          /\ GrantAvailable(SubSeq(idle, k + 1, Len(idle)), leased, freeSlots + k, grant)
    BY <1>4 DEF EvictExpired
  <2>2. /\ waiters = <<>> /\ ~closed
        /\ idle' = SubSeq(idle, k + 1, Len(idle)) /\ idle' \in Seq(Res) /\ Len(idle') = Len(idle) - k
        /\ waiters' = waiters /\ leased' = leased /\ grant' = grant /\ freeSlots' = freeSlots + k
    BY <2>1, EvictFacts, ZenonT(30)
  <2>3. UNCHANGED <<waiters, pc, grant, leased, closed>> /\ HeldInv'
    BY <1>0, <1>4, <2>2 DEF EvictExpired, HeldInv
  <2>4. NoLostWakeup' /\ SlotConservation'
    <3>1. Len(idle) + leased + freeSlots = MaxSize
      BY <1>0, <2>2 DEF SlotConservation
    <3>2. Len(idle') = Len(idle) - k /\ leased' = leased /\ freeSlots' = freeSlots + k
      BY <2>2, ZenonT(30)
    <3>3. Len(idle') + leased' + freeSlots' = MaxSize
      BY <1>p, <3>1, <3>2
    <3> QED
      BY <2>2, <2>3, <3>3 DEF NoLostWakeup, SlotConservation
  <2>5. ToSet(SubSeq(idle, 1, k)) \subseteq Res
    <3>1. 1 \in 1..(Len(idle) + 1) /\ k \in (1 - 1)..Len(idle)
      BY <1>p
    <3>2. SubSeq(idle, 1, k) \in Seq(Res)
      BY <1>p, <3>1, SliceFacts, ZenonT(30)
    <3> QED
      BY <3>2, LenProperties DEF ToSet
  <2>6. TypeOK'
    <3>1. freeSlots' \in Nat
      BY <1>p, <2>1, <2>2
    <3>2. /\ janitor' = "evicting"
          /\ UNCHANGED <<closed, pc, ctxDone, held, live, closer, closeList, queuedAtClose>>
      BY <1>4, ZenonT(30) DEF EvictExpired
    <3>3. TypeOK /\ expired' \subseteq Res
      BY <1>0, <2>1, <2>5, ZenonT(30)
    <3> QED
      BY <2>2, <3>1, <3>2, <3>3, ZenonT(30) DEF TypeOK
  <2> QED BY <1>u, <2>3, <2>4, <2>6, ZenonT(30) DEF IInv
<1> QED
  BY <1>1, <1>2, <1>3, <1>4

(* No step of any thread leaves the invariant.                             *)
LEMMA NextInv == IInv /\ [Next]_vars => IInv'
<1> SUFFICES ASSUME IInv, [Next]_vars PROVE IInv'
  OBVIOUS
<1>1. ASSUME NEW p \in Procs, Step(p) PROVE IInv'
  BY <1>1, LocalSteps, ReturnSteps, TakeSteps, QueueSteps, ZenonT(30) DEF Step
<1>2. ASSUME NEW p \in Procs, CallAcquire(p) PROVE IInv'
  BY <1>2, LocalSteps
<1> QED
  BY <1>1, <1>2, OtherSteps DEF Next

(* For every number of goroutines, resources and slots the pool keeps its  *)
(* types: no counter goes below zero, whatever the order of Acquire,       *)
(* Release, Discard, eviction and Close.                                   *)
THEOREM PoolTypeCorrect == Spec => []TypeOK
<1>1. IInv => TypeOK
  BY DEF IInv
<1> QED
  BY <1>1, InitInv, NextInv, PTL DEF Spec

(* The slots of the pool are neither lost nor invented by Acquire, putBack, *)
(* discard, abandon, evictExpired or Close.                                *)
THEOREM PoolAccounting == Spec => []SlotConservation
<1>1. IInv => SlotConservation
  BY DEF IInv
<1> QED
  BY <1>1, InitInv, NextInv, PTL DEF Spec

(* Pool.leased counts exactly the calls that own a slot.                   *)
THEOREM LeasedIsExact == Spec => []LeasedCountsHolders
<1>1. IInv => LeasedCountsHolders
  BY DEF IInv
<1> QED
  BY <1>1, InitInv, NextInv, PTL DEF Spec

(* "no lost wakeups": nothing is available while a call is queued.         *)
THEOREM PoolNoLostWakeup == Spec => []NoLostWakeup
<1>1. IInv => NoLostWakeup
  BY DEF IInv
<1> QED
  BY <1>1, InitInv, NextInv, PTL DEF Spec

-----------------------------------------------------------------------------
(* Ownership.  The second inductive invariant says where each open         *)
(* resource is: exactly one of the idle stack, a call or lease, a channel, *)
(* the janitor's list and Close's list has it.  It rests on the first:     *)
(* what is given back reaches the empty channel of a waiter because the    *)
(* queue and the channels agree, and eviction grants nothing because       *)
(* nobody waits while something is idle.                                   *)

(* The resources among the values of a function of the processes.          *)
Values(f) == {r \in Res : \E p \in Procs : f[p] = r}

(* No two processes, and no two places of the stack, have the same one.    *)
Apart(f) == \A p, q \in Procs : f[p] = f[q] /\ f[p] \in Res => p = q
NoRepeat(s) == \A i, j \in 1..Len(s) : s[i] = s[j] => i = j

Holding == {"useIdle", "leased", "closeResource"}

(* Five owners share the resources l, and no resource has two of them.     *)
Shares(a, b, c, d, e, l) ==
  /\ \A r \in a : r \notin b /\ r \notin c /\ r \notin d /\ r \notin e
  /\ \A r \in b : r \notin c /\ r \notin d /\ r \notin e
  /\ \A r \in c : r \notin d /\ r \notin e
  /\ \A r \in d : r \notin e
  /\ l = a \cup b \cup c \cup d \cup e

Owned ==
  /\ NoRepeat(idle) /\ Apart(held) /\ Apart(grant)
  /\ Shares(ToSet(idle), Values(held), Values(grant), expired, closeList, live)

(* A process has a resource in exactly the places where it works on one,   *)
(* and the two lists are empty before they are filled.                     *)
Placed == \A p \in Procs : held[p] # None <=> pc[p] \in Holding

PlaceInv ==
  /\ Placed
  /\ janitor # "evicting" => expired = {}
  /\ ~closed => closeList = {}

OwnInv == PlaceInv /\ Owned

-----------------------------------------------------------------------------
(* A resource that moves from one owner to another, is opened for one or   *)
(* closed by one, leaves the others alone.  From the stack to a process:   *)
LEMMA IdleToHeld ==
  ASSUME NEW a, NEW b, NEW c, NEW d, NEW e, NEW l, Shares(a, b, c, d, e, l), NEW x \in a
  PROVE  x \notin b /\ Shares(a \ {x}, b \cup {x}, c, d, e, l)
  BY DEF Shares

(* A process parks it on the stack,                                        *)
LEMMA HeldToIdle ==
  ASSUME NEW a, NEW b, NEW c, NEW d, NEW e, NEW l, Shares(a, b, c, d, e, l), NEW x \in b
  PROVE  x \notin a /\ Shares(a \cup {x}, b \ {x}, c, d, e, l)
  BY DEF Shares

(* or hands it to a waiter,                                                *)
LEMMA HeldToGrant ==
  ASSUME NEW a, NEW b, NEW c, NEW d, NEW e, NEW l, Shares(a, b, c, d, e, l), NEW x \in b
  PROVE  x \notin c /\ Shares(a, b \ {x}, c \cup {x}, d, e, l)
  BY DEF Shares

(* or closes it.                                                           *)
LEMMA HeldCloses ==
  ASSUME NEW a, NEW b, NEW c, NEW d, NEW e, NEW l, Shares(a, b, c, d, e, l), NEW x \in b
  PROVE  Shares(a, b \ {x}, c, d, e, l \ {x})
  BY DEF Shares

(* A waiter takes it from its channel,                                     *)
LEMMA GrantToHeld ==
  ASSUME NEW a, NEW b, NEW c, NEW d, NEW e, NEW l, Shares(a, b, c, d, e, l), NEW x \in c
  PROVE  x \notin b /\ Shares(a, b \cup {x}, c \ {x}, d, e, l)
  BY DEF Shares

(* or it is parked from there,                                             *)
LEMMA GrantToIdle ==
  ASSUME NEW a, NEW b, NEW c, NEW d, NEW e, NEW l, Shares(a, b, c, d, e, l), NEW x \in c
  PROVE  x \notin a /\ Shares(a \cup {x}, b, c \ {x}, d, e, l)
  BY DEF Shares

(* A process opens one.                                                    *)
LEMMA OpensHeld ==
  ASSUME NEW a, NEW b, NEW c, NEW d, NEW e, NEW l, Shares(a, b, c, d, e, l), NEW x, x \notin l
  PROVE  x \notin b /\ Shares(a, b \cup {x}, c, d, e, l \cup {x})
  BY DEF Shares

(* The janitor closes one,                                                 *)
LEMMA ExpiredCloses ==
  ASSUME NEW a, NEW b, NEW c, NEW d, NEW e, NEW l, Shares(a, b, c, d, e, l), NEW x \in d
  PROVE  Shares(a, b, c, d \ {x}, e, l \ {x})
  BY DEF Shares

(* and so does Close.                                                      *)
LEMMA ListCloses ==
  ASSUME NEW a, NEW b, NEW c, NEW d, NEW e, NEW l, Shares(a, b, c, d, e, l), NEW x \in e
  PROVE  Shares(a, b, c, d, e \ {x}, l \ {x})
  BY DEF Shares

(* The janitor takes its list from the stack,                              *)
LEMMA Expires ==
  ASSUME NEW a, NEW b, NEW c, NEW d, NEW e, NEW l, Shares(a, b, c, d, e, l), NEW k, NEW m, d = {}, a = k \cup m,
         \A r \in m : r \notin k
  PROVE  Shares(k, b, c, m, e, l)
  BY DEF Shares

(* and Close takes all of it.                                              *)
LEMMA CloseTakes ==
  ASSUME NEW a, NEW b, NEW c, NEW d, NEW e, NEW l, Shares(a, b, c, d, e, l), e = {}
  PROVE  Shares({}, b, c, d, a, l)
  BY DEF Shares

(* A process gets a resource that no process has.                          *)
LEMMA Gains ==
  ASSUME NEW S, NEW f \in [Procs -> S], NEW p \in Procs, NEW x \in Res, f[p] \notin Res,
         Apart(f), x \notin Values(f)
  PROVE  /\ Values([f EXCEPT ![p] = x]) = Values(f) \cup {x}
         /\ Apart([f EXCEPT ![p] = x])
<1> DEFINE h == [f EXCEPT ![p] = x]
<1>1. h[p] = x /\ \A q \in Procs : q # p => h[q] = f[q]
  OBVIOUS
<1>2. \A q \in Procs : f[q] # x
  BY DEF Values
<1> HIDE DEF h
<1>3. Apart(h)
  BY <1>1, <1>2 DEF Apart
<1>4. Values(h) = Values(f) \cup {x}
  BY <1>1, <1>2 DEF Values
<1> QED
  BY <1>3, <1>4, ZenonT(30) DEF h

(* A process gives up the resource it has.                                 *)
LEMMA Loses ==
  ASSUME NEW S, NEW f \in [Procs -> S], NEW p \in Procs, f[p] \in Res, NEW n, n \notin Res, Apart(f)
  PROVE  /\ Values([f EXCEPT ![p] = n]) = Values(f) \ {f[p]}
         /\ Apart([f EXCEPT ![p] = n])
         /\ f[p] \in Values(f)
<1> DEFINE h == [f EXCEPT ![p] = n]
<1>1. h[p] = n /\ \A q \in Procs : q # p => h[q] = f[q]
  OBVIOUS
<1>2. \A q \in Procs : q # p => f[q] # f[p]
  BY DEF Apart
<1> HIDE DEF h
<1>3. Apart(h)
  BY <1>1, <1>2 DEF Apart
<1>4. Values(h) = Values(f) \ {f[p]}
  BY <1>1, <1>2 DEF Values
<1>5. f[p] \in Values(f)
  BY DEF Values
<1> QED
  BY <1>3, <1>4, <1>5, ZenonT(30) DEF h

(* What has no resource takes nothing else for one.                        *)
LEMMA Neutral ==
  ASSUME NEW S, NEW f \in [Procs -> S], NEW p \in Procs, f[p] \notin Res, NEW n, n \notin Res, Apart(f)
  PROVE  Values([f EXCEPT ![p] = n]) = Values(f) /\ Apart([f EXCEPT ![p] = n])
<1> DEFINE h == [f EXCEPT ![p] = n]
<1>1. h[p] = n /\ \A q \in Procs : q # p => h[q] = f[q]
  OBVIOUS
<1> HIDE DEF h
<1>3. Apart(h)
  BY <1>1 DEF Apart
<1>4. Values(h) = Values(f)
  BY <1>1 DEF Values
<1> QED
  BY <1>3, <1>4 DEF h

(* The elements of the idle stack.                                         *)
LEMMA Elements ==
  ASSUME NEW s \in Seq(Res)
  PROVE  /\ Len(s) \in Nat /\ \A i \in 1..Len(s) : s[i] \in Res
         /\ \A r : r \in ToSet(s) <=> \E i \in 1..Len(s) : s[i] = r
         /\ ToSet(s) \subseteq Res
<1>1. Len(s) \in Nat /\ DOMAIN s = 1..Len(s) /\ \A i \in 1..Len(s) : s[i] \in Res
  BY LenProperties, ElementOfSeq
<1>2. \A r : r \in ToSet(s) <=> \E i \in 1..Len(s) : s[i] = r
  BY <1>1 DEF ToSet
<1> QED
  BY <1>1, <1>2

(* The newest of the stack is taken.                                       *)
LEMMA TakeLast ==
  ASSUME NEW s \in Seq(Res), s # <<>>, NoRepeat(s)
  PROVE  /\ SubSeq(s, 1, Len(s) - 1) \in Seq(Res) /\ NoRepeat(SubSeq(s, 1, Len(s) - 1))
         /\ ToSet(SubSeq(s, 1, Len(s) - 1)) = ToSet(s) \ {Last(s)}
         /\ Last(s) \in ToSet(s) /\ Last(s) \in Res
<1> DEFINE t == SubSeq(s, 1, Len(s) - 1)
<1>0. Len(s) \in Nat \ {0} /\ Last(s) = s[Len(s)]
  BY EmptyIffLen0 DEF Last
<1>1. t \in Seq(Res) /\ Len(t) = Len(s) - 1
  <2>1. 1 \in 1..(Len(s) + 1) /\ Len(s) - 1 \in (1 - 1)..Len(s)
    BY <1>0
  <2>2. t \in Seq(Res) /\ Len(t) = Len(s) - 1 - 1 + 1
    BY <2>1, SliceFacts, ZenonT(30)
  <2> HIDE DEF t
  <2> QED
    BY <1>0, <2>2
<1>2. \A i \in 1..(Len(s) - 1) : t[i] = s[i]
  <2>1. \A i \in 1..Len(s) : s[i] \in Res
    BY Elements
  <2> QED
    BY <1>0, <2>1, SubSeqProperties
<1> HIDE DEF t
<1>3. NoRepeat(t)
  BY <1>0, <1>1, <1>2 DEF NoRepeat
<1>4. \A r : r \in ToSet(t) <=> r \in ToSet(s) /\ r # s[Len(s)]
  <2>1. \A r : (\E i \in 1..Len(t) : t[i] = r) <=> (\E i \in 1..Len(s) : s[i] = r) /\ r # s[Len(s)]
    BY <1>0, <1>1, <1>2 DEF NoRepeat
  <2> QED
    BY <1>1, <2>1, Elements, ZenonT(30)
<1>5. s[Len(s)] \in ToSet(s) /\ s[Len(s)] \in Res
  BY <1>0, Elements
<1> QED
  BY <1>0, <1>1, <1>3, <1>4, <1>5, SMTT(30) DEF t

(* A resource is parked on the stack.                                      *)
LEMMA Park ==
  ASSUME NEW s \in Seq(Res), NoRepeat(s), NEW x \in Res, x \notin ToSet(s)
  PROVE  NoRepeat(Append(s, x)) /\ ToSet(Append(s, x)) = ToSet(s) \cup {x}
<1> DEFINE t == Append(s, x)
<1>0. /\ t \in Seq(Res) /\ Len(t) = Len(s) + 1 /\ Len(s) \in Nat
      /\ \A i \in 1..Len(s) : t[i] = s[i]
      /\ t[Len(s) + 1] = x
  BY AppendFacts, LenProperties
<1> HIDE DEF t
<1>1. \A i \in 1..Len(s) : s[i] # x
  BY Elements
<1>2. NoRepeat(t)
  BY <1>0, <1>1 DEF NoRepeat
<1>3. \A r : (\E i \in 1..Len(t) : t[i] = r) <=> (\E i \in 1..Len(s) : s[i] = r) \/ r = x
  BY <1>0
<1>4. \A r : r \in ToSet(t) <=> r \in ToSet(s) \/ r = x
  BY <1>0, <1>3, Elements, SMTT(30)
<1> QED
  BY <1>2, <1>4 DEF t

(* The oldest k of the stack are taken.                                    *)
LEMMA Split ==
  ASSUME NEW s \in Seq(Res), NoRepeat(s), NEW k \in 1..Len(s)
  PROVE  /\ NoRepeat(SubSeq(s, k + 1, Len(s)))
         /\ ToSet(s) = ToSet(SubSeq(s, k + 1, Len(s))) \cup ToSet(SubSeq(s, 1, k))
         /\ \A r \in ToSet(SubSeq(s, 1, k)) : r \notin ToSet(SubSeq(s, k + 1, Len(s)))
<1> DEFINE a == SubSeq(s, 1, k)
           b == SubSeq(s, k + 1, Len(s))
<1>0. Len(s) \in Nat /\ k \in Nat \ {0} /\ k <= Len(s) /\ \A i \in 1..Len(s) : s[i] \in Res
  BY Elements
<1>1. a \in Seq(Res) /\ Len(a) = k /\ \A i \in 1..k : a[i] = s[i]
  <2>1. 1 \in 1..(Len(s) + 1) /\ k \in (1 - 1)..Len(s)
    BY <1>0
  <2>2. a \in Seq(Res) /\ Len(a) = k - 1 + 1
    BY <2>1, SliceFacts
  <2>3. \A i \in 1..k : a[i] = s[i]
    BY <1>0, SubSeqProperties
  <2> HIDE DEF a
  <2> QED
    BY <1>0, <2>2, <2>3
<1>2. b \in Seq(Res) /\ Len(b) = Len(s) - k /\ \A i \in 1..(Len(s) - k) : b[i] = s[k + i]
  <2>1. k + 1 \in 1..(Len(s) + 1) /\ Len(s) \in ((k + 1) - 1)..Len(s)
    BY <1>0
  <2>2. b \in Seq(Res) /\ Len(b) = Len(s) - (k + 1) + 1
    BY <2>1, SliceFacts
  <2>3. \A i \in 1..(Len(s) - k) : b[i] = s[k + i]
    BY <1>0, SubSeqProperties
  <2> HIDE DEF b
  <2> QED
    BY <1>0, <2>2, <2>3, SMTT(30)
<1> HIDE DEF a, b
<1>3. NoRepeat(b)
  BY <1>0, <1>2 DEF NoRepeat
<1>4. \A r : (\E i \in 1..Len(s) : s[i] = r) <=> (\E i \in 1..Len(a) : a[i] = r) \/ (\E i \in 1..Len(b) : b[i] = r)
  <2>1. \A i \in 1..Len(s) : i \in 1..k \/ (i - k \in 1..(Len(s) - k) /\ k + (i - k) = i)
    BY <1>0
  <2>2. \A i \in 1..(Len(s) - k) : k + i \in 1..Len(s)
    BY <1>0
  <2>3. \A i \in 1..k : i \in 1..Len(s)
    BY <1>0
  <2>4. \A i \in 1..Len(s) : (\E m \in 1..Len(a) : a[m] = s[i]) \/ (\E m \in 1..Len(b) : b[m] = s[i])
    <3> TAKE i \in 1..Len(s)
    <3>1. CASE i \in 1..k
      BY <1>1, <3>1, ZenonT(30)
    <3>2. CASE i - k \in 1..(Len(s) - k) /\ k + (i - k) = i
      <4>1. b[i - k] = s[i] /\ i - k \in 1..Len(b)
        BY <1>2, <3>2, ZenonT(30)
      <4> QED
        BY <4>1, ZenonT(30)
    <3> QED
      BY <2>1, <3>1, <3>2, ZenonT(30)
  <2>5. \A m \in 1..Len(a) : \E i \in 1..Len(s) : s[i] = a[m]
    BY <1>1, <2>3, ZenonT(30)
  <2>6. \A m \in 1..Len(b) : \E i \in 1..Len(s) : s[i] = b[m]
    BY <1>2, <2>2, ZenonT(30)
  <2> QED
    BY <2>4, <2>5, <2>6, ZenonT(30)
<1>5. \A i \in 1..Len(a), j \in 1..Len(b) : a[i] # b[j]
  BY <1>0, <1>1, <1>2 DEF NoRepeat
<1>6. \A r : r \in ToSet(s) <=> r \in ToSet(a) \/ r \in ToSet(b)
  <2>1. \A r : r \in ToSet(s) <=> \E i \in 1..Len(s) : s[i] = r
    BY Elements
  <2>2. \A r : r \in ToSet(a) <=> \E i \in 1..Len(a) : a[i] = r
    BY <1>1, Elements
  <2>3. \A r : r \in ToSet(b) <=> \E i \in 1..Len(b) : b[i] = r
    BY <1>2, Elements
  <2> QED
    BY <1>4, <2>1, <2>2, <2>3, ZenonT(30)
<1>7. \A r \in ToSet(a) : r \notin ToSet(b)
  BY <1>1, <1>2, <1>5, Elements, SMTT(30)
<1> QED
  BY <1>3, <1>6, <1>7 DEF a, b

-----------------------------------------------------------------------------
(* What the two invariants say about one process and the stack.            *)
LEMMA OwnFacts ==
  ASSUME IInv, OwnInv
  PROVE  /\ idle \in Seq(Res) /\ waiters \in Seq(Procs) /\ closed \in BOOLEAN
         /\ pc \in [Procs -> Locations] /\ held \in [Procs -> Res \cup {None}]
         /\ grant \in [Procs -> Res \cup {Permit, None}]
         /\ NoRepeat(idle) /\ Apart(held) /\ Apart(grant)
         /\ Permit \notin Res /\ None \notin Res
         /\ \A p \in Procs : pc[p] \in Holding => held[p] \in Res
         /\ \A p \in Procs : pc[p] \notin Holding => held[p] = None
         /\ \A p \in Procs : pc[p] \notin {"wait", "abandon"} => grant[p] = None
<1>1. TypeOK /\ HeldInv /\ QueueInv /\ PlaceInv /\ Owned
  BY DEF IInv, OwnInv
<1>2. /\ idle \in Seq(Res) /\ waiters \in Seq(Procs) /\ closed \in BOOLEAN
      /\ pc \in [Procs -> Locations] /\ held \in [Procs -> Res \cup {None}]
      /\ grant \in [Procs -> Res \cup {Permit, None}]
  BY <1>1, ZenonT(30) DEF TypeOK
<1>3. NoRepeat(idle) /\ Apart(held) /\ Apart(grant)
  BY <1>1, ZenonT(30) DEF Owned
<1>4. \A p \in Procs : pc[p] \in Holding => held[p] \in Res
  BY <1>1, ZenonT(30) DEF HeldInv, Holding
<1>5. \A p \in Procs : pc[p] \notin Holding => held[p] = None
  BY <1>1, ZenonT(30) DEF PlaceInv, Placed
<1>6. \A p \in Procs : pc[p] \notin {"wait", "abandon"} => grant[p] = None
  BY <1>1, ZenonT(30) DEF QueueInv
<1> QED
  BY <1>2, <1>3, <1>4, <1>5, <1>6, PoolAssumption, ZenonT(30)

(* The oldest waiter has an empty channel.                                 *)
LEMMA HeadWaits ==
  ASSUME IInv, OwnInv, waiters # <<>>
  PROVE  /\ Head(waiters) \in Procs /\ grant[Head(waiters)] = None
         /\ pc[Head(waiters)] \in {"wait", "abandon"}
<1>1. waiters \in Seq(Procs) /\ QueueInv
  BY OwnFacts DEF IInv
<1>2. Head(waiters) = waiters[1] /\ waiters[1] \in Procs /\ Len(waiters) \in Nat \ {0}
  BY <1>1, TailFacts
<1>3. 1 \in 1..Len(waiters)
  BY <1>2
<1>4. waiters[1] \in Queued
  BY <1>3, ZenonT(30) DEF Queued
<1> QED
  BY <1>1, <1>2, <1>4, ZenonT(30) DEF QueueInv

(* returnSlot moves no resource: what it hands out is a permit.            *)
LEMMA SlotMovesNothing ==
  ASSUME IInv, OwnInv, NEW p \in Procs, p \in Holders, grant[p] \notin Res,
         NEW g, g = [grant EXCEPT ![p] = None], ReturnSlot(g)
  PROVE  idle' = idle /\ Values(grant') = Values(grant) /\ Apart(grant')
<1>0. /\ grant \in [Procs -> Res \cup {Permit, None}] /\ Apart(grant)
      /\ Permit \notin Res /\ None \notin Res
  BY OwnFacts
<1>1. g \in [Procs -> Res \cup {Permit, None}] /\ Values(g) = Values(grant) /\ Apart(g)
  <2>1. g \in [Procs -> Res \cup {Permit, None}]
    BY <1>0, ZenonT(30)
  <2> QED
    BY <1>0, <2>1, Neutral, ZenonT(30)
<1>2. leased > 0 /\ TypeOK /\ NoLostWakeup
  BY PoolFacts DEF IInv
<1>3. \/ idle' = idle /\ grant' = g
      \/ waiters # <<>> /\ idle' = idle /\ grant' = [g EXCEPT ![Head(waiters)] = Permit]
  BY <1>1, <1>2, ReturnSlotCases, ZenonT(30)
<1>4. CASE waiters # <<>> /\ idle' = idle /\ grant' = [g EXCEPT ![Head(waiters)] = Permit]
  <2>1. Head(waiters) \in Procs /\ grant[Head(waiters)] = None
    BY <1>4, HeadWaits
  <2>2. g[Head(waiters)] = None
    BY <1>0, <2>1, ZenonT(30)
  <2> QED
    BY <1>0, <1>1, <1>4, <2>1, <2>2, Neutral, ZenonT(30)
<1> QED
  BY <1>1, <1>3, <1>4, ZenonT(30)

-----------------------------------------------------------------------------
(* One lemma per group of actions: Owned is preserved.                     *)

(* Acquire takes the newest idle resource, or the one in its channel.      *)
LEMMA TakesOwned ==
  ASSUME IInv, OwnInv, NEW p \in Procs, AcquireIdle(p) \/ TakeGrant(p)
  PROVE  Owned'
<1>0. /\ idle \in Seq(Res) /\ held \in [Procs -> Res \cup {None}]
      /\ grant \in [Procs -> Res \cup {Permit, None}]
      /\ NoRepeat(idle) /\ Apart(held) /\ Apart(grant) /\ Permit \notin Res /\ None \notin Res
  BY OwnFacts
<1>o. Owned
  BY DEF OwnInv
<1>s. Shares(ToSet(idle), Values(held), Values(grant), expired, closeList, live)
  BY <1>o DEF Owned
<1>n. pc[p] \notin Holding
  BY ZenonT(30) DEF AcquireIdle, TakeGrant, Holding
<1>h. held[p] \notin Res
  BY <1>0, <1>n, OwnFacts
<1>1. CASE AcquireIdle(p)
  <2> DEFINE x == Last(idle)
  <2>1. /\ idle # <<>> /\ held' = [held EXCEPT ![p] = x] /\ idle' = SubSeq(idle, 1, Len(idle) - 1)
        /\ grant' = grant /\ live' = live /\ expired' = expired /\ closeList' = closeList
    BY <1>1, ZenonT(30) DEF AcquireIdle, otherVars
  <2>2. /\ NoRepeat(idle') /\ ToSet(idle') = ToSet(idle) \ {x} /\ x \in ToSet(idle) /\ x \in Res
    BY <1>0, <2>1, TakeLast, ZenonT(30)
  <2> HIDE DEF x
  <2>3. /\ x \notin Values(held)
        /\ Shares(ToSet(idle) \ {x}, Values(held) \cup {x}, Values(grant), expired, closeList, live)
    BY <1>s, <2>2, IdleToHeld, ZenonT(30)
  <2>4. Values(held') = Values(held) \cup {x} /\ Apart(held')
    BY <1>0, <1>h, <2>1, <2>2, <2>3, Gains, ZenonT(30)
  <2> QED
    BY <1>0, <2>1, <2>2, <2>3, <2>4, ZenonT(30) DEF Owned
<1>2. CASE TakeGrant(p) /\ grant[p] = Permit
  <2>1. /\ held' = held /\ grant' = [grant EXCEPT ![p] = None] /\ idle' = idle
        /\ live' = live /\ expired' = expired /\ closeList' = closeList
    BY <1>2, ZenonT(30) DEF TakeGrant, otherVars, poolVars
  <2>2. Values(grant') = Values(grant) /\ Apart(grant')
    BY <1>0, <1>2, <2>1, Neutral, ZenonT(30)
  <2> QED
    BY <1>o, <2>1, <2>2, ZenonT(30) DEF Owned
<1>3. CASE TakeGrant(p) /\ grant[p] # Permit
  <2> DEFINE x == grant[p]
  <2>1. /\ held' = [held EXCEPT ![p] = x] /\ grant' = [grant EXCEPT ![p] = None] /\ idle' = idle
        /\ live' = live /\ expired' = expired /\ closeList' = closeList /\ x # None
    BY <1>3, ZenonT(30) DEF TakeGrant, otherVars, poolVars
  <2>2. x \in Res
    BY <1>0, <1>3, <2>1, ZenonT(30)
  <2>3. Values(grant') = Values(grant) \ {x} /\ Apart(grant') /\ x \in Values(grant)
    BY <1>0, <2>1, <2>2, Loses, ZenonT(30)
  <2> HIDE DEF x
  <2>4. /\ x \notin Values(held)
        /\ Shares(ToSet(idle), Values(held) \cup {x}, Values(grant) \ {x}, expired, closeList, live)
    BY <1>s, <2>3, GrantToHeld, ZenonT(30)
  <2>5. Values(held') = Values(held) \cup {x} /\ Apart(held')
    BY <1>0, <1>h, <2>1, <2>2, <2>4, Gains, ZenonT(30)
  <2> QED
    BY <1>0, <2>1, <2>3, <2>4, <2>5, ZenonT(30) DEF Owned
<1> QED
  BY <1>1, <1>2, <1>3, ZenonT(30)

(* A lease is released: the resource goes to a waiter or to the stack, or  *)
(* the process keeps it to close it.                                       *)
LEMMA ReleaseOwned ==
  ASSUME IInv, OwnInv, NEW p \in Procs, Release(p)
  PROVE  Owned'
<1> DEFINE x == held[p]
<1>0. /\ idle \in Seq(Res) /\ held \in [Procs -> Res \cup {None}]
      /\ grant \in [Procs -> Res \cup {Permit, None}]
      /\ NoRepeat(idle) /\ Apart(held) /\ Apart(grant) /\ Permit \notin Res /\ None \notin Res
  BY OwnFacts
<1>o. Owned
  BY DEF OwnInv
<1>s. Shares(ToSet(idle), Values(held), Values(grant), expired, closeList, live)
  BY <1>o DEF Owned
<1>1. pc[p] \in Holding
  BY ZenonT(30) DEF Release, Holding
<1>2. x \in Res
  BY <1>1, OwnFacts
<1>3. /\ PutBack(p, x, grant) /\ live' = live /\ expired' = expired /\ closeList' = closeList
  BY ZenonT(30) DEF Release, otherVars
<1>4. \/ held' = [held EXCEPT ![p] = x] /\ grant' = grant /\ idle' = idle
      \/ /\ waiters # <<>> /\ held' = [held EXCEPT ![p] = None] /\ idle' = idle
         /\ grant' = [grant EXCEPT ![Head(waiters)] = x]
      \/ held' = [held EXCEPT ![p] = None] /\ grant' = grant /\ idle' = Append(idle, x)
  BY <1>3, ZenonT(30) DEF PutBack
<1>5. CASE held' = [held EXCEPT ![p] = x] /\ grant' = grant /\ idle' = idle
  <2>1. held' = held
    BY <1>0, <1>5, ZenonT(30)
  <2> QED
    BY <1>o, <1>3, <1>5, <2>1, ZenonT(30) DEF Owned
<1>6. ASSUME held' = [held EXCEPT ![p] = None]
      PROVE  Values(held') = Values(held) \ {x} /\ Apart(held') /\ x \in Values(held)
  BY <1>0, <1>2, <1>6, Loses, ZenonT(30)
<1> HIDE DEF x
<1>7. CASE /\ waiters # <<>> /\ held' = [held EXCEPT ![p] = None] /\ idle' = idle
           /\ grant' = [grant EXCEPT ![Head(waiters)] = x]
  <2>1. Head(waiters) \in Procs /\ grant[Head(waiters)] \notin Res
    BY <1>0, <1>7, HeadWaits, ZenonT(30)
  <2>2. /\ x \notin Values(grant)
        /\ Shares(ToSet(idle), Values(held) \ {x}, Values(grant) \cup {x}, expired, closeList, live)
    BY <1>s, <1>6, <1>7, HeldToGrant, ZenonT(30)
  <2>3. Values(grant') = Values(grant) \cup {x} /\ Apart(grant')
    BY <1>0, <1>2, <1>7, <2>1, <2>2, Gains, ZenonT(30)
  <2> QED
    BY <1>0, <1>3, <1>6, <1>7, <2>2, <2>3, ZenonT(30) DEF Owned
<1>8. CASE held' = [held EXCEPT ![p] = None] /\ grant' = grant /\ idle' = Append(idle, x)
  <2>1. /\ x \notin ToSet(idle)
        /\ Shares(ToSet(idle) \cup {x}, Values(held) \ {x}, Values(grant), expired, closeList, live)
    BY <1>s, <1>6, <1>8, HeldToIdle, ZenonT(30)
  <2>2. NoRepeat(idle') /\ ToSet(idle') = ToSet(idle) \cup {x}
    BY <1>0, <1>2, <1>8, <2>1, Park, ZenonT(30)
  <2> QED
    BY <1>0, <1>3, <1>6, <1>8, <2>1, <2>2, ZenonT(30) DEF Owned
<1> QED
  BY <1>4, <1>5, <1>7, <1>8, ZenonT(30)

(* abandon gives back the resource it finds in its channel.                *)
LEMMA AbandonOwned ==
  ASSUME IInv, OwnInv, NEW p \in Procs, AbandonGranted(p)
  PROVE  Owned'
<1> DEFINE x == grant[p]
           g == [grant EXCEPT ![p] = None]
<1>0. /\ idle \in Seq(Res) /\ held \in [Procs -> Res \cup {None}]
      /\ grant \in [Procs -> Res \cup {Permit, None}]
      /\ NoRepeat(idle) /\ Apart(held) /\ Apart(grant) /\ Permit \notin Res /\ None \notin Res
  BY OwnFacts
<1>o. Owned
  BY DEF OwnInv
<1>s. Shares(ToSet(idle), Values(held), Values(grant), expired, closeList, live)
  BY <1>o DEF Owned
<1>1. /\ pc[p] = "abandon" /\ x # None
      /\ live' = live /\ expired' = expired /\ closeList' = closeList
      /\ \/ x # Permit /\ PutBack(p, x, g)
         \/ x = Permit /\ ReturnSlot(g) /\ held' = held
  BY ZenonT(30) DEF AbandonGranted, otherVars
<1>h. held[p] = None
  BY <1>1, OwnFacts, ZenonT(30) DEF Holding
<1>2. CASE x = Permit /\ ReturnSlot(g) /\ held' = held
  <2>1. p \in Holders /\ grant[p] \notin Res
    BY <1>0, <1>1, <1>2, ZenonT(30) DEF Holders
  <2>2. idle' = idle /\ Values(grant') = Values(grant) /\ Apart(grant')
    BY <1>2, <2>1, SlotMovesNothing, ZenonT(30)
  <2> QED
    BY <1>o, <1>1, <1>2, <2>2, ZenonT(30) DEF Owned
<1>3. ASSUME x # Permit, PutBack(p, x, g) PROVE Owned'
  <2>0. x \in Res
    BY <1>0, <1>1, <1>3, ZenonT(30)
  <2>1. Values(g) = Values(grant) \ {x} /\ Apart(g) /\ x \in Values(grant)
    BY <1>0, <2>0, Loses, ZenonT(30)
  <2>t. g \in [Procs -> Res \cup {Permit, None}] /\ \A q \in Procs : grant[q] = None => g[q] = None
    BY <1>0, ZenonT(30)
  <2>2. \/ held' = [held EXCEPT ![p] = x] /\ grant' = g /\ idle' = idle
        \/ /\ waiters # <<>> /\ held' = [held EXCEPT ![p] = None] /\ idle' = idle
           /\ grant' = [g EXCEPT ![Head(waiters)] = x]
        \/ held' = [held EXCEPT ![p] = None] /\ grant' = g /\ idle' = Append(idle, x)
    BY <1>3, ZenonT(30) DEF PutBack
  <2>h. ASSUME held' = [held EXCEPT ![p] = None] PROVE held' = held
    BY <1>0, <1>h, <2>h, ZenonT(30)
  <2> HIDE DEF x, g
  <2>3. CASE held' = [held EXCEPT ![p] = x] /\ grant' = g /\ idle' = idle
    <3>1. /\ x \notin Values(held)
          /\ Shares(ToSet(idle), Values(held) \cup {x}, Values(grant) \ {x}, expired, closeList, live)
      BY <1>s, <2>1, GrantToHeld, ZenonT(30)
    <3>2. Values(held') = Values(held) \cup {x} /\ Apart(held')
      BY <1>0, <1>h, <2>0, <2>3, <3>1, Gains, ZenonT(30)
    <3> QED
      BY <1>0, <1>1, <2>1, <2>3, <3>1, <3>2, ZenonT(30) DEF Owned
  <2>4. CASE /\ waiters # <<>> /\ held' = [held EXCEPT ![p] = None] /\ idle' = idle
             /\ grant' = [g EXCEPT ![Head(waiters)] = x]
    <3>1. Head(waiters) \in Procs /\ grant[Head(waiters)] = None
      BY <2>4, HeadWaits, SMTT(30)
    <3>2. g[Head(waiters)] \notin Res /\ x \notin Values(g)
      BY <1>0, <2>1, <2>t, <3>1, SMTT(30)
    <3>3. Values(grant') = Values(g) \cup {x} /\ Apart(grant')
      BY <2>0, <2>1, <2>4, <2>t, <3>1, <3>2, Gains, ZenonT(30)
    <3>4. Values(grant') = Values(grant)
      BY <2>1, <3>3, SMTT(30)
    <3> QED
      BY <1>o, <1>1, <2>4, <2>h, <3>3, <3>4, ZenonT(30) DEF Owned
  <2>5. CASE held' = [held EXCEPT ![p] = None] /\ grant' = g /\ idle' = Append(idle, x)
    <3>1. /\ x \notin ToSet(idle)
          /\ Shares(ToSet(idle) \cup {x}, Values(held), Values(grant) \ {x}, expired, closeList, live)
      BY <1>s, <2>1, GrantToIdle, ZenonT(30)
    <3>2. NoRepeat(idle') /\ ToSet(idle') = ToSet(idle) \cup {x}
      BY <1>0, <2>0, <2>5, <3>1, Park, ZenonT(30)
    <3> QED
      BY <1>0, <1>1, <2>1, <2>5, <2>h, <3>1, <3>2, ZenonT(30) DEF Owned
  <2> QED
    BY <2>2, <2>3, <2>4, <2>5, ZenonT(30)
<1> QED
  BY <1>1, <1>2, <1>3, ZenonT(30)

(* A resource is created for a reserved slot.                              *)
LEMMA NewOwned ==
  ASSUME IInv, OwnInv, NEW p \in Procs, NewSucceeds(p)
  PROVE  Owned'
<1>0. /\ idle \in Seq(Res) /\ held \in [Procs -> Res \cup {None}]
      /\ grant \in [Procs -> Res \cup {Permit, None}]
      /\ NoRepeat(idle) /\ Apart(held) /\ Apart(grant) /\ Permit \notin Res /\ None \notin Res
  BY OwnFacts
<1>o. Owned
  BY DEF OwnInv
<1>s. Shares(ToSet(idle), Values(held), Values(grant), expired, closeList, live)
  BY <1>o DEF Owned
<1>1. PICK x \in Res \ live : live' = live \cup {x} /\ held' = [held EXCEPT ![p] = x]
  BY ZenonT(30) DEF NewSucceeds
<1>2. /\ pc[p] = "createLeased" /\ grant' = grant /\ idle' = idle
      /\ expired' = expired /\ closeList' = closeList
  BY ZenonT(30) DEF NewSucceeds, poolVars, otherVars
<1>3. held[p] \notin Res
  BY <1>0, <1>2, OwnFacts, ZenonT(30) DEF Holding
<1>4. /\ x \notin Values(held)
      /\ Shares(ToSet(idle), Values(held) \cup {x}, Values(grant), expired, closeList, live \cup {x})
  BY <1>s, <1>1, OpensHeld, ZenonT(30)
<1>5. Values(held') = Values(held) \cup {x} /\ Apart(held')
  BY <1>0, <1>1, <1>3, <1>4, Gains, ZenonT(30)
<1> QED
  BY <1>0, <1>1, <1>2, <1>4, <1>5, ZenonT(30) DEF Owned

(* A process closes the resource that failed its validation, or that it    *)
(* discarded or released to a closed pool.                                 *)
LEMMA CloseOwned ==
  ASSUME IInv, OwnInv, NEW p \in Procs, CloseStale(p) \/ CloseResource(p)
  PROVE  Owned'
<1> DEFINE x == held[p]
<1>0. /\ idle \in Seq(Res) /\ held \in [Procs -> Res \cup {None}]
      /\ grant \in [Procs -> Res \cup {Permit, None}]
      /\ NoRepeat(idle) /\ Apart(held) /\ Apart(grant) /\ Permit \notin Res /\ None \notin Res
  BY OwnFacts
<1>o. Owned
  BY DEF OwnInv
<1>s. Shares(ToSet(idle), Values(held), Values(grant), expired, closeList, live)
  BY <1>o DEF Owned
<1>1. /\ pc[p] \in Holding /\ live' = live \ {x} /\ held' = [held EXCEPT ![p] = None]
      /\ grant' = grant /\ idle' = idle /\ expired' = expired /\ closeList' = closeList
  BY ZenonT(30) DEF CloseStale, CloseResource, poolVars, otherVars, Holding
<1>2. x \in Res
  BY <1>1, OwnFacts
<1>3. Values(held') = Values(held) \ {x} /\ Apart(held') /\ x \in Values(held)
  BY <1>0, <1>1, <1>2, Loses, ZenonT(30)
<1> HIDE DEF x
<1>4. Shares(ToSet(idle), Values(held) \ {x}, Values(grant), expired, closeList, live \ {x})
  BY <1>s, <1>3, HeldCloses, ZenonT(30)
<1> QED
  BY <1>0, <1>1, <1>3, <1>4, ZenonT(30) DEF Owned

(* Only slots and places in the queue change hands.                        *)
LEMMA SlotOwned ==
  ASSUME IInv, OwnInv, NEW p \in Procs,
         \/ RetryAcquire(p) \/ NewFails(p) \/ Discard(p)
         \/ AcquireSlot(p) \/ AcquireQueue(p) \/ AbandonQueued(p)
         \/ AcquireFails(p) \/ StopWaiting(p) \/ Validated(p)
  PROVE  Owned'
<1>0. grant \in [Procs -> Res \cup {Permit, None}] /\ None \notin Res
  BY OwnFacts
<1>o. Owned
  BY DEF OwnInv
<1>1. CASE RetryAcquire(p) \/ NewFails(p) \/ Discard(p)
  <2>1. /\ ReturnSlot(grant) /\ held' = held /\ live' = live
        /\ expired' = expired /\ closeList' = closeList
        /\ pc[p] \in {"stale", "createLeased", "leased"}
    BY <1>1, ZenonT(30) DEF RetryAcquire, NewFails, Discard, otherVars
  <2>2. p \in Holders
    BY <2>1, ZenonT(30) DEF Holders
  <2>3. grant[p] = None
    BY <2>1, OwnFacts, ZenonT(30)
  <2>4. grant = [grant EXCEPT ![p] = None] /\ grant[p] \notin Res
    BY <1>0, <2>3, ZenonT(30)
  <2>5. idle' = idle /\ Values(grant') = Values(grant) /\ Apart(grant')
    BY <2>1, <2>2, <2>4, SlotMovesNothing, ZenonT(30)
  <2> QED
    BY <1>o, <2>1, <2>5, ZenonT(30) DEF Owned
<1>2. CASE \/ AcquireSlot(p) \/ AcquireQueue(p) \/ AbandonQueued(p)
           \/ AcquireFails(p) \/ StopWaiting(p) \/ Validated(p)
  <2>1. /\ idle' = idle /\ held' = held /\ grant' = grant /\ live' = live
        /\ expired' = expired /\ closeList' = closeList
    BY <1>2, ZenonT(30) DEF AcquireSlot, AcquireQueue, AbandonQueued, AcquireFails, StopWaiting,
                            Validated, otherVars, poolVars
  <2> QED
    BY <1>o, <2>1, ZenonT(30) DEF Owned
<1> QED
  BY <1>1, <1>2, ZenonT(30)

(* The janitor evicts and closes; Close takes what is idle and closes it.  *)
LEMMA ListsOwned ==
  ASSUME IInv, OwnInv, EvictExpired \/ CloseExpired \/ CloseBegins \/ CloseIdle
  PROVE  OwnInv'
<1>0. /\ idle \in Seq(Res) /\ held \in [Procs -> Res \cup {None}]
      /\ grant \in [Procs -> Res \cup {Permit, None}]
      /\ NoRepeat(idle) /\ Apart(held) /\ Apart(grant) /\ Permit \notin Res /\ None \notin Res
  BY OwnFacts
<1>o. Owned
  BY DEF OwnInv
<1>s. Shares(ToSet(idle), Values(held), Values(grant), expired, closeList, live)
  BY <1>o DEF Owned
<1>p. /\ Placed /\ (janitor # "evicting" => expired = {}) /\ (~closed => closeList = {})
  BY ZenonT(30) DEF OwnInv, PlaceInv
<1>q. ASSUME pc' = pc, held' = held PROVE Placed'
  BY <1>p, <1>q, ZenonT(30) DEF Placed
<1>1. CASE EvictExpired
  <2>1. PICK k \in 1..Len(idle) :
          /\ expired' = ToSet(SubSeq(idle, 1, k))
          /\ GrantAvailable(SubSeq(idle, k + 1, Len(idle)), leased, freeSlots + k, grant)
    BY <1>1 DEF EvictExpired
  <2>2. idle' = SubSeq(idle, k + 1, Len(idle)) /\ grant' = grant
    BY <2>1, EvictFacts
  <2>3. /\ janitor = "running" /\ janitor' = "evicting" /\ held' = held /\ live' = live /\ pc' = pc
        /\ closeList' = closeList /\ closed' = closed
    BY <1>1, ZenonT(30) DEF EvictExpired
  <2>4. expired = {}
    BY <1>p, <2>3, ZenonT(30)
  <2>5. /\ NoRepeat(idle') /\ ToSet(idle) = ToSet(idle') \cup expired'
        /\ \A r \in expired' : r \notin ToSet(idle')
    BY <1>0, <2>1, <2>2, Split, ZenonT(30)
  <2>6. Shares(ToSet(idle'), Values(held), Values(grant), expired', closeList, live)
    BY <1>s, <2>4, <2>5, Expires, ZenonT(30)
  <2>7. Owned'
    BY <1>0, <2>2, <2>3, <2>5, <2>6, ZenonT(30) DEF Owned
  <2> QED
    BY <1>p, <1>q, <2>3, <2>7, ZenonT(30) DEF OwnInv, PlaceInv
<1>2. CASE CloseExpired
  <2>1. PICK x \in expired :
          /\ expired' = expired \ {x} /\ live' = live \ {x}
          /\ janitor' = IF expired = {x} THEN "running" ELSE "evicting"
    BY <1>2 DEF CloseExpired
  <2>2. /\ idle' = idle /\ held' = held /\ grant' = grant /\ pc' = pc
        /\ closeList' = closeList /\ closed' = closed
    BY <1>2, ZenonT(30) DEF CloseExpired, poolVars, procVars
  <2>3. Shares(ToSet(idle), Values(held), Values(grant), expired \ {x}, closeList, live \ {x})
    BY <1>s, <2>1, ExpiredCloses, ZenonT(30)
  <2>4. janitor' # "evicting" => expired' = {}
    BY <2>1
  <2>5. Owned'
    BY <1>0, <2>1, <2>2, <2>3, ZenonT(30) DEF Owned
  <2> QED
    BY <1>p, <1>q, <2>2, <2>4, <2>5, ZenonT(30) DEF OwnInv, PlaceInv
<1>3. CASE CloseBegins
  <2>1. /\ ~closed /\ closed' = TRUE /\ closeList' = ToSet(idle) /\ idle' = <<>>
        /\ held' = held /\ grant' = grant /\ pc' = pc /\ live' = live
        /\ janitor' = janitor /\ expired' = expired
    BY <1>3, ZenonT(30) DEF CloseBegins, procVars
  <2>2. closeList = {}
    BY <1>p, <2>1, ZenonT(30)
  <2>3. Shares({}, Values(held), Values(grant), expired, ToSet(idle), live)
    BY <1>s, <2>2, CloseTakes, ZenonT(30)
  <2>4. ToSet(<<>>) = {} /\ NoRepeat(<<>>)
    BY EmptySeq DEF ToSet, NoRepeat
  <2>5. Owned'
    BY <1>0, <2>1, <2>3, <2>4, ZenonT(30) DEF Owned
  <2> QED
    BY <1>p, <1>q, <2>1, <2>5, ZenonT(30) DEF OwnInv, PlaceInv
<1>4. CASE CloseIdle
  <2>1. /\ idle' = idle /\ held' = held /\ grant' = grant /\ pc' = pc
        /\ expired' = expired /\ janitor' = janitor /\ closed' = closed
    BY <1>4, ZenonT(30) DEF CloseIdle, poolVars, procVars
  <2>2. \/ live' = live /\ closeList' = closeList
        \/ \E x \in closeList : closeList' = closeList \ {x} /\ live' = live \ {x}
    BY <1>4, ZenonT(30) DEF CloseIdle
  <2>3. CASE live' = live /\ closeList' = closeList
    BY <1>o, <1>p, <1>q, <2>1, <2>3, ZenonT(30) DEF OwnInv, PlaceInv, Owned
  <2>4. CASE \E x \in closeList : closeList' = closeList \ {x} /\ live' = live \ {x}
    <3>1. PICK x \in closeList : closeList' = closeList \ {x} /\ live' = live \ {x}
      BY <2>4
    <3>2. Shares(ToSet(idle), Values(held), Values(grant), expired, closeList \ {x}, live \ {x})
      BY <1>s, <3>1, ListCloses, ZenonT(30)
    <3>3. Owned'
      BY <1>0, <2>1, <3>1, <3>2, ZenonT(30) DEF Owned
    <3>4. ~closed' => closeList' = {}
      BY <1>p, <2>1, <3>1, SMTT(30)
    <3> QED
      BY <1>p, <1>q, <2>1, <3>3, <3>4, ZenonT(30) DEF OwnInv, PlaceInv
  <2> QED
    BY <2>2, <2>3, <2>4, ZenonT(30)
<1> QED
  BY <1>1, <1>2, <1>3, <1>4, ZenonT(30)

(* A process moves on with what it has.                                    *)
LEMMA Stays ==
  ASSUME IInv, OwnInv, NEW p \in Procs, NEW l, Goto(p, l), held' = held,
         pc[p] \in Holding <=> l \in Holding
  PROVE  Placed'
<1>1. pc \in [Procs -> Locations] /\ Placed
  BY OwnFacts, ZenonT(30) DEF OwnInv, PlaceInv
<1>2. pc'[p] = l /\ \A q \in Procs : q # p => pc'[q] = pc[q]
  BY <1>1, ZenonT(30) DEF Goto
<1> QED
  BY <1>1, <1>2, ZenonT(30) DEF Placed

(* A process moves on and gets or gives up a resource.                     *)
LEMMA Changes ==
  ASSUME IInv, OwnInv, NEW p \in Procs, NEW l, NEW v, Goto(p, l), held' = [held EXCEPT ![p] = v],
         v # None <=> l \in Holding
  PROVE  Placed'
<1>1. pc \in [Procs -> Locations] /\ held \in [Procs -> Res \cup {None}] /\ Placed
  BY OwnFacts, ZenonT(30) DEF OwnInv, PlaceInv
<1>2. /\ pc'[p] = l /\ \A q \in Procs : q # p => pc'[q] = pc[q]
      /\ held'[p] = v /\ \A q \in Procs : q # p => held'[q] = held[q]
  BY <1>1, ZenonT(30) DEF Goto
<1> QED
  BY <1>1, <1>2, ZenonT(30) DEF Placed

(* A process has a resource exactly in the places where it works on one.   *)
LEMMA PlaceStep ==
  ASSUME IInv, OwnInv, NEW p \in Procs, Step(p)
  PROVE  Placed'
<1>0. /\ idle \in Seq(Res) /\ grant \in [Procs -> Res \cup {Permit, None}]
      /\ NoRepeat(idle) /\ None \notin Res
      /\ pc[p] \in Holding => held[p] \in Res
      /\ pc[p] \notin Holding => held[p] = None
  BY OwnFacts, SMTT(30)
<1>r. \A x \in Res : x # None
  BY <1>0
<1>b. ASSUME NEW r \in Res, NEW g, PutBack(p, r, g) PROVE Placed'
  <2>1. \/ held' = [held EXCEPT ![p] = r] /\ Goto(p, "closeResource")
        \/ held' = [held EXCEPT ![p] = None] /\ Goto(p, "out")
    BY <1>b, ZenonT(30) DEF PutBack
  <2>2. "closeResource" \in Holding /\ "out" \notin Holding
    BY ZenonT(30) DEF Holding
  <2> QED
    BY <1>r, <2>1, <2>2, Changes, ZenonT(30)
<1>1. CASE \/ AcquireFails(p) \/ AcquireSlot(p) \/ AcquireQueue(p) \/ StopWaiting(p)
           \/ AbandonQueued(p) \/ RetryAcquire(p) \/ NewFails(p)
  <2>1. /\ held' = held /\ pc[p] \notin Holding
        /\ \E l \in {"out", "createLeased", "wait", "abandon", "acquire"} : Goto(p, l)
    BY <1>1, ZenonT(60) DEF AcquireFails, AcquireSlot, AcquireQueue, StopWaiting, AbandonQueued,
                            RetryAcquire, NewFails, Holding
  <2>2. \A l \in {"out", "createLeased", "wait", "abandon", "acquire"} : l \notin Holding
    BY ZenonT(30) DEF Holding
  <2> QED
    BY <2>1, <2>2, Stays, ZenonT(30)
<1>2. CASE Validated(p) \/ Discard(p)
  <2>1. /\ held' = held /\ pc[p] \in Holding
        /\ \E l \in {"leased", "closeResource"} : Goto(p, l)
    BY <1>2, ZenonT(30) DEF Validated, Discard, Holding
  <2>2. \A l \in {"leased", "closeResource"} : l \in Holding
    BY ZenonT(30) DEF Holding
  <2> QED
    BY <2>1, <2>2, Stays, ZenonT(30)
<1>3. CASE CloseStale(p) \/ CloseResource(p)
  <2>1. held' = [held EXCEPT ![p] = None] /\ \E l \in {"stale", "out"} : Goto(p, l)
    BY <1>3, ZenonT(30) DEF CloseStale, CloseResource
  <2>2. \A l \in {"stale", "out"} : l \notin Holding
    BY ZenonT(30) DEF Holding
  <2> QED
    BY <2>1, <2>2, Changes, ZenonT(30)
<1>4. CASE AcquireIdle(p)
  <2>1. idle # <<>> /\ held' = [held EXCEPT ![p] = Last(idle)] /\ Goto(p, "useIdle")
    BY <1>4, ZenonT(30) DEF AcquireIdle
  <2>2. Last(idle) # None
    BY <1>0, <1>r, <2>1, TakeLast, ZenonT(30)
  <2>3. "useIdle" \in Holding
    BY ZenonT(30) DEF Holding
  <2> QED
    BY <2>1, <2>2, <2>3, Changes, ZenonT(30)
<1>5. CASE NewSucceeds(p)
  <2>1. \E r \in Res : held' = [held EXCEPT ![p] = r]
    BY <1>5, ZenonT(30) DEF NewSucceeds
  <2>2. Goto(p, "leased") /\ "leased" \in Holding
    BY <1>5, ZenonT(30) DEF NewSucceeds, Holding
  <2> QED
    BY <1>r, <2>1, <2>2, Changes, ZenonT(30)
<1>6. CASE TakeGrant(p)
  <2>1. pc[p] = "wait" /\ grant[p] # None
    BY <1>6 DEF TakeGrant
  <2>2. \/ Goto(p, "createLeased") /\ held' = held
        \/ Goto(p, "useIdle") /\ held' = [held EXCEPT ![p] = grant[p]]
    BY <1>6, ZenonT(30) DEF TakeGrant
  <2>3. pc[p] \notin Holding /\ "createLeased" \notin Holding /\ "useIdle" \in Holding
    BY <2>1, ZenonT(30) DEF Holding
  <2> QED
    BY <2>1, <2>2, <2>3, Stays, Changes, ZenonT(30)
<1>7. CASE Release(p)
  <2>1. PutBack(p, held[p], grant) /\ pc[p] \in Holding
    BY <1>7, ZenonT(30) DEF Release, Holding
  <2> QED
    BY <1>0, <1>b, <2>1, ZenonT(30)
<1>8. CASE AbandonGranted(p)
  <2>1. pc[p] \notin Holding /\ grant[p] # None
    BY <1>8, ZenonT(30) DEF AbandonGranted, Holding
  <2>2. \/ grant[p] # Permit /\ PutBack(p, grant[p], [grant EXCEPT ![p] = None])
        \/ Goto(p, "out") /\ held' = held
    BY <1>8, ZenonT(30) DEF AbandonGranted
  <2>3. "out" \notin Holding
    BY ZenonT(30) DEF Holding
  <2>4. grant[p] # Permit => grant[p] \in Res
    BY <1>0, <2>1, ZenonT(30)
  <2> QED
    BY <1>b, <2>1, <2>2, <2>3, <2>4, Stays, ZenonT(30)
<1> QED
  BY <1>1, <1>2, <1>3, <1>4, <1>5, <1>6, <1>7, <1>8, ZenonT(30) DEF Step

(* No step of any thread loses a resource or gives it a second owner.      *)
LEMMA OwnStep == IInv /\ OwnInv /\ [Next]_vars => OwnInv'
<1> SUFFICES ASSUME IInv, OwnInv, [Next]_vars PROVE OwnInv'
  OBVIOUS
<1>0. /\ Placed /\ Owned /\ (janitor # "evicting" => expired = {}) /\ (~closed => closeList = {})
  BY ZenonT(30) DEF OwnInv, PlaceInv
<1>1. ASSUME NEW p \in Procs, Step(p) PROVE OwnInv'
  <2>1. Owned'
    BY <1>1, TakesOwned, ReleaseOwned, AbandonOwned, NewOwned, CloseOwned, SlotOwned, ZenonT(30) DEF Step
  <2>2. janitor' = janitor /\ expired' = expired /\ closed' = closed /\ closeList' = closeList
    BY <1>1, ZenonT(60) DEF Step, AcquireFails, AcquireIdle, AcquireSlot, AcquireQueue, TakeGrant,
         StopWaiting, AbandonQueued, AbandonGranted, Validated, CloseStale, RetryAcquire,
         NewSucceeds, NewFails, Release, Discard, CloseResource, poolVars, otherVars
  <2>3. Placed'
    BY <1>1, PlaceStep
  <2> QED
    BY <1>0, <2>1, <2>2, <2>3, ZenonT(30) DEF OwnInv, PlaceInv
<1>2. ASSUME NEW p \in Procs, CallAcquire(p) PROVE OwnInv'
  <2>1. /\ held' = held /\ grant' = grant /\ idle' = idle /\ live' = live /\ pc[p] = "out"
        /\ janitor' = janitor /\ expired' = expired /\ closed' = closed /\ closeList' = closeList
        /\ Goto(p, "acquire")
    BY <1>2, ZenonT(30) DEF CallAcquire, poolVars
  <2>2. pc[p] \notin Holding /\ "acquire" \notin Holding
    BY <2>1, ZenonT(30) DEF Holding
  <2>3. Placed'
    BY <2>1, <2>2, Stays, ZenonT(30)
  <2> QED
    BY <1>0, <2>1, <2>3, ZenonT(30) DEF OwnInv, PlaceInv, Owned
<1>3. CASE \/ \E p \in Procs : ContextEnds(p)
           \/ StopJanitor \/ JanitorDone \/ CloseGivesUp \/ UNCHANGED vars
  <2>1. /\ held' = held /\ grant' = grant /\ idle' = idle /\ live' = live /\ pc' = pc
        /\ expired' = expired /\ closed' = closed /\ closeList' = closeList
        /\ janitor' = janitor \/ janitor = "running"
    BY <1>3, ZenonT(60) DEF ContextEnds, StopJanitor, JanitorDone, CloseGivesUp, vars, poolVars,
         procVars, otherVars
  <2>2. janitor' # "evicting" => expired' = {}
    BY <1>0, <2>1, ZenonT(30)
  <2> QED
    BY <1>0, <2>1, <2>2, ZenonT(30) DEF OwnInv, PlaceInv, Owned, Placed
<1> QED
  BY <1>1, <1>2, <1>3, ListsOwned, ZenonT(30) DEF Next, JanitorStep, CloserStep

(* In a new pool nobody owns anything and nothing is open.                 *)
LEMMA OwnInit == Init => OwnInv
<1> SUFFICES ASSUME Init PROVE OwnInv
  OBVIOUS
<1>1. /\ idle = <<>> /\ expired = {} /\ closeList = {} /\ live = {}
      /\ pc = [p \in Procs |-> "out"]
      /\ held = [p \in Procs |-> None] /\ grant = [p \in Procs |-> None]
  BY ZenonT(30) DEF Init
<1>2. ToSet(<<>>) = {} /\ NoRepeat(<<>>)
  BY EmptySeq DEF ToSet, NoRepeat
<1>3. /\ \A p \in Procs : pc[p] = "out" /\ held[p] = None /\ grant[p] = None
      /\ None \notin Res
  BY <1>1, PoolAssumption, ZenonT(30)
<1>4. Values(held) = {} /\ Values(grant) = {} /\ Apart(held) /\ Apart(grant)
  BY <1>3 DEF Values, Apart
<1>5. Shares({}, {}, {}, {}, {}, {})
  BY DEF Shares
<1>6. Placed
  BY <1>3, ZenonT(30) DEF Placed, Holding
<1> QED
  BY <1>1, <1>2, <1>4, <1>5, <1>6, ZenonT(30) DEF OwnInv, PlaceInv, Owned

(* The invariant of the counters and the one of the owners hold together.  *)
LEMMA BothInv == Spec => [](IInv /\ OwnInv)
<1>1. Init => IInv /\ OwnInv
  BY InitInv, OwnInit
<1>2. IInv /\ OwnInv /\ [Next]_vars => IInv' /\ OwnInv'
  BY NextInv, OwnStep
<1> QED
  BY <1>1, <1>2, PTL DEF Spec

(* The cardinality of a set with at most one element.                      *)
LEMMA OneAtMost ==
  ASSUME NEW U, \A x, y \in U : x = y
  PROVE  Cardinality(U) = IF U = {} THEN 0 ELSE 1
<1>1. CASE U = {}
  BY <1>1, FS_EmptySet
<1>2. CASE U # {}
  <2>1. PICK x : x \in U
    BY <1>2
  <2>2. U = {x}
    BY <2>1
  <2> QED
    BY <1>2, <2>2, FS_Singleton, ZenonT(30)
<1> QED
  BY <1>1, <1>2

(* An open resource has exactly one owner and a closed one has none:       *)
(* Acquire, putBack, discard, abandon, evictExpired and Close together     *)
(* never lease a resource twice, leak one or close one that is in use.     *)
THEOREM OneOwner == Spec => []SoleOwner
<1>1. ASSUME IInv, OwnInv, NEW r \in Res PROVE OwnerCount(r) = IF r \in live THEN 1 ELSE 0
  <2>0. /\ idle \in Seq(Res) /\ NoRepeat(idle) /\ Apart(held) /\ Apart(grant)
        /\ Shares(ToSet(idle), Values(held), Values(grant), expired, closeList, live)
    BY <1>1, OwnFacts, SMTT(30) DEF OwnInv, Owned
  <2> DEFINE A == {i \in DOMAIN idle : idle[i] = r}
             B == {p \in Procs : held[p] = r}
             C == {p \in Procs : grant[p] = r}
  <2>1. Cardinality(A) = IF r \in ToSet(idle) THEN 1 ELSE 0
    <3>1. DOMAIN idle = 1..Len(idle)
      BY <2>0, LenProperties
    <3>2. \A x, y \in A : x = y
      BY <2>0, <3>1 DEF NoRepeat
    <3>3. A = {} <=> r \notin ToSet(idle)
      BY <3>1 DEF ToSet
    <3> QED
      BY <3>2, <3>3, OneAtMost, ZenonT(30)
  <2>2. Cardinality(B) = IF r \in Values(held) THEN 1 ELSE 0
    <3>1. \A x, y \in B : x = y
      BY <2>0 DEF Apart
    <3>2. B = {} <=> r \notin Values(held)
      BY DEF Values
    <3> QED
      BY <3>1, <3>2, OneAtMost, ZenonT(30)
  <2>3. Cardinality(C) = IF r \in Values(grant) THEN 1 ELSE 0
    <3>1. \A x, y \in C : x = y
      BY <2>0 DEF Apart
    <3>2. C = {} <=> r \notin Values(grant)
      BY DEF Values
    <3> QED
      BY <3>1, <3>2, OneAtMost, ZenonT(30)
  <2>4. OwnerCount(r) = Cardinality(A) + Cardinality(B) + Cardinality(C)
                        + (IF r \in expired THEN 1 ELSE 0) + (IF r \in closeList THEN 1 ELSE 0)
    BY DEF OwnerCount
  <2> HIDE DEF A, B, C
  <2> QED
    BY <2>0, <2>1, <2>2, <2>3, <2>4, SMTT(30) DEF Shares
<1>2. IInv /\ OwnInv => SoleOwner
  BY <1>1 DEF SoleOwner
<1> QED
  BY <1>2, BothInv, PTL

-----------------------------------------------------------------------------
(* What a goroutine's step does to it: nobody else moves, and a lease      *)
(* begins in Validated or NewSucceeds and ends in Release or Discard.      *)
LEMMA StepShape ==
  ASSUME IInv, NEW p \in Procs, Step(p)
  PROVE  \E l \in Locations :
           /\ Goto(p, l)
           /\ held' = held \/ \E v : held' = [held EXCEPT ![p] = v]
           /\ l = "leased" => Validated(p) \/ NewSucceeds(p)
           /\ pc[p] = "leased" => l \in {"out", "closeResource"}
           /\ pc[p] = "acquire" /\ l \in {"useIdle", "createLeased"} => AcquireIdle(p) \/ AcquireSlot(p)
<1>0. \A l \in {"out", "acquire", "wait", "abandon", "useIdle", "stale",
               "createLeased", "leased", "closeResource"} : l \in Locations
  BY ZenonT(30) DEF Locations
<1>b. ASSUME NEW r, NEW g, PutBack(p, r, g)
      PROVE  /\ Goto(p, "out") \/ Goto(p, "closeResource")
             /\ \E v : held' = [held EXCEPT ![p] = v]
  BY <1>b, ZenonT(30) DEF PutBack
<1>1. CASE AcquireFails(p) \/ AcquireQueue(p) \/ StopWaiting(p) \/ AbandonQueued(p)
  BY <1>0, <1>1, ZenonT(30) DEF AcquireFails, AcquireQueue, StopWaiting, AbandonQueued
<1>2. CASE RetryAcquire(p) \/ NewFails(p) \/ Discard(p)
  BY <1>0, <1>2, ZenonT(30) DEF RetryAcquire, NewFails, Discard
<1>3. CASE AcquireIdle(p) \/ AcquireSlot(p)
  BY <1>0, <1>3, ZenonT(30) DEF AcquireIdle, AcquireSlot
<1>4. CASE TakeGrant(p) \/ CloseStale(p) \/ CloseResource(p)
  BY <1>0, <1>4, ZenonT(30) DEF TakeGrant, CloseStale, CloseResource
<1>5. CASE Validated(p) \/ NewSucceeds(p)
  BY <1>0, <1>5, ZenonT(30) DEF Validated, NewSucceeds
<1>6. CASE Release(p)
  <2>1. PutBack(p, held[p], grant) /\ pc[p] = "leased"
    BY <1>6 DEF Release
  <2> QED
    BY <1>0, <1>b, <2>1, ZenonT(30)
<1>7. CASE AbandonGranted(p)
  <2>1. /\ pc[p] = "abandon"
        /\ \/ PutBack(p, grant[p], [grant EXCEPT ![p] = None])
           \/ Goto(p, "out") /\ held' = held
    BY <1>7, ZenonT(30) DEF AbandonGranted
  <2> QED
    BY <1>0, <1>b, <2>1, ZenonT(30)
<1> QED
  BY <1>1, <1>2, <1>3, <1>4, <1>5, <1>6, <1>7, ZenonT(30) DEF Step

(* The leases that are out: the refinement mapping of LeasesOut.           *)
Lent == [p \in Procs |-> IF pc[p] = "leased" THEN held[p] ELSE None]

(* A lease that Acquire returns is on a resource that is in no other       *)
(* lease, and fewer than MaxSize are out.                                  *)
LEMMA LendStep ==
  ASSUME IInv, OwnInv, NEW p \in Procs, Validated(p) \/ NewSucceeds(p)
  PROVE  \E r \in Res : LeasesOut!Lend(p, r)
<1>0. /\ pc \in [Procs -> Locations] /\ held \in [Procs -> Res \cup {None}] /\ None \notin Res
      /\ Apart(held) /\ \A q \in Procs : pc[q] \in Holding => held[q] \in Res
  BY OwnFacts
<1>1. pc[p] \in {"useIdle", "createLeased"} /\ pc' = [pc EXCEPT ![p] = "leased"]
  BY ZenonT(30) DEF Validated, NewSucceeds, Goto
<1>l. pc[p] # "leased"
  BY <1>1, ZenonT(30)
<1>2. /\ held'[p] \in Res /\ \A q \in Procs : q # p => held'[q] = held[q]
      /\ \A q \in Procs : pc[q] = "leased" => held[q] # held'[p]
  <2>1. CASE Validated(p)
    <3>1. held' = held /\ pc[p] \in Holding
      BY <2>1, ZenonT(30) DEF Validated, Holding
    <3>2. held[p] \in Res
      BY <1>0, <3>1, ZenonT(30)
    <3> QED
      BY <1>0, <1>l, <3>1, <3>2, ZenonT(30) DEF Apart
  <2>2. CASE NewSucceeds(p)
    <3>1. PICK r \in Res \ live : held' = [held EXCEPT ![p] = r]
      BY <2>2, ZenonT(30) DEF NewSucceeds
    <3>2. held'[p] = r /\ \A q \in Procs : q # p => held'[q] = held[q]
      BY <1>0, <3>1, ZenonT(30)
    <3>3. \A q \in Procs : held[q] # r
      BY <3>1 DEF OwnInv, Owned, Shares, Values
    <3> QED
      BY <3>1, <3>2, <3>3, SMTT(30)
  <2> QED
    BY <2>1, <2>2
<1>3. Lent[p] = None /\ \A q \in Procs : Lent[q] # held'[p]
  BY <1>0, <1>l, <1>2, ZenonT(30) DEF Lent
<1>4. Lent' = [Lent EXCEPT ![p] = held'[p]]
  <2>1. pc'[p] = "leased" /\ \A q \in Procs : q # p => pc'[q] = pc[q]
    BY <1>0, <1>1, ZenonT(30)
  <2>2. \A q \in Procs : Lent'[q] = IF q = p THEN held'[p] ELSE Lent[q]
    BY <1>2, <2>1, ZenonT(30) DEF Lent
  <2> QED
    BY <2>2, ZenonT(30) DEF Lent
<1>5. Cardinality({q \in Procs : Lent[q] # None}) < MaxSize
  <2> DEFINE L == {q \in Procs : Lent[q] # None}
  <2>1. L \in SUBSET Procs /\ p \notin L /\ L \cup {p} \subseteq Holders
    <3>1. \A q \in L : q # p /\ pc[q] = "leased"
      BY <1>3, ZenonT(30) DEF Lent
    <3>2. \A q \in Procs : pc[q] = "leased" => q \in Holders
      BY ZenonT(30) DEF Holders
    <3>3. p \in Holders
      BY <1>1, ZenonT(30) DEF Holders
    <3> HIDE DEF L
    <3>4. L \subseteq Procs
      BY DEF L
    <3> QED
      BY <3>1, <3>2, <3>3, <3>4, SMTT(30)
  <2> HIDE DEF L
  <2>2. Cardinality(L) \in Nat /\ Cardinality(L \cup {p}) = Cardinality(L) + 1
    BY <2>1, CountFacts
  <2>3. Holders \in SUBSET Procs /\ leased = Cardinality(Holders) /\ leased \in Nat
    BY PoolFacts DEF PoolTypes
  <2>4. Cardinality(L \cup {p}) <= Cardinality(Holders)
    BY <2>1, <2>3, ProcsFinite, FS_Subset, ZenonT(30)
  <2>5. leased <= MaxSize
    <3>1. /\ SlotConservation /\ Len(idle) \in Nat /\ leased \in Nat /\ freeSlots \in Nat
          /\ MaxSize \in Nat
      BY PoolFacts DEF PoolTypes, IInv
    <3> QED
      BY <3>1 DEF SlotConservation
  <2>6. MaxSize \in Nat
    BY PoolAssumption
  <2>7. Cardinality(L) < MaxSize
    BY <2>2, <2>3, <2>4, <2>5, <2>6, SMTT(30)
  <2> QED
    BY <2>7 DEF L
<1>c. \A S : Cardinality(S) = LeasesOut!Cardinality(S)
  BY DEF Cardinality, LeasesOut!Cardinality
<1>6. PICK r \in Res : r = held'[p]
  BY <1>2
<1>7. LeasesOut!Lend(p, r)
  BY <1>3, <1>4, <1>5, <1>6, <1>c, ZenonT(30) DEF LeasesOut!Lend, LeasesOut!Available, LeasesOut!Lessees, Lent
<1> QED
  BY <1>7

(* A lease ends in Release or Discard, and nothing else touches the leases. *)
LEMMA OtherLeaseStep ==
  ASSUME IInv, OwnInv, NEW p \in Procs, Step(p), ~(Validated(p) \/ NewSucceeds(p))
  PROVE  LeasesOut!Return(p) \/ Lent' = Lent
<1>0. /\ pc \in [Procs -> Locations] /\ held \in [Procs -> Res \cup {None}] /\ None \notin Res
      /\ \A q \in Procs : pc[q] \in Holding => held[q] \in Res
  BY OwnFacts
<1>1. PICK l \in Locations :
        /\ pc' = [pc EXCEPT ![p] = l] /\ l # "leased"
        /\ held' = held \/ \E v : held' = [held EXCEPT ![p] = v]
  BY StepShape, ZenonT(30) DEF Goto
<1>2. /\ pc'[p] = l
      /\ \A q \in Procs : q # p => pc'[q] = pc[q] /\ held'[q] = held[q]
  <2>1. pc'[p] = l /\ \A q \in Procs : q # p => pc'[q] = pc[q]
    BY <1>0, <1>1, ZenonT(30)
  <2>2. \A q \in Procs : q # p => held'[q] = held[q]
    BY <1>0, <1>1, ZenonT(30)
  <2> QED
    BY <2>1, <2>2, ZenonT(30)
<1>3. Lent'[p] = None /\ \A q \in Procs : q # p => Lent'[q] = Lent[q]
  BY <1>1, <1>2, ZenonT(30) DEF Lent
<1>4. CASE pc[p] = "leased"
  <2>1. held[p] # None
    BY <1>0, <1>4, ZenonT(30) DEF Holding
  <2>2. Lent[p] # None
    BY <1>4, <2>1, ZenonT(30) DEF Lent
  <2>3. Lent' = [Lent EXCEPT ![p] = None]
    BY <1>3, ZenonT(30) DEF Lent
  <2> QED
    BY <2>2, <2>3 DEF LeasesOut!Return, Lent
<1>5. CASE pc[p] # "leased"
  <2>1. Lent[p] = None
    BY <1>5, ZenonT(30) DEF Lent
  <2>2. \A q \in Procs : Lent'[q] = Lent[q]
    BY <1>3, <2>1, ZenonT(30)
  <2> QED
    BY <2>2 DEF Lent
<1> QED
  BY <1>4, <1>5, SMTT(30)

(* Every step of the pool is a step of Leases or leaves the leases alone.  *)
LEMMA LeaseStep == IInv /\ OwnInv /\ [Next]_vars => [LeasesOut!Next]_Lent
<1> SUFFICES ASSUME IInv, OwnInv, [Next]_vars, ~(Lent' = Lent) PROVE LeasesOut!Next
  OBVIOUS
<1>1. ASSUME pc' = pc, held' = held PROVE FALSE
  BY <1>1 DEF Lent
<1>2. ASSUME NEW p \in Procs, CallAcquire(p) PROVE FALSE
  <2>1. pc \in [Procs -> Locations] /\ pc[p] = "out" /\ held' = held /\ pc' = [pc EXCEPT ![p] = "acquire"]
    BY <1>2, OwnFacts, ZenonT(30) DEF CallAcquire, Goto
  <2>2. \A q \in Procs : pc'[q] = "leased" <=> pc[q] = "leased"
    BY <2>1, ZenonT(30)
  <2>3. \A q \in Procs : Lent'[q] = Lent[q]
    BY <2>1, <2>2, ZenonT(30) DEF Lent
  <2>4. Lent' = Lent
    BY <2>3 DEF Lent
  <2> QED
    BY <2>4
<1>3. CASE \/ \E p \in Procs : ContextEnds(p)
           \/ EvictExpired \/ JanitorStep \/ CloseBegins \/ CloserStep \/ UNCHANGED vars
  <2>1. pc' = pc /\ held' = held
    BY <1>3, ZenonT(60) DEF ContextEnds, EvictExpired, JanitorStep, CloseExpired, StopJanitor,
         CloseBegins, CloserStep, JanitorDone, CloseGivesUp, CloseIdle, vars, procVars
  <2> QED
    BY <1>1, <2>1
<1>4. ASSUME NEW p \in Procs, Step(p) PROVE LeasesOut!Next
  <2>1. CASE Validated(p) \/ NewSucceeds(p)
    BY <2>1, LendStep, ZenonT(30) DEF LeasesOut!Next
  <2>2. CASE ~(Validated(p) \/ NewSucceeds(p))
    BY <1>4, <2>2, OtherLeaseStep, ZenonT(30) DEF LeasesOut!Next
  <2> QED
    BY <2>1, <2>2
<1> QED
  BY <1>2, <1>3, <1>4, ZenonT(30) DEF Next

(* Pool implements Leases, what rfc/ relies on: at most MaxSize leases are *)
(* out at once and no resource is in two of them, whatever the idle stack, *)
(* the queue, the janitor and Close do behind them.                        *)
THEOREM PoolImplementsLeases == Spec => ImplementsLeases
<1>1. Init => LeasesOut!Init
  BY ZenonT(30) DEF Init, LeasesOut!Init
<1> QED
  BY <1>1, LeaseStep, BothInv, PTL DEF Spec, ImplementsLeases, LeasesOut!Spec, Lent

-----------------------------------------------------------------------------
(* Whatever a step delivers, it delivers to the head of the queue.         *)
LEMMA HeadIsServed ==
  ASSUME IInv, OwnInv, [Next]_vars, NEW q \in Procs, grant[q] = None, grant'[q] # None
  PROVE  waiters # <<>> /\ q = Head(waiters)
<1>0. grant \in [Procs -> Res \cup {Permit, None}]
  BY OwnFacts
<1>g. ASSUME NEW p \in Procs
      PROVE  /\ [grant EXCEPT ![p] = None] \in [Procs -> Res \cup {Permit, None}]
             /\ [grant EXCEPT ![p] = None][q] = None
  BY <1>0, ZenonT(30)
<1>h. ASSUME NEW g \in [Procs -> Res \cup {Permit, None}], g[q] = None, NEW x,
             waiters # <<>>, grant' = [g EXCEPT ![Head(waiters)] = x]
      PROVE  q = Head(waiters)
  BY <1>h, ZenonT(30)
<1>b. ASSUME NEW p, NEW r, NEW g \in [Procs -> Res \cup {Permit, None}], g[q] = None, PutBack(p, r, g)
      PROVE  waiters # <<>> /\ q = Head(waiters)
  <2>1. grant' = g \/ (waiters # <<>> /\ grant' = [g EXCEPT ![Head(waiters)] = r])
    BY <1>b, ZenonT(30) DEF PutBack
  <2> QED
    BY <1>b, <1>h, <2>1, ZenonT(30)
<1>r. ASSUME NEW g \in [Procs -> Res \cup {Permit, None}], g[q] = None, ReturnSlot(g), Holders # {}
      PROVE  waiters # <<>> /\ q = Head(waiters)
  <2>1. leased > 0 /\ TypeOK /\ NoLostWakeup
    BY <1>r, PoolFacts, SMTT(30) DEF IInv
  <2>2. grant' = g \/ (waiters # <<>> /\ grant' = [g EXCEPT ![Head(waiters)] = Permit])
    BY <1>r, <2>1, ReturnSlotCases, ZenonT(30)
  <2> QED
    BY <1>h, <1>r, <2>2, ZenonT(30)
<1>1. ASSUME NEW p \in Procs, Step(p) PROVE waiters # <<>> /\ q = Head(waiters)
  <2>1. CASE \/ AcquireFails(p) \/ AcquireIdle(p) \/ AcquireSlot(p) \/ AcquireQueue(p)
             \/ StopWaiting(p) \/ AbandonQueued(p) \/ Validated(p) \/ CloseStale(p)
             \/ NewSucceeds(p) \/ CloseResource(p) \/ TakeGrant(p)
    <3>1. grant' = grant \/ grant' = [grant EXCEPT ![p] = None]
      BY <2>1, ZenonT(60) DEF AcquireFails, AcquireIdle, AcquireSlot, AcquireQueue, StopWaiting,
           AbandonQueued, Validated, CloseStale, NewSucceeds, CloseResource, TakeGrant
    <3> QED
      BY <1>g, <3>1, ZenonT(30)
  <2>2. CASE RetryAcquire(p) \/ NewFails(p) \/ Discard(p)
    <3>1. ReturnSlot(grant) /\ pc[p] \in {"stale", "createLeased", "leased"}
      BY <2>2, ZenonT(30) DEF RetryAcquire, NewFails, Discard
    <3>2. p \in Holders
      BY <3>1, ZenonT(30) DEF Holders
    <3>3. Holders # {}
      BY <3>2
    <3> QED
      BY <1>0, <1>r, <3>1, <3>3, ZenonT(30)
  <2>3. CASE Release(p)
    BY <1>0, <1>b, <2>3, ZenonT(30) DEF Release
  <2>4. CASE AbandonGranted(p)
    <3> DEFINE g == [grant EXCEPT ![p] = None]
    <3>1. grant[p] # None /\ (PutBack(p, grant[p], g) \/ ReturnSlot(g))
      BY <2>4, ZenonT(30) DEF AbandonGranted
    <3>2. g \in [Procs -> Res \cup {Permit, None}] /\ g[q] = None
      BY <1>g
    <3>3. p \in Holders
      BY <3>1, ZenonT(30) DEF Holders
    <3>4. Holders # {}
      BY <3>3
    <3> HIDE DEF g
    <3> QED
      BY <1>b, <1>r, <3>1, <3>2, <3>4, ZenonT(30)
  <2> QED
    BY <1>1, <2>1, <2>2, <2>3, <2>4, ZenonT(30) DEF Step
<1>2. CASE EvictExpired
  <2>1. PICK k \in 1..Len(idle) :
          GrantAvailable(SubSeq(idle, k + 1, Len(idle)), leased, freeSlots + k, grant)
    BY <1>2 DEF EvictExpired
  <2>2. grant' = grant
    BY <2>1, EvictFacts
  <2> QED
    BY <2>2
<1>3. CASE \/ \E p \in Procs : CallAcquire(p) \/ ContextEnds(p)
           \/ JanitorStep \/ CloseBegins \/ CloserStep \/ UNCHANGED vars
  <2>1. grant' = grant
    BY <1>3, ZenonT(60) DEF CallAcquire, ContextEnds, JanitorStep, CloseExpired, StopJanitor,
         CloseBegins, CloserStep, JanitorDone, CloseGivesUp, CloseIdle, vars, procVars
  <2> QED
    BY <2>1
<1> QED
  BY <1>1, <1>2, <1>3, ZenonT(30) DEF Next

(* A call that has not queued takes something only when nobody waits.      *)
LEMMA NobodyIsOvertaken ==
  ASSUME IInv, OwnInv, [Next]_vars, NEW p \in Procs,
         pc[p] = "acquire", pc'[p] \in {"useIdle", "createLeased"}
  PROVE  waiters = <<>>
<1>0. pc \in [Procs -> Locations] /\ NoLostWakeup
  BY OwnFacts DEF IInv
<1>1. ASSUME NEW q \in Procs, Step(q) PROVE waiters = <<>>
  <2>1. PICK l \in Locations :
          /\ pc' = [pc EXCEPT ![q] = l]
          /\ pc[q] = "acquire" /\ l \in {"useIdle", "createLeased"} => AcquireIdle(q) \/ AcquireSlot(q)
    BY <1>1, StepShape, ZenonT(30) DEF Goto
  <2>2. q = p /\ pc'[q] = l
    BY <1>0, <2>1, ZenonT(30)
  <2>3. AcquireIdle(q) \/ AcquireSlot(q)
    BY <2>1, <2>2, ZenonT(30)
  <2>4. idle # <<>> \/ freeSlots > 0
    BY <2>3, ZenonT(30) DEF AcquireIdle, AcquireSlot
  <2> QED
    BY <1>0, <2>4 DEF NoLostWakeup
<1>2. CASE \E q \in Procs : CallAcquire(q)
  <2>1. PICK q \in Procs : pc' = [pc EXCEPT ![q] = "acquire"]
    BY <1>2, ZenonT(30) DEF CallAcquire, Goto
  <2> QED
    BY <1>0, <2>1, ZenonT(30)
<1>3. CASE \/ \E q \in Procs : ContextEnds(q)
           \/ EvictExpired \/ JanitorStep \/ CloseBegins \/ CloserStep \/ UNCHANGED vars
  <2>1. pc' = pc
    BY <1>3, ZenonT(60) DEF ContextEnds, EvictExpired, JanitorStep, CloseExpired, StopJanitor,
         CloseBegins, CloserStep, JanitorDone, CloseGivesUp, CloseIdle, vars, procVars
  <2> QED
    BY <2>1, ZenonT(30)
<1> QED
  BY <1>1, <1>2, <1>3, ZenonT(30) DEF Next

(* Acquire is first in, first out: a queued call is granted only after the *)
(* calls that queued before it, and no call that has not queued takes a    *)
(* resource or a slot from under the queue.                                *)
THEOREM PoolServesInOrder == Spec => ServedInOrder
<1>1. ASSUME IInv, OwnInv, [Next]_vars
      PROVE  /\ \A i, j \in DOMAIN waiters :
                  i < j /\ grant'[waiters[j]] # None => grant'[waiters[i]] # None
             /\ \A p \in Procs :
                  pc[p] = "acquire" /\ pc'[p] \in {"useIdle", "createLeased"} => waiters = <<>>
  <2>1. waiters \in Seq(Procs) /\ QueueInv
    BY <1>1, OwnFacts, SMTT(30) DEF IInv
  <2>2. DOMAIN waiters = 1..Len(waiters) /\ Len(waiters) \in Nat
    BY <2>1, LenProperties
  <2>3. ASSUME NEW j \in 1..Len(waiters), grant'[waiters[j]] # None PROVE j = 1
    <3>1. waiters[j] \in Queued /\ waiters[j] \in Procs
      BY <2>1, QueuedProcs, SMTT(30) DEF Queued
    <3>2. grant[waiters[j]] = None
      BY <2>1, <3>1, ZenonT(30) DEF QueueInv
    <3>3. waiters # <<>> /\ waiters[j] = Head(waiters)
      BY <1>1, <2>3, <3>1, <3>2, HeadIsServed, ZenonT(30)
    <3>4. Head(waiters) = waiters[1] /\ Len(waiters) \in Nat \ {0}
      BY <2>1, <3>3, TailFacts, ZenonT(30)
    <3>5. 1 \in 1..Len(waiters)
      BY <3>4
    <3> QED
      BY <2>1, <3>3, <3>4, <3>5, ZenonT(30) DEF QueueInv
  <2>4. \A i, j \in 1..Len(waiters) : ~(i < j /\ j = 1)
    BY <2>2
  <2> QED
    BY <1>1, <2>2, <2>3, <2>4, NobodyIsOvertaken, ZenonT(30)
<1> QED
  BY <1>1, BothInv, PTL DEF Spec, ServedInOrder
=============================================================================
