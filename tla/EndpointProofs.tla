---------------------------- MODULE EndpointProofs ----------------------------
(***************************************************************************)
(* Proofs about the endpoints that MCEndpoints also checks: Fragmentation, *)
(* the planner and the writer of a data plan, for messages of any length   *)
(* and any slice, barrier interval and limit; AdtHandler, for any number   *)
(* of calls and of sessions; and ServeConscious, for requests of any       *)
(* number and length, any control frames between them and any limit on     *)
(* logons.                                                                 *)
(***************************************************************************)
EXTENDS Fragmentation, AdtHandler, ServeConscious, SequenceFacts

Count == FragmentCount(input)

(* What the writer has to write, and what it has written.                  *)
Wire == {Encoded(Planned(input)[k]) : k \in 1..Count}

PlanInv ==
  /\ input \in Inputs
  /\ outcome \in {"running", "sent", "range", "state", "barrier failed"}
  /\ plan = <<>> => next = 0 /\ records = <<>> /\ setup = "ready" /\ outcome # "sent"
  /\ plan # <<>> => Refusal(input) = "none" /\ plan = Planned(input)

WriteInv ==
  plan # <<>> =>
    /\ next \in 0..Count /\ records \in Seq(Wire) /\ Len(records) = next
    /\ \A k \in 1..next : records[k] = Encoded(Planned(input)[k])
    /\ next = 0 => setup = "ready"
    /\ 0 < next /\ next < Count => setup \in {"send-continuation", "send-barrier-pending"}
    /\ (next = Count) <=> outcome = "sent"
    /\ next = Count => setup = "response-pending"

WriterInv == PlanInv /\ WriteInv

-----------------------------------------------------------------------------
(* Arithmetic of the slices: D slices are enough and D - 1 are not.        *)
LEMMA Ceiling ==
  ASSUME NEW a \in Nat \ {0}, NEW b \in Nat \ {0}
  PROVE  LET d == (a + b - 1) \div b
         IN  d \in Nat \ {0} /\ (d - 1) * b < a /\ a <= d * b
<1>1. a + b - 1 \in Nat
  BY SMTT(30)
<1> DEFINE n == a + b - 1
           d == n \div b
<1>2. d \in Nat /\ n % b \in 0..(b - 1) /\ n = b * d + (n % b)
  BY <1>1, SMTT(30)
<1>3. a = b * d + (n % b) - b + 1
  BY <1>2, SMTT(30)
<1>4. a <= b * d
  BY <1>2, <1>3, SMTT(30)
<1>5. d # 0
  BY <1>2, <1>4, SMTT(30)
<1>6. b * d - b = (d - 1) * b /\ b * d = d * b
  BY <1>2, SMTT(30)
<1>7. b * d - b < a
  BY <1>2, <1>3, SMTT(30)
<1> QED
  BY <1>2, <1>4, <1>5, <1>6, <1>7

(* A later slice starts no earlier.                                        *)
LEMMA Monotone ==
  ASSUME NEW b \in Nat, NEW p \in Int, NEW q \in Int, p <= q
  PROVE  p * b <= q * b
  BY SMTT(30)

(* Among AsyncSends + 1 consecutive indices there is a positive multiple   *)
(* of AsyncSends: outgoingFragmentSemantics makes it a barrier.            *)
LEMMA BarrierIndex ==
  ASSUME NEW a \in Nat \ {0}, NEW i \in Nat
  PROVE  \E m \in i..(i + a) : m >= a /\ (m - a) % a = 0
<1> DEFINE q == (i + a) \div a
           m == a * q
<1>1. q \in Nat /\ (i + a) % a \in 0..(a - 1) /\ i + a = a * q + ((i + a) % a)
  BY SMTT(30)
<1>2. m \in Nat /\ m > i /\ m <= i + a
  BY <1>1, SMTT(30)
<1>3. q # 0
  BY <1>1, SMTT(30)
<1>4. q - 1 \in Nat
  BY <1>1, <1>3, SMTT(30)
<1>5. m - a = (q - 1) * a /\ m >= a
  <2>1. m - a = (q - 1) * a
    BY <1>1, SMTT(30)
  <2>2. (q - 1) * a >= 0
    BY <1>4, SMTT(30)
  <2> QED
    BY <1>2, <2>1, <2>2, SMTT(30)
<1>6. ASSUME NEW p \in Nat PROVE (p * a) % a = 0
  BY SMTT(30)
<1>7. (m - a) % a = 0
  BY <1>4, <1>5, <1>6, ZenonT(30)
<1> QED
  BY <1>2, <1>5, <1>7, SMTT(30)

(* What outgoingFragmentSemantics makes of fragment i of n.                *)
LEMMA SemanticsFacts ==
  ASSUME NEW n \in Nat \ {0}, NEW i \in 0..(n - 1)
  PROVE  /\ n = 1 => Semantics(i, n).fc = "SapSend"
         /\ n > 1 /\ i = n - 1 => Semantics(i, n).fc = "Receive"
         /\ n > 1 /\ i < n - 1 => Semantics(i, n).fc \in {"SendData", "AsyncSendData"}
         /\ n > 1 /\ i < n - 1 /\ i = 0 => Semantics(i, n).fc = "AsyncSendData"
         /\ i >= AsyncSends /\ (i - AsyncSends) % AsyncSends = 0
              => Semantics(i, n).fc # "AsyncSendData"
  BY FragmentationAssumption, SMTT(30) DEF Semantics

(* The fields of a planner's input.                                        *)
LEMMA InputFields ==
  ASSUME NEW in \in Inputs
  PROVE  in.length \in Nat /\ in.compact \in Int
  BY FragmentationAssumption, SMTT(30) DEF Inputs

(* The two shapes of a plan that PlanOutgoingDataFragments does not refuse:*)
(* one compact record, or two slices at least and a terminator.            *)
LEMMA PlanShape ==
  ASSUME NEW in \in Inputs, Refusal(in) = "none"
  PROVE  \/ /\ Compact(in) /\ FragmentCount(in) = 1
            /\ in.compact = in.length /\ in.length <= Slice
         \/ /\ ~Compact(in) /\ in.streaming /\ in.length > Slice
            /\ FragmentCount(in) \in Nat /\ FragmentCount(in) >= 3
            /\ (FragmentCount(in) - 2) * Slice < in.length
            /\ in.length <= (FragmentCount(in) - 1) * Slice
<1>1. in.length \in Nat /\ in.compact \in Int /\ Slice \in Nat \ {0}
  BY InputFields, FragmentationAssumption
<1>2. ~OutOfRange(in) /\ (Compact(in) \/ in.streaming)
  BY DEF Refusal
<1>3. CASE Compact(in)
  <2>1. in.compact >= 0 /\ in.length <= Slice
    BY <1>3 DEF Compact
  <2>2. in.compact = in.length
    BY <1>2, <2>1 DEF OutOfRange
  <2> QED
    BY <1>3, <2>1, <2>2 DEF FragmentCount
<1>4. CASE ~Compact(in)
  <2>1. in.length > Slice
    BY <1>1, <1>2, <1>4, SMTT(30) DEF Compact, OutOfRange
  <2> DEFINE d == (in.length + Slice - 1) \div Slice
  <2>2. FragmentCount(in) = d + 1
    BY <1>4 DEF FragmentCount, DataFragments
  <2>3. in.length \in Nat \ {0}
    BY <1>1, <2>1, SMTT(30)
  <2>4. d \in Nat \ {0} /\ (d - 1) * Slice < in.length /\ in.length <= d * Slice
    BY <1>1, <2>3, Ceiling, ZenonT(30)
  <2> HIDE DEF d
  <2>5. d # 1
    <3> SUFFICES ASSUME d = 1 PROVE FALSE
      OBVIOUS
    <3> QED
      BY <1>1, <2>1, <2>4, SMTT(30)
  <2>6. d - 1 = FragmentCount(in) - 2 /\ d = FragmentCount(in) - 1
    BY <2>2, <2>4, SMTT(30)
  <2>7. FragmentCount(in) \in Nat /\ FragmentCount(in) >= 3
    BY <2>2, <2>4, <2>5, SMTT(30)
  <2> QED
    BY <1>2, <1>4, <2>1, <2>4, <2>6, <2>7
<1> QED
  BY <1>3, <1>4

(* The number of fragments of a plan.                                      *)
LEMMA PlanCount ==
  ASSUME NEW in \in Inputs, Refusal(in) = "none"
  PROVE  /\ FragmentCount(in) \in Nat \ {0} /\ FragmentCount(in) # 2
         /\ Len(Planned(in)) = FragmentCount(in) /\ Planned(in) # <<>>
<1>1. FragmentCount(in) \in Nat \ {0} /\ FragmentCount(in) # 2
  BY PlanShape, SMTT(30)
<1>2. Planned(in) = [k \in 1..FragmentCount(in) |-> Planned(in)[k]]
  BY DEF Planned
<1>3. Len(Planned(in)) = FragmentCount(in)
  BY <1>1, <1>2, SMTT(30)
<1> QED
  BY <1>1, <1>3, SMTT(30)

(* Fragment k of a plan: its place, its semantics, and its data, which     *)
(* start where slice k starts and end where the next slice starts.         *)
LEMMA FragmentFacts ==
  ASSUME NEW in \in Inputs, Refusal(in) = "none", NEW k \in 1..FragmentCount(in)
  PROVE  LET f == Planned(in)[k]
         IN  /\ f.sem = Semantics(k - 1, FragmentCount(in)) /\ f.index = k - 1
             /\ f.count = FragmentCount(in) /\ f.length = in.length
             /\ f.tail = IF Compact(in) THEN in.compact ELSE -1
             /\ Len(f.data) \in 0..Slice
             /\ StartOf(in, k) + Len(f.data) = StartOf(in, k + 1)
             /\ f.data = [b \in 1..Len(f.data) |-> StartOf(in, k) + b]
             /\ FragmentCount(in) > 1 /\ k < FragmentCount(in) => Len(f.data) >= 1
             /\ FragmentCount(in) > 1 /\ k = FragmentCount(in) => f.data = <<>>
<1> DEFINE n == FragmentCount(in)
           f == Planned(in)[k]
           from == StartOf(in, k)
           to == IF Semantics(k - 1, n).fc = "Receive" THEN from
                 ELSE IF from + Slice > in.length THEN in.length ELSE from + Slice
<1>1. in.length \in Nat /\ Slice \in Nat \ {0} /\ n \in Nat \ {0} /\ k \in Nat \ {0}
  BY InputFields, PlanCount, FragmentationAssumption, SMTT(30)
<1>2. /\ f.sem = Semantics(k - 1, n) /\ f.index = k - 1 /\ f.count = n /\ f.length = in.length
      /\ f.tail = IF Compact(in) THEN in.compact ELSE -1
      /\ f.data = [b \in 1..(to - from) |-> from + b]
  BY ZenonT(30) DEF Planned, StartOf
<1>3. (k - 1) * Slice \in Nat /\ ((k + 1) - 1) * Slice = (k - 1) * Slice + Slice
  BY <1>1, SMTT(30)
<1>4. /\ from = IF (k - 1) * Slice > in.length THEN in.length ELSE (k - 1) * Slice
      /\ StartOf(in, k + 1) = IF (k - 1) * Slice + Slice > in.length THEN in.length
                              ELSE (k - 1) * Slice + Slice
  BY <1>3 DEF StartOf
<1>5. /\ n = 1 => Semantics(k - 1, n).fc = "SapSend"
      /\ n > 1 /\ k = n => Semantics(k - 1, n).fc = "Receive"
      /\ n > 1 /\ k < n => Semantics(k - 1, n).fc # "Receive"
  <2>1. k - 1 \in 0..(n - 1) /\ (k = n => k - 1 = n - 1) /\ (k < n => k - 1 < n - 1)
    BY <1>1, SMTT(30)
  <2> HIDE DEF n
  <2> QED
    BY <1>1, <2>1, SemanticsFacts, SMTT(30)
<1>6. /\ n > 1 /\ k < n => (k - 1) * Slice < in.length
      /\ n > 1 /\ k = n => in.length <= (k - 1) * Slice
  <2>1. n > 1 => (n - 2) * Slice < in.length /\ in.length <= (n - 1) * Slice
    BY PlanShape, SMTT(30)
  <2>2. k < n => k - 1 \in Int /\ n - 2 \in Int /\ k - 1 <= n - 2
    BY <1>1, SMTT(30)
  <2>3. k < n => (k - 1) * Slice <= (n - 2) * Slice
    BY <1>1, <2>2, Monotone, SMTT(30)
  <2>4. (n - 2) * Slice \in Int
    BY <1>1, SMTT(30)
  <2> QED
    BY <1>1, <1>3, <2>1, <2>3, <2>4, SMTT(30)
<1> HIDE DEF n, f, from
<1>7. from \in Nat /\ to - from \in 0..Slice
  BY <1>1, <1>3, <1>4, SMTT(30)
<1>8. Len(f.data) = to - from
  BY <1>2, <1>7, SMTT(30)
<1>9. from + (to - from) = StartOf(in, k + 1)
  <2>1. n = 1 => in.length <= Slice /\ k = 1
    BY PlanShape, <1>1, SMTT(30) DEF n
  <2>2. k \in 1..n
    BY DEF n
  <2> QED
    BY <1>1, <1>3, <1>4, <1>5, <1>6, <2>1, <2>2, SMTT(30)
<1>10. n > 1 /\ k < n => to - from >= 1
  BY <1>1, <1>3, <1>4, <1>5, <1>6, SMTT(30)
<1>11. n > 1 /\ k = n => to - from = 0
  BY <1>1, <1>3, <1>4, <1>5, SMTT(30)
<1>12. n > 1 /\ k = n => f.data = <<>>
  BY <1>2, <1>8, <1>11, SMTT(30)
<1> QED
  BY <1>2, <1>7, <1>8, <1>9, <1>10, <1>12 DEF n, f, from

-----------------------------------------------------------------------------
(* Every fragment of a plan passes EncodeOutgoingDataFragment.             *)
LEMMA PlannedIsEncodable ==
  ASSUME NEW in \in Inputs, Refusal(in) = "none", NEW k \in 1..FragmentCount(in)
  PROVE  Encodable(Planned(in)[k])
<1> DEFINE n == FragmentCount(in)
           f == Planned(in)[k]
<1>1. /\ f.sem = Semantics(k - 1, n) /\ f.index = k - 1 /\ f.count = n /\ f.length = in.length
      /\ f.tail = IF Compact(in) THEN in.compact ELSE -1
      /\ Len(f.data) \in 0..Slice
      /\ n > 1 /\ k < n => Len(f.data) >= 1
      /\ n > 1 /\ k = n => f.data = <<>>
  BY FragmentFacts, ZenonT(30)
<1>2. n \in Nat \ {0} /\ k \in 1..n /\ Slice \in Nat
  BY PlanCount, FragmentationAssumption, ZenonT(30)
<1>3. /\ n = 1 => f.tail = f.length
      /\ n > 1 => f.tail = -1
  BY <1>1, PlanShape, SMTT(30)
<1> HIDE DEF n, f
<1>4. /\ n > 1 /\ k < n => Semantics(k - 1, n).fc # "Receive"
      /\ k - 1 \in 0..(n - 1) /\ n >= 1
  <2>1. k - 1 \in 0..(n - 1) /\ (k < n => k - 1 < n - 1) /\ n >= 1
    BY <1>2, SMTT(30)
  <2> QED
    BY <1>2, <2>1, SemanticsFacts, SMTT(30)
<1>5. n = 1 \/ (n > 1 /\ k < n) \/ (n > 1 /\ k = n)
  BY <1>2, SMTT(30)
<1>6. Len(f.data) <= Slice
  BY <1>1, <1>2, SMTT(30)
<1>7. n > 1 /\ k = n => Semantics(k - 1, n).fc = "Receive"
  <2>1. k = n => k - 1 = n - 1
    BY <1>2, SMTT(30)
  <2> QED
    BY <1>2, <1>4, <2>1, SemanticsFacts, SMTT(30)
<1>8. CASE n = 1
  <2>1. ~(n > 1)
    BY <1>8, SMTT(30)
  <2> QED
    BY <1>1, <1>3, <1>4, <1>6, <1>8, <2>1 DEF Encodable, n, f
<1>9. CASE n > 1 /\ k < n
  <2>1. n # 1
    BY <1>9, <1>2, SMTT(30)
  <2> QED
    BY <1>1, <1>3, <1>4, <1>6, <1>9, <2>1, ZenonT(30) DEF Encodable, n, f
<1>10. CASE n > 1 /\ k = n
  <2>1. n # 1
    BY <1>10, <1>2, SMTT(30)
  <2> QED
    BY <1>1, <1>3, <1>4, <1>6, <1>7, <1>10, <2>1, ZenonT(30) DEF Encodable, n, f
<1> QED
  BY <1>5, <1>8, <1>9, <1>10 DEF n

(* The transitions of the setup machine that a plan uses.                  *)
LEMMA MachineTable ==
  /\ MaySend("ready", "SapSend", TRUE) /\ AfterSent("ready", "SapSend", TRUE) = "response-pending"
  /\ MaySend("ready", "AsyncSendData", FALSE)
  /\ AfterSent("ready", "AsyncSendData", FALSE) = "send-continuation"
  /\ MaySend("send-continuation", "AsyncSendData", FALSE)
  /\ AfterSent("send-continuation", "AsyncSendData", FALSE) = "send-continuation"
  /\ MaySend("send-continuation", "SendData", FALSE)
  /\ AfterSent("send-continuation", "SendData", FALSE) = "send-barrier-pending"
  /\ MaySend("send-continuation", "Receive", TRUE)
  /\ AfterSent("send-continuation", "Receive", TRUE) = "response-pending"
  BY DEF MaySend, WellShaped, Sendable, AfterSent

(* What the setup machine makes of fragment k: ready before the first,     *)
(* between a continuation and a barrier after the others, and waiting for  *)
(* the reply after the last.                                               *)
LEMMA MachineFollows ==
  ASSUME NEW in \in Inputs, Refusal(in) = "none", NEW k \in 1..FragmentCount(in),
         NEW st, st = IF k = 1 THEN "ready" ELSE "send-continuation"
  PROVE  LET fc == Planned(in)[k].sem.fc
             final == fc \in {"SapSend", "Receive"}
         IN  /\ MaySend(st, fc, final)
             /\ k < FragmentCount(in)
                  => AfterSent(st, fc, final) \in {"send-continuation", "send-barrier-pending"}
             /\ k = FragmentCount(in) => AfterSent(st, fc, final) = "response-pending"
<1> DEFINE n == FragmentCount(in)
           fc == Planned(in)[k].sem.fc
           final == fc \in {"SapSend", "Receive"}
<1>1. fc = Semantics(k - 1, n).fc
  BY FragmentFacts, ZenonT(30)
<1>2. n \in Nat \ {0} /\ n # 2 /\ k \in 1..n
  BY PlanCount, ZenonT(30)
<1> HIDE DEF n, fc
<1>3. /\ k - 1 \in 0..(n - 1) /\ (k < n => n > 1 /\ k - 1 < n - 1) /\ (k = n => k - 1 = n - 1)
      /\ (k = 1 => k - 1 = 0)
  BY <1>2, SMTT(30)
<1>4. /\ n = 1 => fc = "SapSend"
      /\ n > 1 /\ k = n => fc = "Receive"
      /\ k < n => fc \in {"SendData", "AsyncSendData"}
      /\ k < n /\ k = 1 => fc = "AsyncSendData"
  BY <1>1, <1>2, <1>3, SemanticsFacts, SMTT(30)
<1>5. CASE n = 1
  <2>1. k = 1 /\ ~(k < n)
    BY <1>2, <1>5, SMTT(30)
  <2> QED
    <3>1. final = TRUE
      BY <1>4, <1>5
    <3> QED
      BY <1>4, <1>5, <2>1, <3>1, MachineTable, ZenonT(30) DEF n, fc
<1>6. CASE n > 1 /\ k = n
  <2>1. k # 1 /\ ~(k < n)
    BY <1>2, <1>6, SMTT(30)
  <2> QED
    <3>1. final = TRUE
      BY <1>4, <1>6
    <3> QED
      BY <1>4, <1>6, <2>1, <3>1, MachineTable, ZenonT(30) DEF n, fc
<1>7. CASE k < n
  <2>1. k # n
    BY <1>2, <1>7, SMTT(30)
  <2> QED
    <3>1. final = FALSE
      BY <1>4, <1>7
    <3> QED
      BY <1>4, <1>7, <2>1, <3>1, MachineTable, ZenonT(30) DEF n, fc
<1> QED
  <2>1. n = 1 \/ (n > 1 /\ k = n) \/ k < n
    BY <1>2, SMTT(30)
  <2> QED
    BY <2>1, <1>5, <1>6, <1>7

-----------------------------------------------------------------------------
(* Before PlanOutgoingDataFragments runs nothing is planned or written.    *)
LEMMA WriterStarts == WriterInit => WriterInv
  BY DEF WriterInit, WriterInv, PlanInv, WriteInv

(* PlanOutgoingDataFragments returns an error or the whole plan.           *)
LEMMA PlanStep ==
  ASSUME WriterInv, Plan
  PROVE  WriterInv'
<1>1. /\ outcome = "running" /\ plan = <<>> /\ input' = input /\ next' = next
      /\ setup' = setup /\ records' = records
  BY DEF Plan
<1>2. input \in Inputs /\ next = 0 /\ records = <<>> /\ setup = "ready"
  BY <1>1 DEF WriterInv, PlanInv
<1>3. CASE Refusal(input) = "none"
  <2>1. plan' = Planned(input) /\ outcome' = outcome
    BY <1>3 DEF Plan
  <2>2. Count \in Nat \ {0} /\ Planned(input) # <<>>
    BY <1>2, <1>3, PlanCount DEF Count
  <2>3. Count' = Count /\ Wire' = Wire /\ Planned(input)' = Planned(input)
    BY <1>1, ZenonT(30) DEF Count, Wire
  <2>4. PlanInv'
    BY <1>1, <1>2, <1>3, <2>1, <2>2, <2>3, ZenonT(30) DEF PlanInv
  <2>5. /\ 0 \in 0..Count /\ <<>> \in Seq(Wire) /\ Len(<<>>) = 0 /\ 0 # Count /\ 1..0 = {}
        /\ ~(0 < 0)
    BY <2>2, SMTT(30)
  <2>6. WriteInv'
    BY <1>1, <1>2, <2>1, <2>3, <2>5, ZenonT(30) DEF WriteInv
  <2> QED
    BY <2>4, <2>6 DEF WriterInv
<1>4. CASE Refusal(input) # "none"
  <2>1. outcome' = Refusal(input) /\ plan' = plan
    BY <1>4 DEF Plan
  <2>2. outcome' \in {"range", "state"}
    BY <1>4, <2>1 DEF Refusal
  <2>3. PlanInv'
    BY <1>1, <1>2, <2>1, <2>2 DEF PlanInv
  <2>4. WriteInv'
    BY <1>1, <2>1 DEF WriteInv
  <2> QED
    BY <2>3, <2>4 DEF WriterInv
<1> QED
  BY <1>3, <1>4

(* writeDataPlan writes the next fragment; it is never refused.            *)
LEMMA WriteStep ==
  ASSUME WriterInv, WriteFragment
  PROVE  WriterInv'
<1> DEFINE k == next + 1
           f == plan[next + 1]
           final == f.sem.fc \in {"SapSend", "Receive"}
<1>1. /\ outcome = "running" /\ plan # <<>> /\ next < Len(plan)
      /\ setup # "send-barrier-pending" /\ input' = input /\ plan' = plan
  BY DEF WriteFragment
<1>2. /\ input \in Inputs /\ Refusal(input) = "none" /\ plan = Planned(input)
      /\ next \in 0..Count /\ records \in Seq(Wire) /\ Len(records) = next
      /\ \A j \in 1..next : records[j] = Encoded(Planned(input)[j])
      /\ next = 0 => setup = "ready"
      /\ 0 < next /\ next < Count => setup \in {"send-continuation", "send-barrier-pending"}
  BY <1>1 DEF WriterInv, PlanInv, WriteInv
<1>3. Count \in Nat \ {0} /\ Len(plan) = Count
  BY <1>2, PlanCount DEF Count
<1>4. k \in 1..Count /\ k \in Nat /\ (k = 1 <=> next = 0) /\ (k # 1 => 0 < next /\ next < Count)
  BY <1>1, <1>2, <1>3, SMTT(30)
<1>5. setup = IF k = 1 THEN "ready" ELSE "send-continuation"
  BY <1>1, <1>2, <1>4
<1>6. Encodable(f)
  BY <1>2, <1>4, PlannedIsEncodable DEF Count
<1>7. /\ MaySend(setup, f.sem.fc, final)
      /\ k < Count => AfterSent(setup, f.sem.fc, final) \in {"send-continuation", "send-barrier-pending"}
      /\ k = Count => AfterSent(setup, f.sem.fc, final) = "response-pending"
  BY <1>2, <1>4, <1>5, MachineFollows, ZenonT(30) DEF Count
<1>8. /\ setup' = AfterSent(setup, f.sem.fc, final)
      /\ records' = Append(records, Encoded(f))
      /\ next' = k
      /\ outcome' = IF k = Count THEN "sent" ELSE "running"
  BY <1>3, <1>6, <1>7, ZenonT(30) DEF WriteFragment
<1>9. Count' = Count /\ Wire' = Wire /\ Planned(input)' = Planned(input)
  BY <1>1, ZenonT(30) DEF Count, Wire
<1>10. Encoded(f) \in Wire
  BY <1>2, <1>4, ZenonT(30) DEF Wire
<1>11. /\ records' \in Seq(Wire) /\ Len(records') = k /\ records'[k] = Encoded(f)
       /\ \A j \in 1..next : records'[j] = records[j]
  <2> DEFINE app == Append(records, Encoded(f))
  <2> HIDE DEF f
  <2>1. records \in Seq(Wire) /\ Len(records) = next
    BY <1>2
  <2>2. /\ app \in Seq(Wire) /\ Len(app) = Len(records) + 1
        /\ \A j \in 1..Len(records) : app[j] = records[j]
        /\ app[Len(records) + 1] = Encoded(f)
    BY <2>1, <1>10, AppendProperties
  <2>3. records' = app
    BY <1>8
  <2> HIDE DEF app
  <2> QED
    BY <2>1, <2>2, <2>3, ZenonT(30)
<1>12. ASSUME NEW j \in 1..k PROVE records'[j] = Encoded(Planned(input)[j])
  <2>1. j = k \/ j \in 1..next
    BY <1>2, <1>3, SMTT(30)
  <2> QED
    BY <2>1, <1>2, <1>11, ZenonT(30)
<1> HIDE DEF k, f
<1>13. k # 0 /\ (k = Count \/ k < Count) /\ ~(k = Count /\ k < Count) /\ k \in 0..Count
  BY <1>3, <1>4, SMTT(30)
<1>14. PlanInv'
  BY <1>1, <1>2, <1>8, <1>9, ZenonT(30) DEF PlanInv
<1>15. WriteInv'
  <2>1. (next' = Count) <=> outcome' = "sent"
    BY <1>8, ZenonT(30)
  <2>2. next' = Count => setup' = "response-pending"
    BY <1>7, <1>8, ZenonT(30)
  <2>3. 0 < next' /\ next' < Count => setup' \in {"send-continuation", "send-barrier-pending"}
    BY <1>7, <1>8, ZenonT(30)
  <2> QED
    BY <1>8, <1>9, <1>11, <1>12, <1>13, <2>1, <2>2, <2>3, ZenonT(30) DEF WriteInv
<1> QED
  BY <1>14, <1>15 DEF WriterInv

(* The acknowledgement of a barrier: the plan goes on, or is given up.     *)
LEMMA AcknowledgeStep ==
  ASSUME WriterInv, NEW fc, NEW rc, Acknowledge([fc |-> fc, rc |-> rc, final |-> FALSE])
  PROVE  WriterInv'
<1> DEFINE rec == [fc |-> fc, rc |-> rc, final |-> FALSE]
<1>1. /\ outcome = "running" /\ setup = "send-barrier-pending" /\ input' = input
      /\ plan' = plan /\ next' = next /\ records' = records
  BY DEF Acknowledge
<1>2. \/ setup' = "send-continuation" /\ outcome' = outcome
      \/ setup' = setup /\ outcome' = "barrier failed"
  BY <1>1 DEF Acknowledge, AfterReceived, Disposition, Receivable
<1>3. plan # <<>>
  BY <1>1 DEF WriterInv, PlanInv
<1>4. Count' = Count /\ Wire' = Wire /\ Planned(input)' = Planned(input)
  BY <1>1, ZenonT(30) DEF Count, Wire
<1>5. PlanInv'
  BY <1>1, <1>2, <1>3, <1>4, ZenonT(30) DEF WriterInv, PlanInv
<1>6. WriteInv
  BY DEF WriterInv
<1>7. next # Count /\ next # 0
  BY <1>1, <1>3, <1>6, ZenonT(30) DEF WriteInv
<1>8. outcome' # "sent" /\ setup' \in {"send-continuation", "send-barrier-pending"}
  BY <1>1, <1>2
<1>9. WriteInv'
  BY <1>1, <1>3, <1>4, <1>6, <1>7, <1>8, ZenonT(30) DEF WriteInv
<1> QED
  BY <1>5, <1>9 DEF WriterInv

(* A step that changes nothing.                                            *)
LEMMA StutterStep ==
  ASSUME WriterInv, UNCHANGED writerVars
  PROVE  WriterInv'
<1>1. /\ input' = input /\ plan' = plan /\ next' = next /\ setup' = setup
      /\ records' = records /\ outcome' = outcome
  BY DEF writerVars
<1>2. Count' = Count /\ Wire' = Wire
  BY <1>1, ZenonT(30) DEF Count, Wire
<1> QED
  BY <1>1, <1>2, ZenonT(30) DEF WriterInv, PlanInv, WriteInv

(* The inductive invariant of the writer: what it has written is the       *)
(* encoding of the first fragments of the plan, and the setup machine      *)
(* stands where the next one needs it.                                     *)
THEOREM WriterInvariant == WriterSpec => []WriterInv
<1>1. WriterInv /\ [WriterNext]_writerVars => WriterInv'
  BY PlanStep, WriteStep, AcknowledgeStep, StutterStep DEF WriterNext
<1> QED
  BY <1>1, WriterStarts, PTL DEF WriterSpec

-----------------------------------------------------------------------------
(* EncodeOutgoingDataFragment and the setup machine never refuse what      *)
(* PlanOutgoingDataFragments planned.                                      *)
THEOREM PlansCanBeSent == WriterSpec => []PlansAreSendable
<1>1. WriterInv => PlansAreSendable
  BY DEF WriterInv, PlanInv, PlansAreSendable
<1> QED
  BY <1>1, WriterInvariant, PTL

(* What is known of a record that was written.                             *)
LEMMA RecordFacts ==
  ASSUME WriterInv, NEW k \in 1..Len(records)
  PROVE  /\ plan # <<>> /\ input \in Inputs /\ Refusal(input) = "none"
         /\ Count \in Nat \ {0} /\ Len(records) \in 1..Count /\ k \in 1..Count
         /\ records[k] = Encoded(Planned(input)[k])
         /\ records[k].fc = Semantics(k - 1, Count).fc
         /\ records[k].data = Planned(input)[k].data
<1>1. plan # <<>>
  <2>1. CASE plan = <<>>
    <3>1. records = <<>>
      BY <2>1 DEF WriterInv, PlanInv
    <3> QED
      BY <3>1, SMTT(30)
  <2> QED
    BY <2>1
<1>2. input \in Inputs /\ Refusal(input) = "none"
  BY <1>1 DEF WriterInv, PlanInv
<1>3. /\ next \in 0..Count /\ Len(records) = next
      /\ \A j \in 1..next : records[j] = Encoded(Planned(input)[j])
  BY <1>1 DEF WriterInv, WriteInv
<1>4. Count \in Nat \ {0}
  BY <1>2, PlanCount DEF Count
<1>5. k \in 1..Count /\ Len(records) \in 1..Count
  BY <1>3, <1>4, SMTT(30)
<1>6. records[k] = Encoded(Planned(input)[k])
  BY <1>3, ZenonT(30)
<1>7. Planned(input)[k].sem = Semantics(k - 1, Count)
  BY <1>2, <1>5, FragmentFacts, ZenonT(30) DEF Count
<1>8. records[k].fc = Semantics(k - 1, Count).fc /\ records[k].data = Planned(input)[k].data
  BY <1>6, <1>7 DEF Encoded
<1> QED
  BY <1>1, <1>2, <1>4, <1>5, <1>6, <1>8

(* The records carry consecutive slices of the message, and all of it once *)
(* writeDataPlan returns without an error: the bytes on the wire are the   *)
(* message, whatever its length.                                           *)
THEOREM RecordsAreTheMessage == WriterSpec => []SlicesAbut
<1>1. ASSUME WriterInv PROVE SlicesAbut
  <2>1. input.length \in Nat /\ Slice \in Nat \ {0}
    BY <1>1, InputFields, FragmentationAssumption DEF WriterInv, PlanInv
  <2>2. ASSUME NEW k \in 1..Len(records)
        PROVE  /\ records[k].data = [b \in 1..Len(records[k].data) |-> StartOf(input, k) + b]
               /\ StartOf(input, k) + Len(records[k].data) = StartOf(input, k + 1)
    <3>1. /\ input \in Inputs /\ Refusal(input) = "none" /\ k \in 1..FragmentCount(input)
          /\ records[k].data = Planned(input)[k].data
      BY <1>1, RecordFacts DEF Count
    <3>2. LET d == Planned(input)[k].data
          IN  /\ StartOf(input, k) + Len(d) = StartOf(input, k + 1)
              /\ d = [b \in 1..Len(d) |-> StartOf(input, k) + b]
      BY <3>1, FragmentFacts, ZenonT(30)
    <3> QED
      BY <3>1, <3>2, ZenonT(30)
  <2>3. StartOf(input, 1) = 0
    BY <2>1, SMTT(30) DEF StartOf
  <2>4. ASSUME outcome = "sent" PROVE StartOf(input, Len(records) + 1) = input.length
    <3>1. plan # <<>>
      BY <1>1, <2>4 DEF WriterInv, PlanInv
    <3>2. input \in Inputs /\ Refusal(input) = "none"
      BY <1>1, <3>1 DEF WriterInv, PlanInv
    <3>3. Len(records) = Count
      BY <1>1, <2>4, <3>1, ZenonT(30) DEF WriterInv, WriteInv
    <3>4. Count \in Nat \ {0}
      BY <3>2, PlanCount DEF Count
    <3>5. \/ Count = 1 /\ input.length <= Slice
          \/ input.length <= (Count - 1) * Slice
      BY <3>2, PlanShape DEF Count
    <3>6. ((Count + 1) - 1) * Slice = Count * Slice /\ Count * Slice = (Count - 1) * Slice + Slice
      BY <2>1, <3>4, SMTT(30)
    <3>7. Count = 1 => Count * Slice = Slice
      BY <2>1, SMTT(30)
    <3>8. Count * Slice \in Nat /\ (Count - 1) * Slice \in Int
      BY <2>1, <3>4, SMTT(30)
    <3>9. Count * Slice >= input.length
      BY <2>1, <3>5, <3>6, <3>7, <3>8, SMTT(30)
    <3>10. StartOf(input, Count + 1) = IF Count * Slice > input.length THEN input.length ELSE Count * Slice
      BY <3>6, ZenonT(30) DEF StartOf
    <3>11. StartOf(input, Count + 1) = input.length
      BY <2>1, <3>8, <3>9, <3>10, SMTT(30)
    <3> QED
      BY <3>3, <3>11
  <2> QED
    BY <2>2, <2>3, <2>4 DEF SlicesAbut
<1> QED
  BY <1>1, WriterInvariant, PTL

(* The start of a slice lies in the message.                               *)
LEMMA StartInMessage ==
  ASSUME NEW in \in Inputs, NEW k \in Nat \ {0}
  PROVE  StartOf(in, k) \in 0..in.length
<1>1. in.length \in Nat /\ (k - 1) * Slice \in Nat
  BY InputFields, FragmentationAssumption, SMTT(30)
<1> QED
  BY <1>1, SMTT(30) DEF StartOf

(* Slices that abut are, one behind the other, the message from its first  *)
(* byte to the start of the next slice.                                    *)
LEMMA SlicesAreBytes == ASSUME WriterInv, SlicesAbut PROVE BytesAreMessage
<1> DEFINE L == input.length
           Z == [b \in 1..L |-> b]
           N == Len(records)
           cs == [k \in 1..N |-> records[k].data]
           base == [k \in 0..N |-> StartOf(input, k + 1)]
<1>1. input \in Inputs /\ L \in Nat
  BY InputFields DEF WriterInv, PlanInv
<1>2. N \in Nat
  <2>1. CASE plan = <<>>
    <3>1. records = <<>>
      BY <2>1, ZenonT(30) DEF WriterInv, PlanInv
    <3> QED
      BY <3>1, SMTT(30)
  <2>2. CASE plan # <<>>
    BY <2>2, LenProperties, ZenonT(30) DEF WriterInv, WriteInv
  <2> QED
    BY <2>1, <2>2
<1> HIDE DEF N, L
<1>3. Z \in Seq(Nat) /\ Len(Z) = L /\ \A j \in 1..L : Z[j] = j
  BY <1>1, SMTT(30)
<1>4. /\ base \in [0..N -> 0..L] /\ base[0] = 0 /\ base[N] = StartOf(input, N + 1)
      /\ \A i \in 1..N : base[i - 1] = StartOf(input, i) /\ base[i] = StartOf(input, i + 1)
  <2>1. ASSUME NEW k \in 0..N PROVE StartOf(input, k + 1) \in 0..L
    <3>1. k + 1 \in Nat \ {0}
      BY <1>2, SMTT(30)
    <3> QED
      BY <1>1, <3>1, StartInMessage, ZenonT(30) DEF L
  <2>2. /\ 0 \in 0..N /\ 0 + 1 = 1 /\ N \in 0..N
        /\ \A i \in 1..N : i - 1 \in 0..N /\ (i - 1) + 1 = i /\ i \in 0..N
    BY <1>2, SMTT(30)
  <2>3. StartOf(input, 1) = 0
    BY DEF SlicesAbut
  <2>4. base \in [0..N -> 0..L]
    BY <2>1, ZenonT(30)
  <2> QED
    BY <2>2, <2>3, <2>4, ZenonT(30)
<1>5. ASSUME NEW i \in 1..N
      PROVE  cs[i] \in Seq(Nat) /\ base[i - 1] <= base[i] /\ cs[i] = Piece(Z, base[i - 1], base[i])
  <2> DEFINE d == records[i].data
             a == StartOf(input, i)
             b == StartOf(input, i + 1)
  <2>1. cs[i] = d /\ base[i - 1] = a /\ base[i] = b
    BY <1>4, ZenonT(30)
  <2>2. d = [x \in 1..Len(d) |-> a + x] /\ a + Len(d) = b
    BY ZenonT(30) DEF SlicesAbut, N
  <2>3. Len(d) \in 0..Slice /\ Slice \in Nat
    <3>1. /\ input \in Inputs /\ Refusal(input) = "none" /\ i \in 1..FragmentCount(input)
          /\ d = Planned(input)[i].data
      BY RecordFacts, ZenonT(30) DEF Count, N
    <3>2. Len(Planned(input)[i].data) \in 0..Slice
      BY <3>1, FragmentFacts, ZenonT(30)
    <3> QED
      BY <3>1, <3>2, FragmentationAssumption, ZenonT(30)
  <2>4. i \in Nat \ {0} /\ i + 1 \in Nat \ {0}
    BY <1>2, SMTT(30)
  <2>5. a \in 0..L /\ b \in 0..L
    BY <1>1, <2>4, StartInMessage, ZenonT(30) DEF L
  <2> HIDE DEF d, a, b, cs, base, Z
  <2>6. Len(d) \in Nat /\ a \in 0..b /\ Len(d) = b - a
    BY <1>1, <2>2, <2>3, <2>5, SMTT(30)
  <2>7. d \in Seq(Nat) /\ \A j \in 1..(b - a) : d[j] = a + j
    BY <1>1, <2>2, <2>5, <2>6, SMTT(30)
  <2>8. \A j \in 1..(b - a) : Z[a + j] = a + j
    BY <1>1, <1>3, <2>5, SMTT(30)
  <2>9. d = Piece(Z, a, b)
    <3>1. b \in 0..Len(Z) /\ \A j \in 1..(b - a) : d[j] = Z[a + j]
      BY <1>3, <2>5, <2>7, <2>8, ZenonT(30)
    <3>2. Z \in Seq(Nat) /\ d \in Seq(Nat) /\ a \in 0..b /\ Len(d) = b - a
      BY <1>3, <2>6, <2>7
    <3> QED
      BY <3>1, <3>2, PieceIs, ZenonT(30)
  <2>10. a <= b
    BY <1>1, <2>5, <2>6, SMTT(30)
  <2> QED
    BY <2>1, <2>7, <2>9, <2>10, ZenonT(30)
<1>6. cs \in Seq(Seq(Nat)) /\ Len(cs) = N
  <2> DEFINE S == Seq(Nat)
  <2>1. \A i \in 1..N : cs[i] \in S
    BY <1>5, ZenonT(30)
  <2> HIDE DEF S
  <2>2. cs = [i \in 1..N |-> cs[i]]
    OBVIOUS
  <2>3. cs \in Seq(S) /\ Len(cs) = N
    <3> HIDE DEF cs
    <3> QED
      BY <1>2, <2>1, <2>2, SMTT(30)
  <2> QED
    BY <2>3 DEF S
<1> DEFINE w == FlattenSeq(cs)
<1> HIDE DEF cs, base, Z
<1>7. w = Piece(Z, 0, base[N])
  <2>1. Lay(cs, base, Z)
    BY <1>3, <1>4, <1>5, <1>6, ZenonT(30) DEF Lay
  <2>2. cs \in Rows(Nat)
    BY <1>6 DEF Rows
  <2> QED
    BY <1>3, <1>4, <1>6, <2>1, <2>2, FlattenIs, ZenonT(30)
<1>8. w \in Seq(Nat) /\ Len(w) = base[N] /\ \A j \in 1..base[N] : w[j] = j
  <2> DEFINE t == base[N]
  <2>1. t \in 0..L /\ t \in 0..Len(Z) /\ 0 \in 0..t
    <3>1. t \in 0..L
      BY <1>2, <1>4, SMTT(30)
    <3> HIDE DEF t
    <3> QED
      BY <1>1, <1>3, <3>1, SMTT(30)
  <2> HIDE DEF t
  <2>2. /\ Piece(Z, 0, t) \in Seq(Nat) /\ Len(Piece(Z, 0, t)) = t - 0
        /\ \A j \in 1..(t - 0) : Piece(Z, 0, t)[j] = Z[0 + j]
    BY <1>3, <2>1, PieceFacts, ZenonT(30)
  <2>3. t - 0 = t /\ \A j \in 1..t : 0 + j = j /\ j \in 1..L
    BY <1>1, <2>1, SMTT(30)
  <2>4. w = Piece(Z, 0, t)
    BY <1>7 DEF t
  <2> HIDE DEF w
  <2>5. w \in Seq(Nat) /\ Len(w) = t /\ \A j \in 1..t : w[j] = j
    BY <1>3, <2>2, <2>3, <2>4, SMTT(30)
  <2> QED
    BY <2>5 DEF t
<1>9. w = [b \in 1..Len(w) |-> b]
  <2> HIDE DEF w
  <2>1. Len(w) \in Nat /\ w = [b \in 1..Len(w) |-> w[b]]
    BY <1>8, SMTT(30)
  <2> QED
    BY <1>8, <2>1, ZenonT(30)
<1>10. outcome = "sent" => Len(w) = L
  BY <1>4, <1>8, ZenonT(30) DEF SlicesAbut, N, L
<1> QED
  BY <1>9, <1>10 DEF BytesAreMessage, w, cs, N, L

(* Streaming is used only where it is enabled and needed.                  *)
THEOREM StreamingIsAllowed == WriterSpec => []StreamsOnlyWhenAllowed
<1>1. ASSUME WriterInv, NEW k \in 1..Len(records), records[k].fc # "SapSend"
      PROVE  input.streaming /\ input.length > Slice
  <2>1. /\ input \in Inputs /\ Refusal(input) = "none" /\ Count \in Nat \ {0} /\ k \in 1..Count
        /\ records[k].fc = Semantics(k - 1, Count).fc
    BY <1>1, RecordFacts
  <2>2. k - 1 \in 0..(Count - 1)
    BY <2>1, SMTT(30)
  <2>3. Count # 1
    BY <1>1, <2>1, <2>2, SemanticsFacts, ZenonT(30)
  <2> QED
    BY <2>1, <2>3, PlanShape DEF Count
<1>2. WriterInv => StreamsOnlyWhenAllowed
  BY <1>1 DEF StreamsOnlyWhenAllowed
<1> QED
  BY <1>2, WriterInvariant, PTL

(* A barrier comes in time: never more than AsyncSends records without one.*)
THEOREM BarriersComeInTime == WriterSpec => []BarrierInTime
<1>1. ASSUME WriterInv, NEW i \in 1..Len(records), NEW j \in i..Len(records),
             \A k \in i..j : records[k].fc = "AsyncSendData"
      PROVE  j - i + 1 <= AsyncSends
  <2>1. AsyncSends \in Nat \ {0} /\ Count \in Nat \ {0} /\ Len(records) \in 1..Count
    BY <1>1, RecordFacts, FragmentationAssumption
  <2>2. i \in Nat /\ j \in Nat /\ i - 1 \in Nat
    BY <2>1, SMTT(30)
  <2> SUFFICES ASSUME ~(j - i + 1 <= AsyncSends) PROVE FALSE
    OBVIOUS
  <2>3. PICK m \in (i - 1)..(i - 1 + AsyncSends) : m >= AsyncSends /\ (m - AsyncSends) % AsyncSends = 0
    BY <2>1, <2>2, BarrierIndex, ZenonT(30)
  <2>4. m + 1 \in i..j /\ m + 1 \in 1..Len(records) /\ m \in 0..(Count - 1) /\ m = (m + 1) - 1
    BY <2>1, <2>2, SMTT(30)
  <2>5. records[m + 1].fc = Semantics(m, Count).fc
    <3>1. records[m + 1].fc = Semantics((m + 1) - 1, Count).fc
      BY <1>1, <2>4, RecordFacts, ZenonT(30)
    <3> QED
      BY <2>4, <3>1, ZenonT(30)
  <2>6. Semantics(m, Count).fc # "AsyncSendData"
    BY <2>1, <2>3, <2>4, SemanticsFacts, ZenonT(30)
  <2> QED
    BY <1>1, <2>4, <2>5, <2>6, ZenonT(30)
<1>2. WriterInv => BarrierInTime
  BY <1>1 DEF BarrierInTime
<1> QED
  BY <1>2, WriterInvariant, PTL

(* Once all is sent the machine waits for the reply, the partner has been  *)
(* told so, and every record before declared the data it carried.          *)
THEOREM SenderAwaitsReply == WriterSpec => []SentAwaitsReply
<1>1. ASSUME WriterInv, outcome = "sent" PROVE SentAwaitsReply
  <2>1. plan # <<>>
    BY <1>1 DEF WriterInv, PlanInv
  <2>2. input \in Inputs /\ Refusal(input) = "none"
    BY <1>1, <2>1 DEF WriterInv, PlanInv
  <2>3. Len(records) = Count /\ setup = "response-pending"
    BY <1>1, <2>1, ZenonT(30) DEF WriterInv, WriteInv
  <2>4. Count \in Nat \ {0}
    BY <2>2, PlanCount DEF Count
  <2>5. Last(records).fc = IF Len(records) = 1 THEN "SapSend" ELSE "Receive"
    <3>1. Count \in 1..Len(records) /\ Count - 1 \in 0..(Count - 1) /\ (Count # 1 => Count > 1)
      BY <2>3, <2>4, SMTT(30)
    <3>2. records[Count].fc = Semantics(Count - 1, Count).fc
      BY <1>1, <3>1, RecordFacts, ZenonT(30)
    <3>3. Last(records) = records[Count]
      BY <2>3 DEF Last
    <3> QED
      BY <2>3, <2>4, <3>1, <3>2, <3>3, SemanticsFacts, ZenonT(30)
  <2>6. ASSUME NEW k \in 1..(Len(records) - 1)
        PROVE  records[k].declared = Len(records[k].data) /\ records[k].data # <<>>
    <3>1. k \in 1..Len(records) /\ k < Count /\ Count > 1 /\ k - 1 \in 0..(Count - 1) /\ k - 1 < Count - 1
      BY <2>3, <2>4, SMTT(30)
    <3>2. /\ k \in 1..FragmentCount(input) /\ records[k] = Encoded(Planned(input)[k])
          /\ records[k].fc = Semantics(k - 1, Count).fc
          /\ records[k].data = Planned(input)[k].data
      BY <1>1, <3>1, RecordFacts, ZenonT(30) DEF Count
    <3>3. Len(Planned(input)[k].data) >= 1
      BY <2>2, <3>1, <3>2, FragmentFacts, ZenonT(30) DEF Count
    <3>4. records[k].fc \in {"SendData", "AsyncSendData"}
      BY <2>4, <3>1, <3>2, SemanticsFacts, ZenonT(30)
    <3>5. records[k].declared = Len(records[k].data)
      BY <3>2, <3>4 DEF Encoded
    <3>6. Planned(input)[k].data # <<>>
      BY <3>3, SMTT(30)
    <3> QED
      BY <3>2, <3>5, <3>6
  <2> QED
    BY <2>3, <2>5, <2>6 DEF SentAwaitsReply
<1>2. WriterInv => SentAwaitsReply
  BY <1>1 DEF SentAwaitsReply
<1> QED
  BY <1>2, WriterInvariant, PTL

(* What writeDataPlan puts on the wire is the message, byte for byte, for  *)
(* messages, slices and barrier intervals of any size.                     *)
THEOREM WireCarriesMessage == WriterSpec => []WireIsMessage
<1>1. WriterInv /\ SlicesAbut => BytesAreMessage
  BY SlicesAreBytes
<1>2. BytesAreMessage /\ SlicesAbut /\ SentAwaitsReply /\ StreamsOnlyWhenAllowed
        /\ PlansAreSendable /\ BarrierInTime => WireIsMessage
  BY DEF WireIsMessage
<1> QED
  BY <1>1, <1>2, WriterInvariant, RecordsAreTheMessage, SenderAwaitsReply, StreamingIsAllowed,
     PlansCanBeSent, BarriersComeInTime, PTL

-------------------------------------------------------------------------------
(* AdtHandler: what its variables hold.                                    *)
Statuses == {"none", "ok", "refused", "required"}

AdtTypeOK ==
  /\ token \in Nat /\ jar \in Nat /\ fetched \in Nat /\ attempt \in {0, 1, 2}
  /\ at \in {"idle", "send", "HEAD", "GET", "do", "answered"}
  /\ method \in {"modifying", "reading"}
  /\ answer \in [status : Statuses, token : Nat]
  /\ returned \in {"nothing", "error"} \cup Statuses
  /\ backend \in [protected : BOOLEAN, mints : {"HEAD", "GET", "never"}, session : Nat, started : Nat]
  /\ dropped \in BOOLEAN

(* The backend has judged the request only when it answered with a verdict, *)
(* or when the handler has given up.                                       *)
JudgedInv ==
  /\ judged \in {0, 1}
  /\ at \in {"send", "HEAD", "GET", "do"} => judged = 0
  /\ at = "answered" /\ answer.status = "required" => judged = 0

(* The second attempt starts without a token, and if the backend mints any *)
(* then the one it puts on the request is that of the jar's session, for   *)
(* as long as the backend has that session.                                *)
Covered == jar # 0 /\ backend.session = jar /\ fetched = jar
SecondInv ==
  /\ at # "idle" => returned = "nothing" /\ attempt \in {1, 2}
  /\ at \in {"HEAD", "GET"} => method = "modifying"
  /\ attempt = 2 /\ at = "send" => token = 0
  /\ at = "GET" => backend.mints # "HEAD"
  /\ attempt = 2 /\ at = "do" /\ method = "modifying" => backend.mints = "never" \/ dropped \/ Covered
  /\ attempt = 2 /\ at = "answered" /\ answer.status = "required" => backend.mints = "never" \/ dropped

AdtInv == AdtTypeOK /\ JudgedInv /\ SecondInv /\ RefusalIsLasting

USE SMTT(30)

-------------------------------------------------------------------------------
(* The session that an exchange is made in.                                *)
LEMMA SessionFacts ==
  ASSUME AdtTypeOK, NEW s \in Sessions
  PROVE  /\ s \in Nat \ {0}
         /\ jar = backend.session /\ jar # 0 => s = jar
<1>1. backend.session \in Nat /\ backend.started \in Nat /\ jar \in Nat
  BY DEF AdtTypeOK
<1> QED
  BY <1>1 DEF Sessions

(* What its answer does to jar and backend.                                *)
LEMMA InSessionFacts ==
  ASSUME AdtTypeOK, NEW s \in Nat, InSession(s)
  PROVE  /\ jar' = s /\ jar' \in Nat /\ backend'.session = s /\ backend'.mints = backend.mints
         /\ backend' \in [protected : BOOLEAN, mints : {"HEAD", "GET", "never"}, session : Nat, started : Nat]
<1> DEFINE n == IF s > backend.started THEN s ELSE backend.started
<1>1. backend' = [backend EXCEPT !.session = s, !.started = n] /\ jar' = s
  BY DEF InSession
<1>2. n \in Nat /\ backend \in [protected : BOOLEAN, mints : {"HEAD", "GET", "never"}, session : Nat, started : Nat]
  BY DEF AdtTypeOK
<1> HIDE DEF n
<1> QED
  BY <1>1, <1>2, ZenonT(30)

(* Every step of the handler and of the backend keeps the invariant.       *)
LEMMA AdtSteps == AdtInv /\ [AdtNext]_adtVars => AdtInv'
<1> SUFFICES ASSUME AdtInv, [AdtNext]_adtVars
             PROVE  AdtInv'
  OBVIOUS
<1>0. AdtTypeOK /\ JudgedInv /\ SecondInv /\ RefusalIsLasting
  BY DEF AdtInv
<1>1. CASE UNCHANGED adtVars
  BY <1>0, <1>1 DEF adtVars, handlerVars, AdtInv, AdtTypeOK, JudgedInv, SecondInv, Covered, RefusalIsLasting
<1>2. CASE Drop
  <2>1. /\ UNCHANGED <<token, jar, at, method, attempt, fetched, answer, returned, requests, judged>> /\ dropped' = TRUE
        /\ backend' = [backend EXCEPT !.session = 0]
    BY <1>2 DEF Drop, handlerVars
  <2>2. /\ backend' \in [protected : BOOLEAN, mints : {"HEAD", "GET", "never"}, session : Nat, started : Nat]
        /\ backend'.mints = backend.mints
    BY <1>0, <2>1 DEF AdtTypeOK
  <2>3. AdtTypeOK'
    BY <1>0, <2>1, <2>2 DEF AdtTypeOK
  <2>4. JudgedInv' /\ SecondInv' /\ RefusalIsLasting'
    BY <1>0, <2>1, <2>2 DEF JudgedInv, SecondInv, RefusalIsLasting
  <2> QED
    BY <2>3, <2>4 DEF AdtInv
<1>3. CASE Invoke
  <2>1. AdtTypeOK'
    <3>1. 1 \in {0, 1, 2}
      OBVIOUS
    <3> QED
      BY <1>0, <1>3, <3>1, ZenonT(30) DEF Invoke, AdtTypeOK
  <2>2. /\ judged' = 0 /\ attempt' = 1
        /\ \/ at' = "send" /\ returned' = "nothing"
           \/ at' = "idle" /\ returned' = "error"
    BY <1>3, ZenonT(30) DEF Invoke
  <2>3. JudgedInv' /\ SecondInv' /\ RefusalIsLasting'
    BY <2>2 DEF JudgedInv, SecondInv, RefusalIsLasting
  <2> QED
    BY <2>1, <2>3 DEF AdtInv
<1>4. CASE Send
  BY <1>0, <1>4 DEF Send, AdtInv, AdtTypeOK, JudgedInv, SecondInv, Covered, RefusalIsLasting
<1>5. CASE Probe
  <2>1. PICK s \in Sessions : InSession(s) /\ Probed(s)
    BY <1>5 DEF Probe
  <2>2. /\ at \in {"HEAD", "GET"}
        /\ UNCHANGED <<method, attempt, answer, returned, requests, judged, dropped>>
    BY <1>5 DEF Probe
  <2>3. /\ jar' = s /\ jar' \in Nat /\ backend'.session = s /\ backend'.mints = backend.mints /\ s \in Nat \ {0}
        /\ backend' \in [protected : BOOLEAN, mints : {"HEAD", "GET", "never"}, session : Nat, started : Nat]
    BY <1>0, <2>1, SessionFacts, InSessionFacts
  <2>4. /\ backend.mints \in {"HEAD", "GET", "never"}
        /\ token' \in Nat /\ fetched' \in Nat /\ at' \in {"GET", "do"}
        /\ at' = "GET" => at = "HEAD" /\ backend.mints # "HEAD"
        /\ at' = "do" /\ backend.mints # "never" => fetched' = s
    BY <1>0, <2>1, <2>2, <2>3 DEF Probed, AdtTypeOK, SecondInv
  <2>5. AdtTypeOK'
    BY <1>0, <2>2, <2>3, <2>4 DEF AdtTypeOK
  <2>6. JudgedInv' /\ SecondInv' /\ RefusalIsLasting'
    BY <1>0, <2>2, <2>3, <2>4 DEF JudgedInv, SecondInv, Covered, RefusalIsLasting
  <2> QED
    BY <2>5, <2>6 DEF AdtInv
<1>6. CASE ProbeFails
  BY <1>0, <1>6 DEF ProbeFails, Fail, AdtInv, AdtTypeOK, JudgedInv, SecondInv, RefusalIsLasting
<1>7. CASE Do
  <2>1. PICK s \in Sessions, status \in {"ok", "refused", "required"} : Exchange(s, status)
    BY <1>7 DEF Do
  <2>2. /\ at = "do" /\ at' = "answered"
        /\ UNCHANGED <<token, method, attempt, fetched, returned, requests, dropped>>
    BY <1>7 DEF Do
  <2>3. s \in Nat \ {0} /\ (jar = backend.session /\ jar # 0 => s = jar) /\ backend.started + 1 \in Nat
    BY <1>0, SessionFacts DEF AdtTypeOK
  <2>4. /\ \E n \in Nat : InSession(n)
        /\ \E n \in Nat : answer' = [status |-> status, token |-> n]
        /\ status = "required" => ~Passes(s) /\ judged' = judged
        /\ judged' \in {judged, judged + 1}
    BY <2>1, <2>3 DEF Exchange
  <2>5. /\ jar' \in Nat /\ backend'.mints = backend.mints
        /\ backend' \in [protected : BOOLEAN, mints : {"HEAD", "GET", "never"}, session : Nat, started : Nat]
    BY <1>0, <2>4, InSessionFacts
  <2>6. answer' \in [status : Statuses, token : Nat] /\ answer'.status = status
    BY <2>4 DEF Statuses
  <2>7. status = "required" /\ attempt = 2 => backend.mints = "never" \/ dropped
    BY <1>0, <2>2, <2>3, <2>4 DEF SecondInv, Covered, Passes, AdtTypeOK
  <2>8. AdtTypeOK'
    BY <1>0, <2>2, <2>5, <2>6 DEF AdtTypeOK
  <2>9. JudgedInv' /\ SecondInv' /\ RefusalIsLasting'
    BY <1>0, <2>2, <2>4, <2>5, <2>6, <2>7 DEF JudgedInv, SecondInv, RefusalIsLasting
  <2> QED
    BY <2>8, <2>9 DEF AdtInv
<1>8. CASE DoFails
  <2>1. judged' \in {judged, judged + 1}
    BY <1>8 DEF DoFails
  <2> QED
    BY <1>0, <1>8, <2>1 DEF DoFails, Fail, AdtInv, AdtTypeOK, JudgedInv, SecondInv, RefusalIsLasting
<1>9. CASE Retry
  <2>1. /\ at = "answered" /\ answer.status = "required" /\ at' = "send" /\ attempt' = 2 /\ token' = 0
        /\ UNCHANGED <<returned, judged>>
    BY <1>9, ZenonT(30) DEF Retry, Again, WantsToken
  <2>2. AdtTypeOK'
    <3>1. 0 \in Nat /\ 2 \in {0, 1, 2}
      OBVIOUS
    <3> QED
      BY <1>0, <1>9, <3>1, ZenonT(30) DEF Retry, Again, AdtTypeOK
  <2>3. JudgedInv' /\ SecondInv' /\ RefusalIsLasting'
    BY <1>0, <2>1 DEF JudgedInv, SecondInv, RefusalIsLasting
  <2> QED
    BY <2>2, <2>3 DEF AdtInv
<1>10. CASE Deliver
  <2>1. answer.status \in Statuses /\ answer.token \in Nat
    BY <1>0 DEF AdtTypeOK
  <2> QED
    BY <1>0, <1>10, <2>1 DEF Deliver, WantsToken, AdtInv, AdtTypeOK, JudgedInv, SecondInv, RefusalIsLasting
<1> QED
  BY <1>1, <1>2, <1>3, <1>4, <1>5, <1>6, <1>7, <1>8, <1>9, <1>10 DEF AdtNext

(* The handler of a conversation that has made no call.                    *)
LEMMA AdtStarts == AdtInit => AdtInv
<1> SUFFICES ASSUME AdtInit
             PROVE  AdtInv
  OBVIOUS
<1>1. /\ backend \in [protected : BOOLEAN, mints : {"HEAD", "GET", "never"}, session : Nat, started : Nat]
      /\ answer \in [status : Statuses, token : Nat]
  BY DEF AdtInit, None, Statuses
<1>2. AdtTypeOK
  <2>1. 0 \in Nat
    OBVIOUS
  <2> QED
    BY <1>1, <2>1, ZenonT(30) DEF AdtInit, AdtTypeOK
<1>3. at = "idle" /\ judged = 0 /\ returned = "nothing"
  BY ZenonT(30) DEF AdtInit
<1> QED
  BY <1>2, <1>3 DEF AdtInv, JudgedInv, SecondInv, RefusalIsLasting

(* The invariant holds of every conversation.                              *)
THEOREM AdtInvariant == AdtSpec => []AdtInv
<1> QED
  BY AdtStarts, AdtSteps, PTL DEF AdtSpec

(* The backend judges a call's request at most once: handle's retry is     *)
(* reached only through wantsCSRFToken, and an answer for which that holds *)
(* was given before the request was looked at.                             *)
THEOREM RequestIsJudgedOnce == AdtSpec => []JudgedOnce
<1>1. AdtInv => JudgedOnce
  BY DEF AdtInv, JudgedInv, JudgedOnce
<1> QED
  BY <1>1, AdtInvariant, PTL

(* "X-CSRF-Token: Required" reaches the caller only if the backend mints   *)
(* no token or drops its session during the second attempt.                *)
THEOREM StaleTokenIsReplaced == AdtSpec => []RefusalIsLasting
<1>1. AdtInv => RefusalIsLasting
  BY DEF AdtInv
<1> QED
  BY <1>1, AdtInvariant, PTL

-------------------------------------------------------------------------------
(* ServeConscious.                                                         *)

(* A frame that the client waits for an answer to.                         *)
Asks(f) == f.kind = "data" => Final(f.piece)

(* The client speaks and is answered in turn: whatever asks for an answer  *)
(* is the last frame on its way, and the only answer under way is to it.   *)
TurnInv ==
  /\ \A i \in 1..Len(inbox) : Asks(inbox[i]) => i = Len(inbox) /\ client.waits = inbox[i].kind
  /\ outbox # <<>> => inbox = <<>> /\ Len(outbox) = 1 /\ client.waits # "nothing"

(* What ends a good logon proves the client, and what the gate guards      *)
(* happens to a proven one only.                                           *)
Good(f) == f.kind = "data" /\ Final(f.piece) /\ f.piece.what = "good logon"
Guarded == dispatcher.auth /\ (eclipse \/ accepts > 0 \/ invoked # <<>>) => client.proven
GateInv == (\A i \in 1..Len(inbox) : Good(inbox[i]) => client.proven) /\ Guarded

(* Client and server agree on the conversation, but for the exchange that  *)
(* opens another.                                                          *)
ConvInv ==
  /\ client.waits \notin {"initialize", "cpicinit"} => conv = client.conv
  /\ client.waits \in {"initialize", "data"} /\ outbox # <<>> => outbox[1].conv = conv
  /\ client.waits = "cpicinit" => client.conv = ClientConv /\ (outbox # <<>> => conv = ClientConv)

(* As long as the client has abandoned nothing, what the server holds and  *)
(* what is on its way are the pieces sent so far of one message.           *)
InStep ==
  /\ pending # <<>> => Len(pending) < client.message.of
  /\ client.waits \notin Controls =>
       /\ \A i \in 1..Len(pending) : pending[i] = Part(i)
       /\ \A j \in 1..Len(inbox) : inbox[j] = [kind |-> "data", piece |-> Part(Len(pending) + j)]
       /\ Sending \/ inbox # <<>> \/ pending # <<>> => Len(pending) + Len(inbox) = client.message.part
  /\ client.waits \in Controls =>
       pending = <<>> /\ \A j \in 1..Len(inbox) : inbox[j].kind # "data"
MessageInv ==
  /\ client.message.part <= client.message.of
  /\ client.waits # "nothing" => ~Sending
  /\ open /\ ~client.abandoned => InStep

ServeInv == TypeOK /\ TurnInv /\ GateInv /\ ConvInv /\ MessageInv /\ PendingIsSound

-------------------------------------------------------------------------------
(* The sorts of frames and answers.                                        *)
LEMMA Sorts ==
  /\ \A f \in Frames : /\ f.kind \in Controls \cup {"data"}
                       /\ f.kind = "data" => f.piece \in Pieces
  /\ \A k \in Controls : [kind |-> k] \in Frames /\ k # "data" /\ k # "nothing"
  /\ \A x \in Pieces : [kind |-> "data", piece |-> x] \in Frames
  /\ <<>> \in Seq(Frames) /\ <<>> \in Seq(Replies) /\ <<>> \in Seq(Pieces)
  /\ ClientConv \in Nat
<1>1. /\ \A f \in Frames : /\ f.kind \in Controls \cup {"data"}
                           /\ f.kind = "data" => f.piece \in Pieces
      /\ \A k \in Controls : [kind |-> k] \in Frames /\ k # "data" /\ k # "nothing"
      /\ \A x \in Pieces : [kind |-> "data", piece |-> x] \in Frames
  BY DEF Frames, Controls
<1> QED
  BY <1>1, EmptySeq, ServeConsciousAssumption DEF ClientConv

(* What the loop takes is the first frame.                                 *)
LEMMA TookFacts ==
  ASSUME TypeOK, NEW k, Took(k)
  PROVE  /\ open /\ inbox # <<>> /\ inbox[1].kind = k /\ inbox[1] \in Frames /\ Head(inbox) = inbox[1]
         /\ Len(inbox) \in Nat \ {0} /\ inbox' \in Seq(Frames) /\ Len(inbox') = Len(inbox) - 1
         /\ \A i \in 1..Len(inbox') : inbox'[i] = inbox[i + 1]
         /\ Len(inbox) = 1 => inbox' = <<>>
<1>1. inbox \in Seq(Frames)
  BY DEF TypeOK
<1> QED
  BY <1>1, TailFacts DEF Took

(* What a last record completes.                                           *)
LEMMA CompletesFacts ==
  ASSUME TypeOK, Completes(Joined)
  PROVE  /\ Took("data") /\ ~OverLimit /\ Final(inbox[1].piece) /\ inbox[1].piece \in Pieces
         /\ Joined = Append(pending, inbox[1].piece) /\ Joined \in Seq(Pieces)
         /\ Len(pending) \in Nat /\ Len(Joined) = Len(pending) + 1
         /\ \A i \in 1..Len(pending) : Joined[i] = pending[i]
         /\ Joined[Len(pending) + 1] = inbox[1].piece
         /\ pending' = <<>>
<1>1. Took("data") /\ ~OverLimit /\ Final(Head(inbox).piece) /\ pending' = <<>>
  BY DEF Completes
<1>2. inbox[1].piece \in Pieces /\ Head(inbox) = inbox[1] /\ inbox # <<>> /\ inbox[1].kind = "data"
  BY <1>1, TookFacts, Sorts
<1>3. Joined = Append(pending, inbox[1].piece)
  BY <1>2 DEF Joined
<1>4. pending \in Seq(Pieces)
  BY DEF TypeOK
<1> QED
  BY <1>1, <1>2, <1>3, <1>4, AppendFacts

Clients == [here : BOOLEAN, waits : {"nothing", "data"} \cup Controls,
            message : Pieces \cup {NoMessage}, controls : Nat, conv : Nat,
            abandoned : BOOLEAN, proven : BOOLEAN]

(* The fields of the client, and of a piece of its message.                *)
LEMMA ClientFields ==
  ASSUME TypeOK
  PROVE  /\ client \in Clients
         /\ client.here \in BOOLEAN /\ client.abandoned \in BOOLEAN /\ client.proven \in BOOLEAN
         /\ client.waits \in {"nothing", "data"} \cup Controls
         /\ client.controls \in Nat /\ client.conv \in Nat
         /\ client.message \in Pieces \cup {NoMessage}
         /\ client.message.part \in Nat \ {0} /\ client.message.of \in Nat \ {0}
<1>1. client \in Clients
  BY DEF TypeOK, Clients
<1>2. /\ client.here \in BOOLEAN /\ client.abandoned \in BOOLEAN /\ client.proven \in BOOLEAN
      /\ client.waits \in {"nothing", "data"} \cup Controls
      /\ client.controls \in Nat /\ client.conv \in Nat
      /\ client.message \in Pieces \cup {NoMessage}
  BY <1>1, ZenonT(30) DEF Clients
<1>3. client.message.part \in Nat \ {0} /\ client.message.of \in Nat \ {0}
  BY <1>2, ServeConsciousAssumption DEF Pieces, NoMessage
<1> QED
  BY <1>1, <1>2, <1>3

(* The pieces of one message differ in their number only.                  *)
LEMMA PartFacts ==
  ASSUME TypeOK, NEW k \in 1..client.message.of
  PROVE  /\ Part(k) \in Pieces \cup {NoMessage}
         /\ client.message \in Pieces => Part(k) \in Pieces
         /\ Part(k).part = k /\ Part(k).of = client.message.of
         /\ Part(k).what = client.message.what /\ Part(k).msg = client.message.msg
         /\ \A j : [Part(k) EXCEPT !.part = j] = Part(j)
<1>1. client.message \in Pieces \cup {NoMessage}
  BY ClientFields
<1>2. client.message \in Pieces => k \in 1..MaxPieces
  BY ServeConsciousAssumption DEF Pieces
<1>3. NoMessage \in [what : Contents, msg : {0}, part : {1}, of : {1}]
  BY DEF NoMessage, Contents
<1>4. client.message = NoMessage => k = 1
  BY DEF NoMessage
<1>5. client.message \in [what : Contents, msg : 1..MaxMessages \cup {0}, part : 1..MaxPieces \cup {1},
                          of : 1..MaxPieces \cup {1}]
  BY <1>1, <1>3, ZenonT(30) DEF Pieces
<1>6. /\ Part(k).part = k /\ Part(k).of = client.message.of
      /\ Part(k).what = client.message.what /\ Part(k).msg = client.message.msg
  BY <1>5, ZenonT(30) DEF Part
<1>9. ASSUME NEW j PROVE [Part(k) EXCEPT !.part = j] = Part(j)
  BY <1>5, ZenonT(30) DEF Part
<1>7. client.message \in Pieces => Part(k) \in Pieces
  BY <1>2, ZenonT(30) DEF Part, Pieces
<1>8. client.message = NoMessage => Part(k) = NoMessage
  <2>1. [NoMessage EXCEPT !.part = 1] = NoMessage
    BY SMT DEF NoMessage
  <2> QED
    BY <1>4, <2>1 DEF Part
<1> QED
  BY <1>1, <1>6, <1>7, <1>8, <1>9

(* What the client sends.                                                  *)
LEMMA ControlsFacts ==
  ASSUME TypeOK, ClientControls
  PROVE  \E kind \in Controls :
           /\ ClientReady /\ (Sending => kind = "initialize")
           /\ inbox' = Append(inbox, [kind |-> kind]) /\ [kind |-> kind] \in Frames
           /\ client' \in Clients
           /\ client'.here = client.here /\ client'.waits = kind /\ client'.proven = client.proven
           /\ client'.conv = (IF kind = "cpicinit" THEN ClientConv ELSE client.conv)
           /\ client'.abandoned = (client.abandoned \/ Sending)
           /\ client'.message = Part(client.message.of)
           /\ UNCHANGED <<serverVars, outbox>>
<1>1. PICK kind \in Controls :
        /\ ClientReady /\ (Sending => kind = "initialize")
        /\ inbox' = Append(inbox, [kind |-> kind])
        /\ client' = [client EXCEPT
             !.controls = @ + 1,
             !.waits = kind,
             !.conv = IF kind = "cpicinit" THEN ClientConv ELSE @,
             !.abandoned = @ \/ Sending,
             !.message = Part(client.message.of)]
        /\ UNCHANGED <<serverVars, outbox>>
  BY ZenonT(30) DEF ClientControls
<1>2. client.controls + 1 \in Nat /\ client.message.of \in 1..client.message.of /\ ClientConv \in Nat
  BY ClientFields, Sorts
<1>3. Part(client.message.of) \in Pieces \cup {NoMessage}
  BY <1>2, PartFacts
<1>4. (IF kind = "cpicinit" THEN ClientConv ELSE client.conv) \in Nat
  BY <1>2, ClientFields
<1>5. client' \in Clients
  BY <1>1, <1>2, <1>3, <1>4, ClientFields, ZenonT(30) DEF Clients
<1>6. /\ client'.here = client.here /\ client'.waits = kind /\ client'.proven = client.proven
      /\ client'.conv = (IF kind = "cpicinit" THEN ClientConv ELSE client.conv)
      /\ client'.abandoned = (client.abandoned \/ Sending)
      /\ client'.message = Part(client.message.of)
  BY <1>1, ClientFields, ZenonT(30) DEF Clients
<1>7. [kind |-> kind] \in Frames
  BY Sorts
<1> QED
  BY <1>1, <1>5, <1>6, <1>7, ZenonT(30)

(* The client sends the next piece of its message, or the first of one.    *)
LEMMA SendsFacts ==
  ASSUME TypeOK, ClientSends
  PROVE  \E piece \in Pieces :
           /\ ClientReady
           /\ IF Sending THEN piece = Part(client.message.part + 1) ELSE piece.part = 1
           /\ inbox' = Append(inbox, [kind |-> "data", piece |-> piece])
           /\ [kind |-> "data", piece |-> piece] \in Frames
           /\ client' \in Clients
           /\ client'.here = client.here /\ client'.message = piece
           /\ client'.conv = client.conv /\ client'.abandoned = client.abandoned
           /\ client'.waits = (IF Final(piece) THEN "data" ELSE "nothing")
           /\ client'.proven = (client.proven \/ (Final(piece) /\ piece.what = "good logon"))
           /\ UNCHANGED <<serverVars, outbox>>
<1>1. PICK piece \in Pieces :
        /\ ClientReady
        /\ IF Sending THEN piece = Part(client.message.part + 1)
                      ELSE piece.msg = client.message.msg + 1 /\ piece.part = 1
        /\ inbox' = Append(inbox, [kind |-> "data", piece |-> piece])
        /\ client' = [client EXCEPT
             !.message = piece,
             !.waits = IF Final(piece) THEN "data" ELSE "nothing",
             !.proven = @ \/ (Final(piece) /\ piece.what = "good logon")]
        /\ UNCHANGED <<serverVars, outbox>>
  BY ZenonT(30) DEF ClientSends
<1>2. client' \in Clients
  BY <1>1, ClientFields, ZenonT(30) DEF Clients
<1>3. /\ client'.here = client.here /\ client'.message = piece
      /\ client'.conv = client.conv /\ client'.abandoned = client.abandoned
      /\ client'.waits = (IF Final(piece) THEN "data" ELSE "nothing")
      /\ client'.proven = (client.proven \/ (Final(piece) /\ piece.what = "good logon"))
  BY <1>1, ClientFields, ZenonT(30) DEF Clients
<1>4. [kind |-> "data", piece |-> piece] \in Frames
  BY Sorts
<1> QED
  BY <1>1, <1>2, <1>3, <1>4, ZenonT(30)

(* What the client reads.                                                  *)
LEMMA ReadsFacts ==
  ASSUME TypeOK, ClientReads
  PROVE  /\ outbox # <<>> /\ outbox' = Tail(outbox)
         /\ outbox' \in Seq(Replies) /\ Len(outbox') = Len(outbox) - 1 /\ Len(outbox) \in Nat \ {0}
         /\ client' \in Clients
         /\ client'.here = client.here /\ client'.message = client.message
         /\ client'.abandoned = client.abandoned /\ client'.proven = client.proven
         /\ client'.waits = "nothing"
         /\ client'.conv = (IF client.waits = "initialize" THEN outbox[1].conv ELSE client.conv)
         /\ UNCHANGED <<serverVars, inbox>>
<1>1. /\ outbox # <<>> /\ outbox' = Tail(outbox) /\ UNCHANGED <<serverVars, inbox>>
      /\ client' = [client EXCEPT
           !.waits = "nothing",
           !.conv = IF client.waits = "initialize" THEN Head(outbox).conv ELSE @]
  BY ZenonT(30) DEF ClientReads
<1>2. /\ outbox' \in Seq(Replies) /\ Len(outbox') = Len(outbox) - 1 /\ Len(outbox) \in Nat \ {0}
      /\ Head(outbox) = outbox[1] /\ outbox[1] \in Replies
  BY <1>1, TailFacts DEF TypeOK
<1>3. (IF client.waits = "initialize" THEN Head(outbox).conv ELSE client.conv) \in Nat
  BY <1>2, ClientFields DEF Replies
<1>4. client' \in Clients
  BY <1>1, <1>3, ClientFields, ZenonT(30) DEF Clients
<1>5. /\ client'.here = client.here /\ client'.message = client.message
      /\ client'.abandoned = client.abandoned /\ client'.proven = client.proven
      /\ client'.waits = "nothing"
      /\ client'.conv = (IF client.waits = "initialize" THEN outbox[1].conv ELSE client.conv)
  BY <1>1, <1>2, ClientFields, ZenonT(30) DEF Clients
<1> QED
  BY <1>1, <1>2, <1>4, <1>5, ZenonT(30)

(* Leaving changes nothing else.                                           *)
LEMMA LeavesFacts ==
  ASSUME TypeOK, ClientLeaves
  PROVE  /\ client' \in Clients
         /\ client'.waits = client.waits /\ client'.message = client.message
         /\ client'.conv = client.conv /\ client'.abandoned = client.abandoned
         /\ client'.proven = client.proven
         /\ UNCHANGED <<serverVars, inbox, outbox>>
<1>1. client' = [client EXCEPT !.here = FALSE] /\ UNCHANGED <<serverVars, inbox, outbox>>
  BY ZenonT(30) DEF ClientLeaves
<1>2. client' \in Clients
  BY <1>1, ClientFields, ZenonT(30) DEF Clients
<1>3. /\ client'.waits = client.waits /\ client'.message = client.message
      /\ client'.conv = client.conv /\ client'.abandoned = client.abandoned
      /\ client'.proven = client.proven
  BY <1>1, ClientFields, ZenonT(30) DEF Clients
<1> QED
  BY <1>1, <1>2, <1>3, ZenonT(30)

(* The loop returns.                                                       *)
Returned == open' = FALSE /\ cause' \in Causes /\ outbox' = outbox

(* Whatever makes the loop return, it closes and writes nothing.           *)
LEMMA ReturnFacts ==
  /\ Return("client gone") => Returned /\ cause' = "client gone"
  /\ Return("limit") => Returned /\ cause' = "limit"
  /\ Return("not supported") => Returned /\ cause' = "not supported"
  /\ Return("rejected") => Returned /\ cause' = "rejected"
  /\ Return("decode") => Returned /\ cause' = "decode"
  /\ Return("encode") => Returned /\ cause' = "encode"
  BY ZenonT(30) DEF Return, Returned, Causes

(* One step keeps the variables in their sorts.                            *)
LEMMA TypeStep ==
  ASSUME TypeOK, Next, dispatcher' = dispatcher
  PROVE  TypeOK'
<1>0. /\ dispatcher' \in [auth : BOOLEAN, ping : BOOLEAN]
      /\ open \in BOOLEAN /\ eclipse \in BOOLEAN /\ counter \in Nat
      /\ conv \in Nat /\ accepts \in Nat /\ cause \in Causes
      /\ pending \in Seq(Pieces) /\ invoked \in Seq(Seq(Pieces))
      /\ inbox \in Seq(Frames) /\ outbox \in Seq(Replies) /\ client \in Clients
  BY ClientFields DEF TypeOK
<1>t. ASSUME /\ open' \in BOOLEAN /\ eclipse' \in BOOLEAN /\ counter' \in Nat
             /\ conv' \in Nat /\ accepts' \in Nat /\ cause' \in Causes
             /\ pending' \in Seq(Pieces) /\ invoked' \in Seq(Seq(Pieces))
             /\ inbox' \in Seq(Frames) /\ outbox' \in Seq(Replies) /\ client' \in Clients
      PROVE  TypeOK'
  BY <1>0, <1>t DEF TypeOK, Clients
<1>1. \A k, id : Reply(k, id) /\ k \in {"control", "accept", "pong", "response"} /\ id \in Nat
                   => outbox' \in Seq(Replies)
  BY <1>0, AppendFacts DEF Reply, Replies
<1>2. Returned => open' \in BOOLEAN /\ cause' \in Causes /\ outbox' \in Seq(Replies)
  BY <1>0, ZenonT(30) DEF Returned
<1>3. Stays => open' \in BOOLEAN /\ cause' \in Causes
  BY <1>0 DEF Stays
<1>4. \A k : Took(k) => inbox' \in Seq(Frames)
  BY TookFacts
<1>n. counter + 1 \in Nat /\ accepts + 1 \in Nat /\ 0 \in Nat /\ ClientConv \in Nat
  BY <1>0, Sorts
<1>5. CASE ReceiveFails
  BY <1>0, <1>t, <1>2, <1>5, ReturnFacts, ZenonT(30) DEF ReceiveFails
<1>6. CASE GatewayRecord
  BY <1>0, <1>t, <1>1, <1>3, <1>4, <1>6, ZenonT(30) DEF GatewayRecord
<1>7. CASE Initialize
  BY <1>0, <1>n, <1>t, <1>1, <1>3, <1>4, <1>7, ZenonT(30) DEF Initialize
<1>8. CASE Allocate
  BY <1>0, <1>t, <1>1, <1>3, <1>4, <1>8, ClientFields, ZenonT(30) DEF Allocate
<1>9. CASE CpicInit
  <2>1. CASE dispatcher.auth
    BY <1>0, <1>t, <1>2, <1>4, <1>9, <2>1, ReturnFacts, ZenonT(30) DEF CpicInit
  <2>2. CASE ~dispatcher.auth
    BY <1>0, <1>n, <1>t, <1>1, <1>3, <1>4, <1>9, <2>2, ZenonT(30) DEF CpicInit
  <2> QED
    BY <2>1, <2>2
<1>10. CASE DataOverLimit
  BY <1>0, <1>t, <1>2, <1>4, <1>10, ReturnFacts, ZenonT(30) DEF DataOverLimit
<1>11. CASE DataContinues
  <2>1. pending' \in Seq(Pieces)
    <3>1. Took("data") /\ pending' = Append(pending, Head(inbox).piece)
      BY <1>11 DEF DataContinues
    <3> QED
      BY <3>1, <1>0, TookFacts, Sorts, AppendFacts
  <2> QED
    BY <1>0, <1>t, <1>3, <1>4, <1>11, <2>1, ZenonT(30) DEF DataContinues
<1>12. ASSUME Completes(Joined)
       PROVE  inbox' \in Seq(Frames) /\ pending' \in Seq(Pieces) /\ Joined \in Seq(Pieces)
  BY <1>4, <1>12, CompletesFacts, Sorts
<1>13. CASE LogonRejected
  BY <1>0, <1>t, <1>2, <1>12, <1>13, ReturnFacts, ZenonT(30) DEF LogonRejected
<1>14. CASE LogonAccepted
  BY <1>0, <1>n, <1>t, <1>1, <1>3, <1>12, <1>14, ZenonT(30) DEF LogonAccepted
<1>15. CASE RequestUndecodable
  BY <1>0, <1>t, <1>2, <1>12, <1>15, ReturnFacts, ZenonT(30) DEF RequestUndecodable, IsCall
<1>16. CASE PingDance
  BY <1>0, <1>t, <1>1, <1>3, <1>12, <1>16, ZenonT(30) DEF PingDance, IsCall
<1>17. ASSUME Dispatched
       PROVE  /\ inbox' \in Seq(Frames) /\ pending' \in Seq(Pieces) /\ invoked' \in Seq(Seq(Pieces))
              /\ UNCHANGED <<counter, conv, eclipse, accepts, client>>
  <2>1. Completes(Joined) /\ invoked' = Append(invoked, Joined) /\ UNCHANGED <<counter, conv, eclipse, accepts, client>>
    BY <1>17 DEF Dispatched, IsCall
  <2> QED
    BY <2>1, <1>0, <1>12, AppendFacts
<1>18. CASE Answered
  BY <1>0, <1>t, <1>1, <1>3, <1>17, <1>18, ZenonT(30) DEF Answered
<1>19. CASE Unencodable
  BY <1>0, <1>t, <1>2, <1>17, <1>19, ReturnFacts, ZenonT(30) DEF Unencodable
<1>20. CASE Ignored
  BY <1>0, <1>t, <1>3, <1>4, <1>20, ZenonT(30) DEF Ignored
<1>21. CASE ClientControls
  <2>1. PICK f \in Frames : inbox' = Append(inbox, f)
    BY <1>21, ControlsFacts, ZenonT(30)
  <2>2. inbox' \in Seq(Frames)
    BY <2>1, <1>0, AppendFacts
  <2>3. client' \in Clients /\ UNCHANGED <<serverVars, outbox>>
    BY <1>21, ControlsFacts, ZenonT(30)
  <2> QED
    BY <1>0, <1>t, <2>2, <2>3, ZenonT(30) DEF serverVars
<1>22. CASE ClientSends
  <2>1. PICK f \in Frames : inbox' = Append(inbox, f)
    BY <1>22, SendsFacts, ZenonT(30)
  <2>2. inbox' \in Seq(Frames)
    BY <2>1, <1>0, AppendFacts
  <2>3. client' \in Clients /\ UNCHANGED <<serverVars, outbox>>
    BY <1>22, SendsFacts, ZenonT(30)
  <2> QED
    BY <1>0, <1>t, <2>2, <2>3, ZenonT(30) DEF serverVars
<1>23. CASE ClientReads
  BY <1>0, <1>t, <1>23, ReadsFacts, ZenonT(30) DEF serverVars
<1>24. CASE ClientLeaves
  BY <1>0, <1>t, <1>24, LeavesFacts, ZenonT(30) DEF serverVars
<1> QED
  BY <1>5, <1>6, <1>7, <1>8, <1>9, <1>10, <1>11, <1>13, <1>14, <1>15, <1>16, <1>18, <1>19,
     <1>20, <1>21, <1>22, <1>23, <1>24 DEF Next, ServerStep, ClientStep

-------------------------------------------------------------------------------
(* A step of the loop leaves the client alone, takes at most one frame and *)
(* answers only what asks.                                                 *)
LEMMA ServerShape ==
  ASSUME TypeOK, ServerStep
  PROVE  /\ client' = client
         /\ \/ inbox' = inbox /\ outbox' = outbox
            \/ /\ \E k : Took(k)
               /\ \/ outbox' = outbox
                  \/ Asks(inbox[1]) /\ \E r \in Replies : outbox' = Append(outbox, r)
<1>1. \A k, id : Reply(k, id) /\ k \in {"control", "accept", "pong", "response"} /\ id \in Nat
                   => \E r \in Replies : outbox' = Append(outbox, r)
  BY DEF Reply, Replies
<1>2. \A k \in Controls : Took(k) => Asks(inbox[1])
  BY TookFacts, Sorts, ZenonT(30) DEF Asks
<1>3. {"gateway", "initialize", "allocate", "cpicinit", "NI_PING"} \subseteq Controls
  BY DEF Controls
<1>4. Returned => outbox' = outbox
  BY DEF Returned
<1>5. Completes(Joined) => Took("data") /\ Asks(inbox[1])
  BY CompletesFacts DEF Asks
<1>6. conv \in Nat /\ counter + 1 \in Nat /\ ClientConv \in Nat /\ 0 \in Nat /\ client.conv \in Nat
  <2>1. conv \in Nat /\ counter \in Nat
    BY ZenonT(30) DEF TypeOK
  <2>2. ClientConv \in Nat
    BY Sorts, ZenonT(30)
  <2>3. client.conv \in Nat
    BY ClientFields, ZenonT(30)
  <2>4. counter + 1 \in Nat /\ 0 \in Nat
    <3>1. \A n \in Nat : n + 1 \in Nat /\ 0 \in Nat
      OBVIOUS
    <3> QED
      BY <2>1, <3>1, ZenonT(30)
  <2> QED
    BY <2>1, <2>2, <2>3, <2>4, ZenonT(30)
<1>7. CASE ReceiveFails
  BY <1>4, <1>7, ReturnFacts, ZenonT(30) DEF ReceiveFails
<1>8. CASE GatewayRecord \/ Initialize \/ Allocate
  BY <1>1, <1>2, <1>3, <1>6, <1>8, ZenonT(30) DEF GatewayRecord, Initialize, Allocate
<1>9. CASE CpicInit
  BY <1>1, <1>2, <1>3, <1>4, <1>6, <1>9, ReturnFacts, ZenonT(30) DEF CpicInit
<1>10. CASE DataOverLimit \/ DataContinues \/ Ignored
  BY <1>4, <1>10, ReturnFacts, ZenonT(30) DEF DataOverLimit, DataContinues, Ignored
<1>11. CASE LogonRejected \/ RequestUndecodable \/ Unencodable
  BY <1>4, <1>5, <1>11, ReturnFacts, ZenonT(30)
     DEF LogonRejected, RequestUndecodable, Unencodable, Dispatched, IsCall
<1>12. CASE LogonAccepted \/ PingDance \/ Answered
  BY <1>1, <1>5, <1>6, <1>12, ZenonT(30) DEF LogonAccepted, PingDance, Answered, Dispatched, IsCall
<1> QED
  BY <1>7, <1>8, <1>9, <1>10, <1>11, <1>12, ZenonT(30) DEF ServerStep

(* One step keeps the turns.                                               *)
LEMMA TurnStep ==
  ASSUME TypeOK, TurnInv, Next, dispatcher' = dispatcher
  PROVE  TurnInv'
<1>0. /\ inbox \in Seq(Frames) /\ outbox \in Seq(Replies)
      /\ Len(inbox) \in Nat /\ (inbox = <<>> <=> Len(inbox) = 0)
      /\ Len(outbox) \in Nat /\ (outbox = <<>> <=> Len(outbox) = 0)
      /\ \A i \in 1..Len(inbox) : inbox[i].kind # "nothing"
  <2>1. \A f \in Frames : f.kind # "nothing"
    BY Sorts, ZenonT(30)
  <2>2. /\ inbox \in Seq(Frames) /\ outbox \in Seq(Replies)
        /\ Len(inbox) \in Nat /\ (inbox = <<>> <=> Len(inbox) = 0)
        /\ Len(outbox) \in Nat /\ (outbox = <<>> <=> Len(outbox) = 0)
        /\ \A i \in 1..Len(inbox) : inbox[i] \in Frames
    BY EmptyFacts DEF TypeOK
  <2> QED
    BY <2>1, <2>2
<1>1. /\ \A i \in 1..Len(inbox) : Asks(inbox[i]) => i = Len(inbox) /\ client.waits = inbox[i].kind
      /\ outbox # <<>> => inbox = <<>> /\ Len(outbox) = 1 /\ client.waits # "nothing"
  BY DEF TurnInv
<1>2. CASE ServerStep
  <2>1. CASE client' = client /\ inbox' = inbox /\ outbox' = outbox
    BY <1>1, <2>1 DEF TurnInv, Asks
  <2>2. ASSUME client' = client, NEW k, Took(k) PROVE
          \A i \in 1..Len(inbox') : Asks(inbox'[i]) => i = Len(inbox') /\ client'.waits = inbox'[i].kind
    BY <1>0, <1>1, <2>2, TookFacts
  <2>3. ASSUME client' = client, NEW k, Took(k), outbox' = outbox PROVE outbox' = <<>>
    BY <1>1, <2>3, TookFacts
  <2>4. ASSUME client' = client, NEW k, Took(k), Asks(inbox[1]), NEW r \in Replies, outbox' = Append(outbox, r)
        PROVE  inbox' = <<>> /\ Len(outbox') = 1 /\ client'.waits # "nothing"
    <3>0. Len(inbox) \in Nat \ {0} /\ inbox # <<>> /\ (1 = Len(inbox) => inbox' = <<>>)
          /\ 1 \in 1..Len(inbox)
      BY <2>4, TookFacts
    <3>1. outbox = <<>> /\ 1 = Len(inbox) /\ client.waits = inbox[1].kind /\ inbox[1].kind # "nothing" /\ inbox' = <<>>
      BY <1>0, <1>1, <2>4, <3>0, ZenonT(30)
    <3> QED
      BY <1>0, <2>4, <3>1, AppendFacts
  <2> QED
    BY <1>2, <2>1, <2>2, <2>3, <2>4, ServerShape DEF TurnInv, Asks
<1>3. ASSUME client.waits = "nothing", NEW f \in Frames, inbox' = Append(inbox, f), outbox' = outbox,
             Asks(f) => client'.waits = f.kind
      PROVE  TurnInv'
  <2>1. outbox' = <<>> /\ \A i \in 1..Len(inbox) : ~Asks(inbox[i])
    BY <1>0, <1>1, <1>3
  <2>2. /\ Len(inbox') = Len(inbox) + 1 /\ inbox'[Len(inbox) + 1] = f
        /\ \A i \in 1..Len(inbox) : inbox'[i] = inbox[i]
    BY <1>0, <1>3, AppendFacts
  <2>3. \A i \in 1..Len(inbox') : Asks(inbox'[i]) => i = Len(inbox') /\ client'.waits = inbox'[i].kind
    BY <1>0, <1>3, <2>1, <2>2
  <2> QED
    BY <2>1, <2>3 DEF TurnInv, Asks
<1>4. CASE ClientControls
  <2>1. PICK kind \in Controls :
          /\ client.waits = "nothing" /\ inbox' = Append(inbox, [kind |-> kind])
          /\ [kind |-> kind] \in Frames /\ outbox' = outbox /\ client'.waits = kind
    BY <1>4, ControlsFacts, ZenonT(30) DEF ClientReady
  <2> QED
    BY <1>3, <2>1
<1>5. CASE ClientSends
  <2>1. PICK piece \in Pieces :
          /\ client.waits = "nothing" /\ inbox' = Append(inbox, [kind |-> "data", piece |-> piece])
          /\ [kind |-> "data", piece |-> piece] \in Frames /\ outbox' = outbox
          /\ client'.waits = (IF Final(piece) THEN "data" ELSE "nothing")
    BY <1>5, SendsFacts, ZenonT(30) DEF ClientReady
  <2> QED
    BY <1>3, <2>1 DEF Asks
<1>6. CASE ClientReads
  <2>1. outbox # <<>> /\ outbox' = <<>> /\ inbox' = inbox /\ inbox = <<>>
    BY <1>0, <1>1, <1>6, ReadsFacts, EmptyFacts
  <2> QED
    BY <1>0, <2>1 DEF TurnInv
<1>7. CASE ClientLeaves
  BY <1>1, <1>7, LeavesFacts DEF TurnInv, Asks
<1> QED
  BY <1>2, <1>4, <1>5, <1>6, <1>7 DEF Next, ClientStep

-------------------------------------------------------------------------------
(* What passes AuthenticateLogon ends in a good logon's last record.       *)
LEMMA AuthenticatedIsProven ==
  ASSUME TypeOK, GateInv, Completes(Joined), Authenticates(Joined)
  PROVE  client.proven
<1>1. /\ Joined[Len(pending) + 1] = inbox[1].piece /\ Len(Joined) = Len(pending) + 1
      /\ Len(pending) \in Nat /\ Final(inbox[1].piece) /\ Took("data") /\ Joined \in Seq(Pieces)
  BY CompletesFacts
<1>2. Len(pending) + 1 \in 1..Len(Joined) /\ 1 \in 1..Len(Joined)
  BY <1>1
<1>3. Joined[1] \in Pieces
  BY <1>1, <1>2, ElementOfSeq
<1>4. /\ Joined[Len(pending) + 1] = [Joined[1] EXCEPT !.part = Len(pending) + 1]
      /\ Joined[1].what = "good logon"
  BY <1>2, ZenonT(30) DEF Authenticates, Whole
<1>5. inbox[1].piece.what = "good logon"
  BY <1>1, <1>3, <1>4, ZenonT(30) DEF Pieces
<1>6. inbox[1].kind = "data" /\ 1 \in 1..Len(inbox)
  BY <1>1, TookFacts
<1> QED
  BY <1>1, <1>5, <1>6, ZenonT(30) DEF GateInv, Good

(* A frame that is sent joins the ones on their way.                       *)
LEMMA SentFrames ==
  ASSUME TypeOK, NEW f \in Frames, inbox' = Append(inbox, f)
  PROVE  \A i \in 1..Len(inbox') : inbox'[i] = f \/ \E j \in 1..Len(inbox) : inbox'[i] = inbox[j]
  BY AppendElements DEF TypeOK

(* One step keeps the gate.                                                *)
LEMMA GateStep ==
  ASSUME TypeOK, GateInv, Next, dispatcher' = dispatcher
  PROVE  GateInv'
<1>1. (\A i \in 1..Len(inbox) : Good(inbox[i]) => client.proven) /\ Guarded
  BY DEF GateInv
<1>t. ASSUME \A i \in 1..Len(inbox') : Good(inbox'[i]) => client'.proven, Guarded' PROVE GateInv'
  BY <1>t, ZenonT(30) DEF GateInv, Good
<1>2. CASE ServerStep
  <2>1. client' = client /\ (inbox' = inbox \/ \E k : Took(k))
    BY <1>2, ServerShape, ZenonT(30)
  <2>2. \A i \in 1..Len(inbox') : Good(inbox'[i]) => client'.proven
    <3>1. CASE inbox' = inbox
      BY <1>1, <2>1, <3>1
    <3>2. ASSUME NEW k, Took(k) PROVE \A i \in 1..Len(inbox') : Good(inbox'[i]) => client'.proven
      BY <1>1, <2>1, <3>2, TookFacts
    <3> QED
      BY <2>1, <3>1, <3>2
  <2>3. Guarded'
    <3>1. CASE UNCHANGED <<eclipse, accepts, invoked>>
      BY <1>1, <2>1, <3>1, ZenonT(30) DEF Guarded
    <3>2. CASE CpicInit
      BY <1>1, <2>1, <3>1, <3>2, ZenonT(30) DEF Guarded, CpicInit
    <3>3. CASE LogonAccepted
      <4>1. dispatcher.auth => client.proven
        BY <3>3, AuthenticatedIsProven, ZenonT(30) DEF Guarded, LogonAccepted, MustAuthenticate
      <4> QED
        BY <2>1, <4>1, ZenonT(30) DEF Guarded
    <3>4. CASE Answered \/ Unencodable
      <4>1. dispatcher.auth /\ ~eclipse => client.proven
        BY <3>4, AuthenticatedIsProven, ZenonT(30) DEF Guarded, Answered, Unencodable, Dispatched, IsCall, MustAuthenticate
      <4> QED
        BY <1>1, <2>1, <4>1, ZenonT(30) DEF Guarded
    <3> QED
      BY <1>2, <3>1, <3>2, <3>3, <3>4, ZenonT(30)
         DEF ServerStep, ReceiveFails, GatewayRecord, Initialize, Allocate, DataOverLimit, DataContinues,
             LogonRejected, RequestUndecodable, PingDance, Ignored
  <2> QED
    BY <1>t, <2>2, <2>3
<1>3. ASSUME ClientStep, client.proven => client'.proven, UNCHANGED <<eclipse, accepts, invoked>> PROVE Guarded'
  BY <1>1, <1>3, ZenonT(30) DEF Guarded
<1>4. CASE ClientControls
  <2>1. PICK kind \in Controls :
          /\ inbox' = Append(inbox, [kind |-> kind]) /\ [kind |-> kind] \in Frames
          /\ client'.proven = client.proven /\ UNCHANGED serverVars
    BY <1>4, ControlsFacts, ZenonT(30)
  <2>a. \A i \in 1..Len(inbox') : inbox'[i] = [kind |-> kind] \/ \E j \in 1..Len(inbox) : inbox'[i] = inbox[j]
    BY <2>1, SentFrames, ZenonT(30)
  <2>2. ~Good([kind |-> kind])
    BY Sorts, ZenonT(30) DEF Good
  <2>3. \A i \in 1..Len(inbox') : Good(inbox'[i]) => client'.proven
    BY <1>1, <2>1, <2>2, <2>a, ZenonT(30)
  <2> QED
    BY <1>t, <1>3, <1>4, <2>1, <2>3, ZenonT(30) DEF ClientStep, serverVars
<1>5. CASE ClientSends
  <2>1. PICK piece \in Pieces :
          /\ inbox' = Append(inbox, [kind |-> "data", piece |-> piece])
          /\ [kind |-> "data", piece |-> piece] \in Frames /\ UNCHANGED serverVars
          /\ client'.proven = (client.proven \/ (Final(piece) /\ piece.what = "good logon"))
    BY <1>5, SendsFacts, ZenonT(30)
  <2>a. \A i \in 1..Len(inbox') : \/ inbox'[i] = [kind |-> "data", piece |-> piece]
                                  \/ \E j \in 1..Len(inbox) : inbox'[i] = inbox[j]
    BY <2>1, SentFrames, ZenonT(30)
  <2>2. /\ Good([kind |-> "data", piece |-> piece]) => client'.proven
        /\ client.proven => client'.proven
    BY <2>1, ZenonT(30) DEF Good
  <2>3. \A i \in 1..Len(inbox') : Good(inbox'[i]) => client'.proven
    BY <1>1, <2>1, <2>2, <2>a, ZenonT(30)
  <2> QED
    BY <1>t, <1>3, <1>5, <2>1, <2>2, <2>3, ZenonT(30) DEF ClientStep, serverVars
<1>6. CASE ClientReads \/ ClientLeaves
  <2>1. inbox' = inbox /\ client'.proven = client.proven /\ UNCHANGED serverVars
    BY <1>6, ReadsFacts, LeavesFacts, ZenonT(30)
  <2> QED
    BY <1>1, <1>t, <1>3, <1>6, <2>1, ZenonT(30) DEF ClientStep, serverVars
<1> QED
  BY <1>2, <1>4, <1>5, <1>6 DEF Next, ClientStep

-------------------------------------------------------------------------------
(* The answer to what asks is the only one, and the client waits for it.   *)
LEMMA ReplyFacts ==
  ASSUME TypeOK, TurnInv, NEW k, Took(k), Asks(inbox[1]), NEW r \in Replies, outbox' = Append(outbox, r)
  PROVE  outbox' # <<>> /\ outbox'[1] = r /\ client.waits = k
<1>1. 1 \in 1..Len(inbox) /\ inbox # <<>> /\ inbox[1].kind = k
  BY TookFacts
<1>2. outbox = <<>> /\ client.waits = k
  BY <1>1, ZenonT(30) DEF TurnInv
<1>3. Len(outbox) = 0
  BY <1>2, EmptyFacts DEF TypeOK
<1> QED
  BY <1>2, <1>3, AppendFacts DEF TypeOK

(* One step keeps client and server in one conversation.                   *)
LEMMA ConvStep ==
  ASSUME TypeOK, TurnInv, ConvInv, Next, dispatcher' = dispatcher
  PROVE  ConvInv'
<1>0. /\ conv \in Nat /\ counter + 1 \in Nat /\ ClientConv \in Nat /\ 0 \in Nat /\ client.conv \in Nat
      /\ \A k \in {"control", "accept", "response"}, id \in Nat :
           [kind |-> k, conv |-> id] \in Replies /\ [kind |-> k, conv |-> id].conv = id
      /\ \A k \in Controls : Took(k) => Asks(inbox[1])
      /\ {"gateway", "initialize", "allocate", "cpicinit", "NI_PING"} \subseteq Controls
  <2>1. conv \in Nat /\ counter + 1 \in Nat /\ ClientConv \in Nat /\ 0 \in Nat /\ client.conv \in Nat
    BY Sorts, ClientFields DEF TypeOK
  <2>2. \A k \in {"control", "accept", "response"}, id \in Nat :
           [kind |-> k, conv |-> id] \in Replies /\ [kind |-> k, conv |-> id].conv = id
    BY DEF Replies
  <2>3. \A k \in Controls : Took(k) => Asks(inbox[1])
    BY TookFacts, Sorts, ZenonT(30) DEF Asks
  <2>4. {"gateway", "initialize", "allocate", "cpicinit", "NI_PING"} \subseteq Controls
    BY DEF Controls
  <2> QED
    BY <2>1, <2>2, <2>3, <2>4
<1>1. CASE UNCHANGED <<conv, outbox, client>>
  BY <1>1 DEF ConvInv
<1>2. CASE GatewayRecord
  <2>1. client.waits = "gateway" /\ UNCHANGED <<conv, client>>
    BY <1>0, <1>2, ReplyFacts, ZenonT(30) DEF GatewayRecord, Reply
  <2> QED
    BY <2>1 DEF ConvInv
<1>3. CASE Initialize
  <2>1. Took("initialize") /\ conv' = counter + 1 /\ outbox' = Append(outbox, [kind |-> "control", conv |-> conv'])
        /\ client' = client
    BY <1>3, ZenonT(30) DEF Initialize, Reply
  <2>2. client.waits = "initialize" /\ client' = client /\ outbox'[1].conv = conv'
    BY <1>0, <2>1, ReplyFacts, ZenonT(30)
  <2> QED
    BY <2>2 DEF ConvInv
<1>4. CASE Allocate
  <2>1. client.waits = "allocate" /\ UNCHANGED <<conv, client>>
    BY <1>0, <1>4, ReplyFacts, ZenonT(30) DEF Allocate, Reply
  <2> QED
    BY <2>1 DEF ConvInv
<1>5. CASE CpicInit
  <2>1. CASE dispatcher.auth
    BY <1>1, <1>5, <2>1, ReturnFacts, ZenonT(30) DEF CpicInit, Returned
  <2>2. CASE ~dispatcher.auth
    <3>1. client.waits = "cpicinit" /\ client' = client /\ conv' = ClientConv
      BY <1>0, <1>5, <2>2, ReplyFacts, ZenonT(30) DEF CpicInit, Reply
    <3> QED
      BY <3>1 DEF ConvInv
  <2> QED
    BY <2>1, <2>2
<1>6. CASE LogonAccepted \/ PingDance \/ Answered
  <2>1. PICK k \in {"accept", "response"} :
          Completes(Joined) /\ outbox' = Append(outbox, [kind |-> k, conv |-> conv]) /\ UNCHANGED <<conv, client>>
    BY <1>6, ZenonT(30) DEF LogonAccepted, PingDance, Answered, Dispatched, IsCall, Reply
  <2>2. Took("data") /\ Asks(inbox[1])
    BY <2>1, CompletesFacts DEF Asks
  <2>a. [kind |-> k, conv |-> conv] \in Replies /\ [kind |-> k, conv |-> conv].conv = conv
    BY <1>0, ZenonT(30)
  <2>3. client.waits = "data" /\ outbox'[1].conv = conv /\ UNCHANGED <<conv, client>>
    BY <2>a, <2>1, <2>2, ReplyFacts, ZenonT(30)
  <2> QED
    BY <2>3 DEF ConvInv
<1>7. CASE ReceiveFails \/ DataOverLimit \/ DataContinues \/ LogonRejected \/ RequestUndecodable \/ Unencodable \/ Ignored
  BY <1>1, <1>7, ReturnFacts, ZenonT(30)
     DEF ReceiveFails, DataOverLimit, DataContinues, LogonRejected, RequestUndecodable, Unencodable,
         Dispatched, Ignored, Returned
<1>8. CASE ClientControls
  <2>1. PICK kind \in Controls :
          /\ client.waits = "nothing" /\ client'.waits = kind /\ UNCHANGED <<conv, outbox>>
          /\ client'.conv = (IF kind = "cpicinit" THEN ClientConv ELSE client.conv)
    BY <1>8, ControlsFacts, ZenonT(30) DEF ClientReady, serverVars
  <2>2. outbox = <<>>
    BY <2>1 DEF TurnInv
  <2>3. conv = client.conv
    BY <2>1 DEF ConvInv
  <2> QED
    BY <2>1, <2>2, <2>3 DEF ConvInv
<1>9. CASE ClientSends
  <2>1. /\ client.waits = "nothing" /\ UNCHANGED <<conv, outbox>>
        /\ client'.conv = client.conv /\ client'.waits \in {"data", "nothing"}
    BY <1>9, SendsFacts, ZenonT(30) DEF ClientReady, serverVars
  <2>2. outbox = <<>>
    BY <2>1 DEF TurnInv
  <2> QED
    BY <2>1, <2>2 DEF ConvInv
<1>10. CASE ClientReads
  <2>1. /\ outbox # <<>> /\ UNCHANGED conv /\ client'.waits = "nothing"
        /\ client'.conv = (IF client.waits = "initialize" THEN outbox[1].conv ELSE client.conv)
    BY <1>10, ReadsFacts, ZenonT(30) DEF serverVars
  <2> QED
    BY <2>1 DEF ConvInv
<1>11. CASE ClientLeaves
  <2>1. client'.waits = client.waits /\ client'.conv = client.conv /\ UNCHANGED <<conv, outbox>>
    BY <1>11, LeavesFacts, ZenonT(30) DEF serverVars
  <2> QED
    BY <2>1 DEF ConvInv
<1> QED
  BY <1>2, <1>3, <1>4, <1>5, <1>6, <1>7, <1>8, <1>9, <1>10, <1>11, ZenonT(30) DEF Next, ServerStep, ClientStep

-------------------------------------------------------------------------------
(* A client that has sent a message to its end, abandoned none and waits   *)
(* for nothing has nothing on its way or held.                             *)
LEMMA AllTaken ==
  ASSUME TypeOK, TurnInv, MessageInv, open, ~client.abandoned, client.waits = "nothing", ~Sending
  PROVE  pending = <<>> /\ inbox = <<>>
<1>0. /\ Len(inbox) \in Nat /\ (inbox = <<>> <=> Len(inbox) = 0)
      /\ Len(pending) \in Nat /\ (pending = <<>> <=> Len(pending) = 0)
      /\ client.message.part \in Nat \ {0} /\ client.message.of \in Nat \ {0}
      /\ client.waits \notin Controls
  <2>1. client.waits \notin Controls
    BY Sorts, ZenonT(30)
  <2> QED
    BY <2>1, EmptyFacts, ClientFields DEF TypeOK
<1>1. /\ client.message.part = client.message.of
      /\ pending # <<>> => Len(pending) < client.message.of
      /\ \A j \in 1..Len(inbox) : inbox[j] = [kind |-> "data", piece |-> Part(Len(pending) + j)]
      /\ inbox # <<>> \/ pending # <<>> => Len(pending) + Len(inbox) = client.message.part
  BY <1>0 DEF MessageInv, InStep, Sending
<1>2. SUFFICES ASSUME inbox # <<>> PROVE FALSE
  BY <1>0, <1>1
<1>3. /\ Len(inbox) \in 1..Len(inbox) /\ client.message.of \in 1..client.message.of
      /\ Len(pending) + Len(inbox) = client.message.of
  BY <1>0, <1>1, <1>2
<1>4. inbox[Len(inbox)] = [kind |-> "data", piece |-> Part(client.message.of)]
  BY <1>1, <1>3
<1>5. Part(client.message.of).part = client.message.of /\ Part(client.message.of).of = client.message.of
  BY <1>3, PartFacts
<1>6. Asks(inbox[Len(inbox)]) /\ inbox[Len(inbox)].kind = "data"
  BY <1>4, <1>5 DEF Asks, Final
<1> QED
  BY <1>3, <1>6, ZenonT(30) DEF TurnInv

(* What a client that abandons nothing sends is joined piece by piece.     *)
LEMMA TakenPiece ==
  ASSUME TypeOK, MessageInv, Took("data"), ~client.abandoned
  PROVE  /\ open /\ client.waits \notin Controls
         /\ Len(pending) \in Nat /\ (pending = <<>> <=> Len(pending) = 0)
         /\ inbox[1].piece = Part(Len(pending) + 1)
         /\ Len(pending) + Len(inbox) = client.message.part
         /\ Len(pending) + 1 <= client.message.of
         /\ inbox[1].piece.part = Len(pending) + 1 /\ inbox[1].piece.of = client.message.of
         /\ \A i \in 1..Len(pending) : pending[i] = Part(i)
<1>1. /\ open /\ inbox # <<>> /\ inbox[1].kind = "data" /\ Len(inbox) \in Nat \ {0} /\ 1 \in 1..Len(inbox)
  BY TookFacts
<1>2. /\ Len(pending) \in Nat /\ (pending = <<>> <=> Len(pending) = 0)
      /\ client.message.part \in Nat \ {0} /\ client.message.of \in Nat \ {0}
  BY EmptyFacts, ClientFields DEF TypeOK
<1>3. client.waits \notin Controls
  BY <1>1, ZenonT(30) DEF MessageInv, InStep
<1>4. /\ client.message.part <= client.message.of
      /\ \A i \in 1..Len(pending) : pending[i] = Part(i)
      /\ inbox[1] = [kind |-> "data", piece |-> Part(Len(pending) + 1)]
      /\ Len(pending) + Len(inbox) = client.message.part
  BY <1>1, <1>3, ZenonT(30) DEF MessageInv, InStep
<1>5. Len(pending) + 1 \in 1..client.message.of
  BY <1>1, <1>2, <1>4
<1>6. inbox[1].piece = Part(Len(pending) + 1)
  BY <1>4
<1> QED
  BY <1>1, <1>2, <1>3, <1>4, <1>5, <1>6, PartFacts

(* The last record of it completes the whole message.                      *)
LEMMA WholeMessage ==
  ASSUME TypeOK, MessageInv, Completes(Joined), ~client.abandoned
  PROVE  Whole(Joined) /\ inbox' = <<>> /\ ~Sending
<1>1. /\ Took("data") /\ Final(inbox[1].piece) /\ Len(Joined) = Len(pending) + 1
      /\ \A i \in 1..Len(pending) : Joined[i] = pending[i]
      /\ Joined[Len(pending) + 1] = inbox[1].piece
  BY CompletesFacts
<1>2. /\ Len(pending) \in Nat /\ inbox[1].piece = Part(Len(pending) + 1)
      /\ Len(pending) + Len(inbox) = client.message.part
      /\ inbox[1].piece.part = Len(pending) + 1 /\ inbox[1].piece.of = client.message.of
      /\ \A i \in 1..Len(pending) : pending[i] = Part(i)
  BY <1>1, TakenPiece
<1>3. /\ Len(pending) + 1 = client.message.of /\ Len(inbox) \in Nat \ {0}
      /\ client.message.part \in Nat \ {0} /\ client.message.of \in Nat \ {0}
      /\ Len(inbox) = 1 => inbox' = <<>>
  BY <1>1, <1>2, TookFacts, ClientFields DEF Final
<1>4. client.message.part <= client.message.of
  BY DEF MessageInv
<1>5. inbox' = <<>> /\ ~Sending
  <2>0. \A p, q, r, o \in Nat : p + q = r /\ p + 1 = o /\ r <= o /\ q # 0 => q = 1 /\ ~(r < o)
    OBVIOUS
  <2>1. Len(inbox) = 1 /\ ~(client.message.part < client.message.of)
    BY <1>2, <1>3, <1>4, <2>0, ZenonT(30)
  <2> QED
    BY <1>3, <2>1, ZenonT(30) DEF Sending
<1>6. \A i \in 1..Len(Joined) : Joined[i] = Part(i)
  <2>1. \A i \in 1..Len(Joined) : i \in 1..Len(pending) \/ i = Len(pending) + 1
    BY <1>1, <1>2
  <2> QED
    BY <1>1, <1>2, <2>1, ZenonT(30)
<1>7. 1 \in 1..client.message.of /\ 1 \in 1..Len(Joined)
  BY <1>1, <1>2, <1>3
<1>8. Part(1).of = client.message.of /\ \A j : [Part(1) EXCEPT !.part = j] = Part(j)
  BY <1>7, PartFacts, ZenonT(30)
<1>9. Whole(Joined)
  <2>1. Joined[1] = Part(1) /\ Len(Joined) = client.message.of
    BY <1>1, <1>3, <1>6, <1>7, ZenonT(30)
  <2>2. \A i \in 1..Len(Joined) : Joined[i] = [Joined[1] EXCEPT !.part = i]
    BY <1>6, <1>8, <2>1, ZenonT(30)
  <2> QED
    BY <1>8, <2>1, <2>2, ZenonT(30) DEF Whole
<1> QED
  BY <1>5, <1>9

(* A step of the loop keeps what it holds in step with what is sent.       *)
LEMMA ServerInStep ==
  ASSUME TypeOK, TurnInv, MessageInv, ServerStep, open', ~client.abandoned
  PROVE  InStep'
<1>0. client' = client
  BY ServerShape
<1>1. ASSUME NEW k \in Controls, Took(k), pending' = pending PROVE InStep'
  <2>0. 1 \in 1..Len(inbox) /\ inbox[1].kind = k /\ open
    BY <1>1, TookFacts
  <2>1. 1 \in 1..Len(inbox) /\ Asks(inbox[1]) /\ inbox[1].kind = k /\ open
    BY <2>0, Sorts, ZenonT(30) DEF Asks
  <2>2. client.waits \in Controls
    BY <1>1, <2>1, ZenonT(30) DEF TurnInv
  <2>3. pending = <<>> /\ \A j \in 1..Len(inbox) : inbox[j].kind # "data"
    BY <2>1, <2>2, ZenonT(30) DEF MessageInv, InStep
  <2>4. \A j \in 1..Len(inbox') : inbox'[j].kind # "data"
    BY <1>1, <2>3, TookFacts
  <2> QED
    BY <1>0, <1>1, <2>2, <2>3, <2>4, ZenonT(30) DEF InStep
<1>2. CASE Completes(Joined)
  <2>1. inbox' = <<>> /\ ~Sending /\ pending' = <<>>
    BY <1>2, WholeMessage, CompletesFacts
  <2>2. /\ \A i \in 1..Len(pending') : FALSE
        /\ \A j \in 1..Len(inbox') : FALSE
    BY <2>1
  <2>3. ~Sending'
    BY <1>0, <2>1 DEF Sending
  <2> QED
    BY <2>1, <2>2, <2>3, ZenonT(30) DEF InStep
<1>3. CASE DataContinues
  <2>1. /\ Took("data") /\ ~Final(inbox[1].piece) /\ pending' = Append(pending, inbox[1].piece)
        /\ inbox[1].piece \in Pieces
    BY <1>3, TookFacts, Sorts DEF DataContinues
  <2>2. /\ client.waits \notin Controls
        /\ Len(pending) \in Nat /\ inbox[1].piece = Part(Len(pending) + 1)
        /\ Len(pending) + Len(inbox) = client.message.part
        /\ Len(pending) + 1 <= client.message.of
        /\ inbox[1].piece.part = Len(pending) + 1 /\ inbox[1].piece.of = client.message.of
        /\ \A i \in 1..Len(pending) : pending[i] = Part(i)
    BY <2>1, TakenPiece
  <2>3. /\ Len(pending') = Len(pending) + 1 /\ pending'[Len(pending) + 1] = Part(Len(pending) + 1)
        /\ \A i \in 1..Len(pending) : pending'[i] = Part(i)
    BY <2>1, <2>2, AppendFacts DEF TypeOK
  <2>4. Len(pending') < client.message.of
    BY <2>1, <2>2, <2>3, ClientFields DEF Final
  <2>5. \A i \in 1..Len(pending') : pending'[i] = Part(i)
    <3>1. \A i \in 1..Len(pending') : i \in 1..Len(pending) \/ i = Len(pending) + 1
      BY <2>2, <2>3
    <3> QED
      BY <2>3, <3>1, ZenonT(30)
  <2>6. /\ Len(inbox') = Len(inbox) - 1 /\ Len(inbox) \in Nat \ {0} /\ open
        /\ \A i \in 1..Len(inbox') : inbox'[i] = inbox[i + 1]
    BY <2>1, TookFacts
  <2>7. \A j \in 1..Len(inbox) : inbox[j] = [kind |-> "data", piece |-> Part(Len(pending) + j)]
    BY <2>2, <2>6, ZenonT(30) DEF MessageInv, InStep
  <2>8. \A j \in 1..Len(inbox') : inbox'[j] = [kind |-> "data", piece |-> Part(Len(pending') + j)]
    <3>0. \A p \in Nat, n \in Nat \ {0} : \A j \in 1..(n - 1) : j + 1 \in 1..n /\ p + (j + 1) = p + 1 + j
      OBVIOUS
    <3>1. \A j \in 1..Len(inbox') : j + 1 \in 1..Len(inbox) /\ Len(pending) + (j + 1) = Len(pending') + j
      BY <2>2, <2>3, <2>6, <3>0, ZenonT(30)
    <3> QED
      BY <2>6, <2>7, <3>1, ZenonT(30)
  <2>9. Len(pending') + Len(inbox') = client.message.part
    BY <2>2, <2>3, <2>6
  <2>10. \A k : Part(k)' = Part(k)
    BY <1>0 DEF Part
  <2> QED
    BY <1>0, <2>2, <2>4, <2>5, <2>8, <2>9, <2>10, ZenonT(30) DEF InStep
<1>4. CASE GatewayRecord \/ Initialize \/ Allocate \/ CpicInit \/ Ignored
  <2>1. "gateway" \in Controls /\ "initialize" \in Controls /\ "allocate" \in Controls
        /\ "cpicinit" \in Controls /\ "NI_PING" \in Controls
    BY DEF Controls
  <2> QED
    BY <1>1, <1>4, <2>1, ZenonT(30) DEF GatewayRecord, Initialize, Allocate, CpicInit, Ignored
<1>5. CASE LogonAccepted \/ PingDance \/ Answered
  BY <1>2, <1>5, ZenonT(30) DEF LogonAccepted, PingDance, Answered, Dispatched, IsCall
<1>6. CASE ReceiveFails \/ DataOverLimit \/ LogonRejected \/ RequestUndecodable \/ Unencodable
  BY <1>6, ReturnFacts, ZenonT(30)
     DEF ReceiveFails, DataOverLimit, LogonRejected, RequestUndecodable, Unencodable, Returned
<1> QED
  BY <1>3, <1>4, <1>5, <1>6, ZenonT(30) DEF ServerStep

(* One step keeps the messages apart.                                      *)
LEMMA MessageStep ==
  ASSUME TypeOK, TurnInv, MessageInv, Next, dispatcher' = dispatcher
  PROVE  MessageInv'
<1>0. /\ client.message.part <= client.message.of
      /\ client.waits # "nothing" => ~Sending
      /\ open /\ ~client.abandoned => InStep
      /\ client.message.part \in Nat \ {0} /\ client.message.of \in Nat \ {0}
      /\ Len(inbox) \in Nat /\ Len(pending) \in Nat /\ inbox \in Seq(Frames)
      /\ "data" \notin Controls /\ "nothing" \notin Controls
  <2>1. "data" \notin Controls /\ "nothing" \notin Controls
    BY DEF Controls
  <2> QED
    BY <2>1, ClientFields, EmptyFacts DEF MessageInv, TypeOK
<1>1. CASE ServerStep
  <2>1. client' = client
    BY <1>1, ServerShape
  <2>2. open' /\ ~client'.abandoned => InStep'
    BY <1>1, <2>1, ServerInStep, ZenonT(30)
  <2>3. /\ client'.message.part <= client'.message.of
        /\ client'.waits # "nothing" => ~Sending'
    BY <1>0, <2>1 DEF Sending
  <2> QED
    BY <2>2, <2>3 DEF MessageInv
<1>2. CASE ClientControls
  <2>1. PICK kind \in Controls :
          /\ open /\ client.waits = "nothing"
          /\ inbox' = Append(inbox, [kind |-> kind]) /\ [kind |-> kind] \in Frames
          /\ client'.waits = kind /\ client'.abandoned = (client.abandoned \/ Sending)
          /\ client'.message = Part(client.message.of) /\ pending' = pending
    BY <1>2, ControlsFacts, ZenonT(30) DEF ClientReady, serverVars
  <2>2. client.message.of \in 1..client.message.of
    BY <1>0
  <2>3. client'.message.part = client.message.of /\ client'.message.of = client.message.of
    BY <2>1, <2>2, PartFacts
  <2>4. client'.message.part <= client'.message.of /\ ~Sending'
    BY <1>0, <2>3 DEF Sending
  <2>5. ASSUME ~client'.abandoned PROVE InStep'
    <3>1. pending = <<>> /\ inbox = <<>>
      BY <2>1, <2>5, AllTaken, ZenonT(30)
    <3>2. \A j \in 1..Len(inbox') : inbox'[j] = [kind |-> kind]
      <4>1. Len(inbox) = 0
        BY <3>1, EmptyFacts DEF TypeOK
      <4>2. \A j \in 1..Len(inbox) : FALSE
        BY <4>1
      <4> QED
        BY <2>1, <4>2, SentFrames, ZenonT(30)
    <3>3. \A j \in 1..Len(inbox') : inbox'[j].kind # "data"
      <4>1. [kind |-> kind].kind = kind
        OBVIOUS
      <4>2. kind # "data"
        BY <1>0, ZenonT(30)
      <4> QED
        BY <3>2, <4>1, <4>2, ZenonT(30)
    <3> QED
      BY <2>1, <3>1, <3>3, ZenonT(30) DEF InStep
  <2> QED
    BY <2>4, <2>5, ZenonT(30) DEF MessageInv
<1>3. CASE ClientSends
  <2>1. PICK piece \in Pieces :
          /\ open /\ client.waits = "nothing"
          /\ IF Sending THEN piece = Part(client.message.part + 1) ELSE piece.part = 1
          /\ inbox' = Append(inbox, [kind |-> "data", piece |-> piece])
          /\ [kind |-> "data", piece |-> piece] \in Frames
          /\ client'.message = piece /\ client'.abandoned = client.abandoned
          /\ client'.waits = (IF Final(piece) THEN "data" ELSE "nothing")
          /\ pending' = pending
    BY <1>3, SendsFacts, ZenonT(30) DEF ClientReady, serverVars
  <2>2. client'.waits \notin Controls /\ (client'.waits # "nothing" => Final(piece))
    BY <1>0, <2>1, ZenonT(30)
  <2>3. /\ Len(inbox') = Len(inbox) + 1
        /\ inbox'[Len(inbox) + 1] = [kind |-> "data", piece |-> piece]
        /\ \A j \in 1..Len(inbox) : inbox'[j] = inbox[j]
        /\ \A j \in 1..Len(inbox') : j \in 1..Len(inbox) \/ j = Len(inbox) + 1
    <3>1. \A f \in Frames : inbox' = Append(inbox, f) =>
            /\ Len(inbox') = Len(inbox) + 1 /\ inbox'[Len(inbox) + 1] = f
            /\ \A j \in 1..Len(inbox) : inbox'[j] = inbox[j]
            /\ \A j \in 1..Len(inbox') : j \in 1..Len(inbox) \/ j = Len(inbox) + 1
      BY <1>0, AppendFacts
    <3> QED
      BY <2>1, <3>1, ZenonT(30)
  <2>4. client'.waits # "nothing" => ~Sending'
    <3>1. Final(piece) => ~(piece.part < piece.of)
      BY ServeConsciousAssumption DEF Final, Pieces
    <3> QED
      BY <2>1, <2>2, <3>1, ZenonT(30) DEF Sending
  <2>5. CASE Sending
    <3>1. client.message.part + 1 \in 1..client.message.of
      BY <1>0, <2>5 DEF Sending
    <3>2. /\ piece = Part(client.message.part + 1)
          /\ piece.part = client.message.part + 1 /\ piece.of = client.message.of
          /\ \A k : [piece EXCEPT !.part = k] = Part(k)
      <4>1. piece = Part(client.message.part + 1)
        BY <2>1, <2>5, ZenonT(30)
      <4>2. /\ Part(client.message.part + 1).part = client.message.part + 1
            /\ Part(client.message.part + 1).of = client.message.of
            /\ \A k : [Part(client.message.part + 1) EXCEPT !.part = k] = Part(k)
        BY <3>1, PartFacts, ZenonT(30)
      <4> QED
        BY <4>1, <4>2, ZenonT(30)
    <3>3. client'.message.part <= client'.message.of
      BY <2>1, <3>1, <3>2
    <3>4. \A k : Part(k)' = Part(k)
      BY <2>1, <3>2, ZenonT(30) DEF Part
    <3>5. ASSUME ~client.abandoned PROVE InStep'
      <4>1. /\ pending # <<>> => Len(pending) < client.message.of
            /\ \A i \in 1..Len(pending) : pending[i] = Part(i)
            /\ \A j \in 1..Len(inbox) : inbox[j] = [kind |-> "data", piece |-> Part(Len(pending) + j)]
            /\ Len(pending) + Len(inbox) = client.message.part
        BY <1>0, <2>1, <2>5, <3>5, ZenonT(30) DEF InStep
      <4>2. Len(pending) + Len(inbox') = piece.part /\ Len(pending) + (Len(inbox) + 1) = client.message.part + 1
        BY <1>0, <2>3, <3>2, <4>1
      <4>3. \A j \in 1..Len(inbox') : inbox'[j] = [kind |-> "data", piece |-> Part(Len(pending) + j)]
        BY <2>3, <3>2, <4>1, <4>2, ZenonT(30)
      <4> QED
        BY <2>1, <2>2, <3>2, <3>4, <4>1, <4>2, <4>3, ZenonT(30) DEF InStep
    <3> QED
      BY <2>1, <2>4, <3>3, <3>5, ZenonT(30) DEF MessageInv
  <2>6. CASE ~Sending
    <3>1. piece.part = 1 /\ piece.of \in Nat \ {0}
      BY <2>1, <2>6, ServeConsciousAssumption DEF Pieces
    <3>2. client'.message.part <= client'.message.of
      BY <2>1, <3>1
    <3>3. [piece EXCEPT !.part = 1] = piece
      BY <3>1 DEF Pieces
    <3>4. ASSUME ~client.abandoned PROVE InStep'
      <4>1. pending = <<>> /\ inbox = <<>> /\ Len(pending) = 0 /\ Len(inbox) = 0
        BY <2>1, <2>6, <3>4, AllTaken, EmptyFacts DEF TypeOK
      <4>2. Part(1)' = piece
        BY <2>1, <3>3, ZenonT(30) DEF Part
      <4>3. Len(pending') + Len(inbox') = client'.message.part /\ Len(pending') + 1 = 1
        BY <2>1, <2>3, <3>1, <4>1
      <4>4. \A j \in 1..Len(inbox') : j = 1
        BY <2>3, <4>1
      <4>5. \A j \in 1..Len(inbox') : inbox'[j] = [kind |-> "data", piece |-> Part(1)']
        BY <2>3, <4>1, <4>2, <4>4
      <4>6. \A j \in 1..Len(inbox') : inbox'[j] = [kind |-> "data", piece |-> Part(Len(pending) + j)']
        BY <2>1, <4>3, <4>4, <4>5, ZenonT(30)
      <4>7. \A i \in 1..Len(pending') : FALSE
        BY <2>1, <4>1
      <4> QED
        BY <2>1, <2>2, <4>1, <4>3, <4>6, <4>7, ZenonT(30) DEF InStep
    <3> QED
      BY <2>1, <2>4, <3>2, <3>4, ZenonT(30) DEF MessageInv
  <2> QED
    BY <2>5, <2>6
<1>4. CASE ClientReads
  <2>1. /\ outbox # <<>> /\ client'.message = client.message /\ client'.abandoned = client.abandoned
        /\ client'.waits = "nothing" /\ UNCHANGED <<open, pending, inbox>>
    BY <1>4, ReadsFacts, ZenonT(30) DEF serverVars
  <2>2. inbox = <<>> /\ ~Sending /\ \A j \in 1..Len(inbox) : FALSE
    BY <1>0, <2>1 DEF TurnInv
  <2>3. (\A k : Part(k)' = Part(k)) /\ (Sending' <=> Sending)
    BY <2>1 DEF Part, Sending
  <2>4. ASSUME open, ~client.abandoned PROVE InStep'
    <3>1. CASE client.waits \notin Controls
      BY <1>0, <2>1, <2>2, <2>3, <2>4, <3>1, ZenonT(30) DEF InStep
    <3>2. CASE client.waits \in Controls
      <4>1. pending = <<>>
        BY <1>0, <2>4, <3>2, ZenonT(30) DEF InStep
      <4>2. \A i \in 1..Len(pending) : FALSE
        BY <4>1
      <4> QED
        BY <1>0, <2>1, <2>2, <2>3, <4>1, <4>2, ZenonT(30) DEF InStep
    <3> QED
      BY <3>1, <3>2
  <2> QED
    BY <1>0, <2>1, <2>4, ZenonT(30) DEF MessageInv
<1>5. CASE ClientLeaves
  <2>1. /\ client'.message = client.message /\ client'.abandoned = client.abandoned
        /\ client'.waits = client.waits /\ UNCHANGED <<open, pending, inbox>>
    BY <1>5, LeavesFacts, ZenonT(30) DEF serverVars
  <2>2. (\A k : Part(k)' = Part(k)) /\ (Sending' <=> Sending)
    BY <2>1 DEF Part, Sending
  <2>3. InStep => InStep'
    BY <2>1, <2>2, ZenonT(30) DEF InStep
  <2> QED
    BY <1>0, <2>1, <2>2, <2>3, ZenonT(30) DEF MessageInv
<1> QED
  BY <1>1, <1>2, <1>3, <1>4, <1>5 DEF Next, ClientStep

-------------------------------------------------------------------------------
(* One step keeps what is held within the limit, and fails to decode only  *)
(* what a client abandoned.                                                *)
LEMMA PendingStep ==
  ASSUME TypeOK, MessageInv, PendingIsSound, Next, dispatcher' = dispatcher
  PROVE  PendingIsSound'
<1> DEFINE Bounded == dispatcher.auth /\ ~eclipse => Len(pending) <= LogonLimit
           Blamed == cause = "decode" => client.abandoned
<1>0. Bounded /\ Blamed
  BY DEF PendingIsSound
<1>t. ASSUME Bounded', Blamed' PROVE PendingIsSound'
  BY <1>t, ZenonT(30) DEF PendingIsSound
<1>1. ASSUME pending' = <<>> PROVE Bounded'
  BY <1>1, ServeConsciousAssumption
<1>2. ASSUME UNCHANGED <<eclipse, pending>> PROVE Bounded'
  BY <1>0, <1>2, ZenonT(30)
<1>3. ASSUME Stays, client.abandoned => client'.abandoned PROVE Blamed'
  BY <1>0, <1>3, ZenonT(30) DEF Stays
<1>4. ASSUME cause' # "decode" PROVE Blamed'
  BY <1>4
<1>5. ASSUME Completes(Joined) PROVE pending' = <<>>
  BY <1>5, ZenonT(30) DEF Completes
<1>6. ASSUME ServerStep PROVE client' = client
  BY <1>6, ServerShape
<1>7. CASE ReceiveFails \/ DataOverLimit
  <2>1. cause' # "decode" /\ UNCHANGED <<eclipse, pending>>
    BY <1>7, ReturnFacts, ZenonT(30) DEF ReceiveFails, DataOverLimit
  <2> QED
    BY <1>t, <1>2, <1>4, <2>1, ZenonT(30)
<1>8. CASE GatewayRecord \/ Initialize \/ Allocate \/ Ignored
  <2>1. Stays /\ UNCHANGED <<eclipse, pending, client>>
    BY <1>8, ZenonT(30) DEF GatewayRecord, Initialize, Allocate, Ignored
  <2> QED
    BY <1>t, <1>2, <1>3, <2>1, ZenonT(30)
<1>9. CASE CpicInit
  <2>1. UNCHANGED <<eclipse, pending, client>> /\ (Stays \/ cause' = "not supported")
    BY <1>9, ReturnFacts, ZenonT(30) DEF CpicInit
  <2>2. cause' = "not supported" => cause' # "decode"
    BY ZenonT(30)
  <2> QED
    BY <1>t, <1>2, <1>3, <1>4, <2>1, <2>2, ZenonT(30)
<1>10. CASE DataContinues
  <2>1. /\ Stays /\ ~OverLimit /\ UNCHANGED <<eclipse, client>> /\ Took("data")
        /\ pending' = Append(pending, Head(inbox).piece)
    BY <1>10, ZenonT(30) DEF DataContinues
  <2>2. Len(pending) \in Nat /\ Len(pending') = Len(pending) + 1
    BY <2>1, TookFacts, Sorts, AppendFacts DEF TypeOK
  <2>3. dispatcher.auth /\ ~eclipse => Len(pending') <= LogonLimit
    BY <2>1, <2>2, ServeConsciousAssumption DEF OverLimit
  <2> QED
    BY <1>t, <1>3, <2>1, <2>3, ZenonT(30)
<1>11. CASE LogonRejected \/ Unencodable
  <2>1. cause' # "decode" /\ Completes(Joined)
    BY <1>11, ReturnFacts, ZenonT(30) DEF LogonRejected, Unencodable, Dispatched, IsCall
  <2> QED
    BY <1>t, <1>1, <1>4, <1>5, <2>1, ZenonT(30)
<1>12. CASE LogonAccepted \/ PingDance \/ Answered
  <2>1. Stays /\ Completes(Joined) /\ client' = client
    BY <1>12, ZenonT(30) DEF LogonAccepted, PingDance, Answered, Dispatched, IsCall
  <2> QED
    BY <1>t, <1>1, <1>3, <1>5, <2>1, ZenonT(30)
<1>13. CASE RequestUndecodable
  <2>1. Completes(Joined) /\ ~Whole(Joined) /\ client' = client
    BY <1>13, ZenonT(30) DEF RequestUndecodable, IsCall
  <2>2. client.abandoned
    BY <2>1, WholeMessage, ZenonT(30)
  <2> QED
    BY <1>t, <1>1, <1>5, <2>1, <2>2, ZenonT(30)
<1>14. CASE ClientStep
  <2>1. UNCHANGED serverVars /\ (client.abandoned => client'.abandoned)
    BY <1>14, ControlsFacts, SendsFacts, ReadsFacts, LeavesFacts, ZenonT(30) DEF ClientStep
  <2> QED
    BY <1>t, <1>2, <1>3, <2>1, ZenonT(30) DEF serverVars, Stays
<1> QED
  BY <1>7, <1>8, <1>9, <1>10, <1>11, <1>12, <1>13, <1>14, ZenonT(30) DEF Next, ServerStep

(* A connection starts in the invariant.                                   *)
LEMMA InitialState == Init => ServeInv
<1> SUFFICES ASSUME Init PROVE ServeInv
  OBVIOUS
<1>0. /\ dispatcher \in [auth : BOOLEAN, ping : BOOLEAN]
      /\ open = TRUE /\ counter = 0 /\ conv = 0 /\ eclipse = FALSE /\ pending = <<>>
      /\ invoked = <<>> /\ accepts = 0 /\ cause = "none" /\ inbox = <<>> /\ outbox = <<>>
  BY DEF Init
<1>1. /\ client.here = TRUE /\ client.waits = "nothing" /\ client.message = NoMessage /\ client.controls = 0
      /\ client.conv = 0 /\ client.abandoned = FALSE /\ client.proven = FALSE
      /\ client \in Clients
  <2>1. client = [here |-> TRUE, waits |-> "nothing", message |-> NoMessage, controls |-> 0,
                  conv |-> 0, abandoned |-> FALSE, proven |-> FALSE]
    BY DEF Init
  <2>2. 0 \in Nat
    OBVIOUS
  <2> QED
    BY <2>1, <2>2, ZenonT(30) DEF Clients
<1>2. Len(inbox) = 0 /\ Len(pending) = 0 /\ Len(outbox) = 0
  BY <1>0
<1>3. TypeOK
  <2>1. /\ 0 \in Nat /\ "none" \in Causes /\ <<>> \in Seq(Pieces) /\ <<>> \in Seq(Seq(Pieces))
        /\ <<>> \in Seq(Frames) /\ <<>> \in Seq(Replies)
    BY EmptySeq DEF Causes
  <2> QED
    BY <1>0, <1>1, <2>1, ZenonT(30) DEF TypeOK, Clients
<1>4. (\A i \in 1..Len(inbox) : FALSE) /\ (\A i \in 1..Len(pending) : FALSE) /\ ~(accepts > 0)
  BY <1>0, <1>2
<1>5. TurnInv /\ GateInv
  BY <1>0, <1>4, ZenonT(30) DEF TurnInv, GateInv, Guarded
<1>6. ConvInv
  BY <1>0, <1>1 DEF ConvInv
<1>7. MessageInv
  <2>1. client.message.part = 1 /\ client.message.of = 1 /\ ~Sending
    BY <1>1 DEF NoMessage, Sending
  <2>2. client.message.part <= client.message.of /\ "nothing" \notin Controls
    BY <2>1 DEF Controls
  <2> QED
    BY <1>0, <1>1, <1>4, <2>1, <2>2, ZenonT(30) DEF MessageInv, InStep
<1>8. PendingIsSound
  BY <1>0, <1>2, ServeConsciousAssumption DEF PendingIsSound
<1> QED
  BY <1>3, <1>5, <1>6, <1>7, <1>8 DEF ServeInv

(* The inductive invariant of the serving loop.                            *)
THEOREM ServeInvariant == Spec => []ServeInv
<1>1. Init => ServeInv
  BY InitialState
<1>2. ServeInv /\ [Next /\ UNCHANGED dispatcher]_<<vars, dispatcher>> => ServeInv'
  <2>1. ASSUME ServeInv, Next, dispatcher' = dispatcher PROVE ServeInv'
    <3>1. TypeOK /\ TurnInv /\ GateInv /\ ConvInv /\ MessageInv /\ PendingIsSound
      BY <2>1 DEF ServeInv
    <3>2. TypeOK' /\ TurnInv' /\ GateInv' /\ ConvInv' /\ MessageInv' /\ PendingIsSound'
      BY <2>1, <3>1, TypeStep, TurnStep, GateStep, ConvStep, MessageStep, PendingStep, ZenonT(30)
    <3> QED
      BY <3>2 DEF ServeInv
  <2>2. ASSUME ServeInv, UNCHANGED <<vars, dispatcher>> PROVE ServeInv'
    <3>1. UNCHANGED <<dispatcher, open, counter, conv, eclipse, pending, invoked, accepts, cause, inbox, outbox, client>>
      BY <2>2, ZenonT(30) DEF vars, serverVars
    <3>2. TypeOK'
      BY <2>2, <3>1, ZenonT(30) DEF ServeInv, TypeOK
    <3>3. TurnInv' /\ GateInv'
      BY <2>2, <3>1, ZenonT(30) DEF ServeInv, TurnInv, GateInv, Good, Guarded, Asks
    <3>4. ConvInv' /\ PendingIsSound'
      BY <2>2, <3>1, ZenonT(30) DEF ServeInv, ConvInv, PendingIsSound
    <3>5. MessageInv'
      <4>1. (\A k : Part(k)' = Part(k)) /\ (Sending' <=> Sending)
        BY <3>1 DEF Part, Sending
      <4> QED
        BY <2>2, <3>1, <4>1, ZenonT(30) DEF ServeInv, MessageInv, InStep
    <3> QED
      BY <3>2, <3>3, <3>4, <3>5 DEF ServeInv
  <2> QED
    BY <2>1, <2>2, ZenonT(30)
<1> QED
  BY <1>1, <1>2, PTL DEF Spec

(* AuthenticateLogon gates every logon-accept and every dispatched call,   *)
(* for any number of requests, records and control frames.                 *)
THEOREM LogonGatesCalls == Spec => []GatedByLogon
<1>1. ServeInv => GatedByLogon
  BY ZenonT(30) DEF ServeInv, GateInv, Guarded, GatedByLogon
<1> QED
  BY <1>1, ServeInvariant, PTL

(* Reassembly stays within MaxLogonBytes before the logon and joins the    *)
(* records of one message, whatever the number and length of the messages  *)
(* of a client that finishes what it starts.                               *)
THEOREM ReassemblyIsSound == Spec => []PendingIsSound
<1>1. ServeInv => PendingIsSound
  BY DEF ServeInv
<1> QED
  BY <1>1, ServeInvariant, PTL

(* Every answer to a request or a logon names the client's conversation,   *)
(* however often the connection opens another.                             *)
THEOREM AnswersNameConversation == Spec => []RepliesNameConversation
<1>1. ServeInv => RepliesNameConversation
  <2> SUFFICES ASSUME ServeInv, client.waits = "data", NEW i \in 1..Len(outbox) PROVE outbox[i].conv = client.conv
    BY DEF RepliesNameConversation
  <2>1. outbox \in Seq(Replies) /\ TurnInv /\ ConvInv
    BY DEF ServeInv, TypeOK
  <2>2. outbox # <<>>
    BY <2>1, EmptyFacts
  <2>3. Len(outbox) = 1
    BY <2>1, <2>2 DEF TurnInv
  <2>4. i = 1
    BY <2>3
  <2>5. conv = client.conv /\ outbox[1].conv = conv
    BY <2>1, <2>2 DEF ConvInv
  <2> QED
    BY <2>4, <2>5
<1> QED
  BY <1>1, ServeInvariant, PTL
===============================================================================
