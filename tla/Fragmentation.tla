---------------------------- MODULE Fragmentation -----------------------------
(***************************************************************************)
(* The planner of internal/appc/fragmentation.go and Session.writeDataPlan,*)
(* which writes what it plans: a message goes out as one compact           *)
(* F_SAP_SEND, or as F_ASEND_DATA slices with an F_SEND_DATA barrier every *)
(* now and then and an empty F_RECEIVE at the end.  Every record is checked*)
(* again by EncodeOutgoingDataFragment and by the setup state machine.     *)
(*                                                                         *)
(* A message of length n is the sequence 1..n of its bytes.                *)
(***************************************************************************)
EXTENDS Appc, Integers, FiniteSets, Lists

CONSTANTS
  Slice,           \* MaxApplicationDataFragmentLength
  AsyncSends,      \* MaxAsyncSendsBeforeSync
  MaxLen,          \* bound: the longest message tried
  MaxPlanned       \* bound: the largest maxFragments tried

(* The two constants of the code are not zero.                             *)
ASSUME FragmentationAssumption ==
  Slice \in Nat \ {0} /\ AsyncSends \in Nat \ {0} /\ MaxLen \in Nat /\ MaxPlanned \in Nat

VARIABLES
  input,    \* the message and the options of the planner
  plan,     \* the planned fragments
  next,     \* the index of the fragment that writeDataPlan writes next
  setup,    \* the state of the ClientSetupStateMachine
  records,  \* the records written
  outcome   \* "running", then "sent" or the error

writerVars == <<input, plan, next, setup, records, outcome>>

(* compact is the declared length of finalSapParameters, -1 when they are  *)
(* nil: the CPIC layer hands over a tail that declares the length of what  *)
(* precedes it, or something else.                                         *)
Inputs ==
  [length : 0..MaxLen, compact : {-1} \cup 0..MaxLen, maxLength : {MaxLen, Slice},
   maxFragments : 0..MaxPlanned, streaming : BOOLEAN]

WriterInit ==
  /\ input \in Inputs
  /\ plan = <<>> /\ next = 0 /\ setup = "ready" /\ records = <<>> /\ outcome = "running"

-----------------------------------------------------------------------------
(* Mutant: the barrier comes a record late after the first one.            *)
Mut_LateBarrier(i, n) ==
  LET single == n = 1
      last == single \/ i = n - 1
      barrier == ~last /\ i >= AsyncSends /\ (i - AsyncSends) % (AsyncSends + 2) = 0
  IN  [fc |-> IF single THEN "SapSend" ELSE IF last THEN "Receive"
              ELSE IF barrier THEN "SendData" ELSE "AsyncSendData",
       final |-> last,
       info |-> IF single THEN 5 ELSE IF last \/ barrier THEN 1 ELSE 0,
       vector |-> IF single THEN 12 ELSE 0,
       sap |-> IF single THEN 8 ELSE 0]

(* outgoingFragmentSemantics: fragment i of n.                             *)
Semantics(i, n) ==
  LET single == n = 1
      last == single \/ i = n - 1
      barrier == ~last /\ i >= AsyncSends /\ (i - AsyncSends) % AsyncSends = 0
  IN  [fc |-> IF single THEN "SapSend" ELSE IF last THEN "Receive"
              ELSE IF barrier THEN "SendData" ELSE "AsyncSendData",
       final |-> last,
       info |-> IF single THEN 5 ELSE IF last \/ barrier THEN 1 ELSE 0,
       vector |-> IF single THEN 12 ELSE 0,
       sap |-> IF single THEN 8 ELSE 0]

(* A compact message fits one record and says so in its tail.              *)
Compact(in) == in.compact >= 0 /\ in.length <= Slice
DataFragments(in) == IF Compact(in) THEN 1 ELSE (in.length + Slice - 1) \div Slice
FragmentCount(in) == IF Compact(in) THEN 1 ELSE DataFragments(in) + 1

(* What PlanOutgoingDataFragments refuses before it looks at the policy.   *)
OutOfRange(in) ==
  \/ in.maxFragments < 1 \/ in.length > in.maxLength
  \/ in.compact >= 0 /\ (in.compact # in.length \/ in.length > Slice)
  \/ in.compact < 0 /\ in.length <= Slice

(* Mutant: the streaming policy is not consulted.                          *)
Mut_StreamingUnchecked(in) ==
  IF OutOfRange(in) \/ FragmentCount(in) > in.maxFragments THEN "range" ELSE "none"

(* Its error: the first check that fails decides.                          *)
Refusal(in) ==
  IF OutOfRange(in) THEN "range"
  ELSE IF ~Compact(in) /\ ~in.streaming THEN "state"
  ELSE IF FragmentCount(in) > in.maxFragments THEN "range" ELSE "none"

(* Where slice k starts: clamped to the end of the message.                *)
StartOf(in, k) == IF (k - 1) * Slice > in.length THEN in.length ELSE (k - 1) * Slice

(* Mutants: a slice starts one byte early; the terminator is not counted.  *)
Mut_SliceOverlaps(in) ==
  [k \in 1..FragmentCount(in) |->
     LET sem == Semantics(k - 1, FragmentCount(in))
         from == IF (k - 1) * Slice > in.length THEN in.length
                 ELSE IF k > 1 THEN (k - 1) * Slice - 1 ELSE 0
         to == IF sem.fc = "Receive" THEN from
               ELSE IF from + Slice > in.length THEN in.length ELSE from + Slice
     IN  [sem |-> sem, index |-> k - 1, count |-> FragmentCount(in), length |-> in.length,
          data |-> [b \in 1..(to - from) |-> from + b],
          tail |-> IF Compact(in) THEN in.compact ELSE -1]]
Mut_NoTerminator(in) ==
  [k \in 1..DataFragments(in) |->
     LET sem == Semantics(k - 1, DataFragments(in))
         from == (k - 1) * Slice
         to == IF from + Slice > in.length THEN in.length ELSE from + Slice
     IN  [sem |-> sem, index |-> k - 1, count |-> DataFragments(in), length |-> in.length,
          data |-> [b \in 1..(to - from) |-> from + b],
          tail |-> IF Compact(in) THEN in.compact ELSE -1]]

(* The fragments: the terminator takes no data.                            *)
Planned(in) ==
  [k \in 1..FragmentCount(in) |->
     LET sem == Semantics(k - 1, FragmentCount(in))
         from == StartOf(in, k)
         to == IF sem.fc = "Receive" THEN from
               ELSE IF from + Slice > in.length THEN in.length ELSE from + Slice
     IN  [sem |-> sem, index |-> k - 1, count |-> FragmentCount(in), length |-> in.length,
          data |-> [b \in 1..(to - from) |-> from + b],
          tail |-> IF Compact(in) THEN in.compact ELSE -1]]

Plan ==
  /\ outcome = "running" /\ plan = <<>>
  /\ IF Refusal(input) = "none"
       THEN plan' = Planned(input) /\ UNCHANGED outcome
       ELSE outcome' = Refusal(input) /\ UNCHANGED plan
  /\ UNCHANGED <<input, next, setup, records>>

-----------------------------------------------------------------------------
(* What SnapshotOutgoingDataFragment and EncodeOutgoingDataFragment accept.*)
Encodable(f) ==
  /\ f.count >= 1 /\ f.index \in 0..(f.count - 1)
  /\ f.sem = Semantics(f.index, f.count)
  /\ Len(f.data) <= Slice
  /\ CASE f.count = 1 -> f.tail = f.length
       [] f.count > 1 /\ f.sem.fc # "Receive" -> Len(f.data) >= 1 /\ f.tail = -1
       [] f.count > 1 /\ f.sem.fc = "Receive" -> f.data = <<>> /\ f.tail = -1

(* Mutant: every record declares a full slice.                             *)
Mut_DeclaresSlice(f) ==
  [fc |-> f.sem.fc, final |-> f.sem.vector = 12, data |-> f.data, declared |-> Slice]

(* The record: outgoingOperationInfo declares the length of a slice, a     *)
(* terminator declares the largest one, a compact record none.             *)
Encoded(f) ==
  [fc |-> f.sem.fc, final |-> f.sem.vector = 12, data |-> f.data,
   declared |-> IF f.sem.fc = "SapSend" THEN 0
                ELSE IF f.sem.fc = "Receive" THEN Slice ELSE Len(f.data)]

(* writeDataPlan encodes a fragment, asks the setup machine and sends.     *)
WriteFragment ==
  /\ outcome = "running" /\ plan # <<>> /\ next < Len(plan) /\ setup # "send-barrier-pending"
  /\ LET f == plan[next + 1]
         final == f.sem.fc \in {"SapSend", "Receive"}
     IN  IF Encodable(f) /\ MaySend(setup, f.sem.fc, final)
           THEN /\ setup' = AfterSent(setup, f.sem.fc, final)
                /\ records' = Append(records, Encoded(f))
                /\ next' = next + 1
                /\ outcome' = IF next + 1 = Len(plan) THEN "sent" ELSE "running"
           ELSE outcome' = "refused" /\ UNCHANGED <<setup, records, next>>
  /\ UNCHANGED <<input, plan>>

(* After an F_SEND_DATA the session waits for its acknowledgement: the     *)
(* canonical empty one, one with a return code, or another record; or the  *)
(* read times out.                                                         *)
Acknowledge(rec) ==
  /\ outcome = "running" /\ setup = "send-barrier-pending"
  /\ IF rec.fc = "SendData" /\ rec.rc = "ok"
       THEN setup' = AfterReceived(setup, rec) /\ UNCHANGED outcome
       ELSE outcome' = "barrier failed" /\ UNCHANGED setup
  /\ UNCHANGED <<input, plan, next, records>>

WriterNext ==
  \/ Plan \/ WriteFragment
  \/ \E fc \in {"SendData", "SapSend"}, rc \in {"ok", "error", "short"} :
       Acknowledge([fc |-> fc, rc |-> rc, final |-> FALSE])

WriterSpec == WriterInit /\ [][WriterNext]_writerVars
-----------------------------------------------------------------------------
(* What is on the wire is the message, byte for byte, when writeDataPlan   *)
(* returns without an error, and a prefix of it at any time before.        *)
BytesAreMessage ==
  LET bytes == FlattenSeq([k \in 1..Len(records) |-> records[k].data])
  IN  /\ bytes = [b \in 1..Len(bytes) |-> b]
      /\ outcome = "sent" => Len(bytes) = input.length

(* The same, record by record: the data of record k are the bytes from the *)
(* start of slice k to the start of the next, so that no byte is lost,     *)
(* repeated or out of place between two records, and once everything is    *)
(* sent the last slice ends with the message.                              *)
SlicesAbut ==
  /\ \A k \in 1..Len(records) :
       /\ records[k].data = [b \in 1..Len(records[k].data) |-> StartOf(input, k) + b]
       /\ StartOf(input, k) + Len(records[k].data) = StartOf(input, k + 1)
  /\ StartOf(input, 1) = 0
  /\ outcome = "sent" => StartOf(input, Len(records) + 1) = input.length

(* Neither EncodeOutgoingDataFragment nor the setup machine ever refuses a *)
(* fragment of PlanOutgoingDataFragments: what can be planned can be sent, *)
(* whatever the number of slices and wherever the barriers fall.           *)
PlansAreSendable == outcome # "refused"

(* Once everything is sent the machine waits for the reply; a streamed     *)
(* message has told the partner so with its empty terminator, and a        *)
(* compact one with its final marker.                                      *)
SentAwaitsReply ==
  outcome = "sent" =>
    /\ setup = "response-pending"
    /\ Last(records).fc = (IF Len(records) = 1 THEN "SapSend" ELSE "Receive")
    /\ \A k \in 1..(Len(records) - 1) : records[k].declared = Len(records[k].data) /\ records[k].data # <<>>

(* The flow control of the streaming path: no more than AsyncSends records *)
(* go out between two acknowledged barriers, nor before the first.         *)
BarrierInTime ==
  \A i \in 1..Len(records) : \A j \in i..Len(records) :
    (\A k \in i..j : records[k].fc = "AsyncSendData") => j - i + 1 <= AsyncSends

(* Streaming is never used unless it was enabled, and only when a message  *)
(* does not fit one compact record.                                        *)
StreamsOnlyWhenAllowed ==
  \A k \in 1..Len(records) : records[k].fc # "SapSend" => input.streaming /\ input.length > Slice

(* The records that writeDataPlan wrote are the message byte for byte, in  *)
(* slices only if streaming is allowed and needed, and after the last the  *)
(* partner knows that it is its turn.  What PlanOutgoingDataFragments      *)
(* plans, EncodeOutgoingDataFragment and the setup machine take, with a    *)
(* barrier at least every AsyncSends records.                              *)
WireIsMessage ==
  /\ BytesAreMessage /\ SlicesAbut /\ SentAwaitsReply /\ StreamsOnlyWhenAllowed
  /\ PlansAreSendable /\ BarrierInTime
=============================================================================
