-------------------------------- MODULE Pool --------------------------------
(***************************************************************************)
(* The bounded resource pool of internal/pool/pool.go.                     *)
(*                                                                         *)
(* Each process is one goroutine that calls Acquire, uses the lease it     *)
(* gets and gives it back with Release or Discard.  Every section that     *)
(* holds Pool.mu is one atomic step; the factory's New, Validate and Close *)
(* run without the mutex and are steps of their own.  The janitor and the  *)
(* caller of Pool.Close are two more threads.                              *)
(*                                                                         *)
(* A resource identity may be used again once the resource is closed:      *)
(* "live" is the set of resources that are physically open.                *)
(***************************************************************************)
EXTENDS Naturals, Sequences, FiniteSets, Lists

CONSTANTS
  Procs,         \* the goroutines that call Acquire
  Res,           \* identities of resources
  MaxSize,       \* Config.MaxSize
  HasJanitor,    \* Config.MaxIdleTime > 0
  CloseDeadline, \* whether the context passed to Pool.Close may end
  Permit,        \* a grant without a resource (grant.hasResource = false)
  None           \* no resource, no grant

ASSUME PoolAssumption ==
  /\ MaxSize \in Nat \ {0}
  /\ HasJanitor \in BOOLEAN
  /\ CloseDeadline \in BOOLEAN
  /\ Permit \notin Res /\ None \notin Res /\ Permit # None

ASSUME ProcsFinite == IsFiniteSet(Procs)

VARIABLES
  idle,          \* Pool.idle, the most recently parked resource last
  leased,        \* Pool.leased
  freeSlots,     \* Pool.freeSlots
  waiters,       \* Pool.waiters: the queued Acquire calls, oldest first
  closed,        \* Pool.closed and Pool.closedCh
  pc,            \* where each process is
  ctxDone,       \* whether the context of the process's Acquire has ended
  held,          \* the resource the process works on
  grant,         \* content of the process's one-slot waiter channel
  live,          \* the resources that are open
  janitor,       \* where the janitor goroutine is
  expired,       \* what evictExpired has still to close
  closer,        \* where the caller of Close is
  closeList,     \* the idle resources Close took and has still to close
  queuedAtClose  \* history: who was queued when Close ran

poolVars == <<idle, leased, freeSlots, waiters, closed>>
procVars == <<pc, ctxDone, held, grant>>
otherVars == <<janitor, expired, closer, closeList, queuedAtClose>>
vars == <<poolVars, procVars, live, otherVars>>

Locations == {"out", "acquire", "wait", "abandon", "useIdle", "stale",
              "createLeased", "leased", "closeResource"}

TypeOK ==
  /\ idle \in Seq(Res) /\ leased \in Nat /\ freeSlots \in Nat
  /\ waiters \in Seq(Procs) /\ closed \in BOOLEAN
  /\ pc \in [Procs -> Locations]
  /\ ctxDone \in [Procs -> BOOLEAN]
  /\ held \in [Procs -> Res \cup {None}]
  /\ grant \in [Procs -> Res \cup {Permit, None}]
  /\ live \subseteq Res
  /\ janitor \in {"off", "running", "evicting", "stopped"}
  /\ expired \subseteq Res
  /\ closer \in {"open", "waitJanitor", "closeIdle", "returned"}
  /\ closeList \subseteq Res
  /\ queuedAtClose \subseteq Procs

Init ==
  /\ idle = <<>> /\ leased = 0 /\ freeSlots = MaxSize
  /\ waiters = <<>> /\ closed = FALSE
  /\ pc = [p \in Procs |-> "out"]
  /\ ctxDone = [p \in Procs |-> FALSE]
  /\ held = [p \in Procs |-> None]
  /\ grant = [p \in Procs |-> None]
  /\ live = {}
  /\ janitor = IF HasJanitor THEN "running" ELSE "off"
  /\ expired = {} /\ closer = "open" /\ closeList = {}
  /\ queuedAtClose = {}

-----------------------------------------------------------------------------
(* The sections that run under Pool.mu.                                    *)

Smaller(m, n) == IF m <= n THEN m ELSE n

Goto(p, l) == pc' = [pc EXCEPT ![p] = l]

(* The channels after the first r waiters got the newest r of the idle     *)
(* resources id, and the next s waiters a permit.                          *)
Delivered(id, r, s, g) ==
  [q \in Procs |->
     IF \E i \in 1..r : waiters[i] = q
       THEN id[Len(id) + 1 - (CHOOSE i \in 1..r : waiters[i] = q)]
     ELSE IF \E i \in (r + 1)..(r + s) : waiters[i] = q
       THEN Permit
     ELSE g[q]]

(* How many waiters get one of the idle resources id, and how many others  *)
(* one of f free slots.                                                    *)
ResourceGrants(id) == Smaller(Len(waiters), Len(id))
SlotGrants(id, f) == Smaller(Len(waiters) - ResourceGrants(id), f)

(* grantAvailable: idle resources, newest first, and then free slots go to *)
(* the waiters in queue order until one side runs out.  id, l, f and g are *)
(* the idle stack, the counters and the channels when it is called.        *)
GrantAvailable(id, l, f, g) ==
  /\ waiters' = SubSeq(waiters, ResourceGrants(id) + SlotGrants(id, f) + 1, Len(waiters))
  /\ idle' = SubSeq(id, 1, Len(id) - ResourceGrants(id))
  /\ leased' = l + ResourceGrants(id) + SlotGrants(id, f)
  /\ freeSlots' = f - SlotGrants(id, f)
  /\ grant' = Delivered(id, ResourceGrants(id), SlotGrants(id, f), g)

(* Mutants: the slot is not counted free; grantAvailable is not called.    *)
Mut_SlotLost(g) == GrantAvailable(idle, leased - 1, freeSlots, g)
Mut_NoGrant(g) ==
  /\ leased' = leased - 1 /\ freeSlots' = freeSlots + 1 /\ grant' = g
  /\ UNCHANGED <<idle, waiters>>

(* leased--, freeSlots++, grantAvailable(): the slot of a resource that    *)
(* is gone, or that never came to be, is given up.                         *)
ReturnSlot(g) == GrantAvailable(idle, leased - 1, freeSlots + 1, g)

(* Mutants of putBack: the newest waiter is served; waiters are ignored;   *)
(* a resource released to a closed pool is parked.                         *)
Mut_ServeNewest(p, r, g) ==
  /\ held' = [held EXCEPT ![p] = None] /\ Goto(p, "out")
  /\ IF waiters # <<>>
       THEN /\ grant' = [g EXCEPT ![Last(waiters)] = r] /\ waiters' = SubSeq(waiters, 1, Len(waiters) - 1)
            /\ UNCHANGED <<idle, leased, freeSlots>>
       ELSE /\ leased' = leased - 1 /\ idle' = Append(idle, r) /\ grant' = g
            /\ UNCHANGED <<freeSlots, waiters>>
Mut_AlwaysPark(p, r, g) ==
  /\ leased' = leased - 1 /\ idle' = Append(idle, r) /\ grant' = g
  /\ held' = [held EXCEPT ![p] = None] /\ Goto(p, "out")
  /\ UNCHANGED <<freeSlots, waiters>>

(* putBack: p gives back resource r.  On a closed pool p must close it,    *)
(* otherwise it goes to the oldest waiter, or to the idle stack.           *)
PutBack(p, r, g) ==
  \/ /\ closed
     /\ leased' = leased - 1
     /\ held' = [held EXCEPT ![p] = r] /\ Goto(p, "closeResource")
     /\ grant' = g
     /\ UNCHANGED <<idle, freeSlots, waiters>>
  \/ /\ ~closed /\ waiters # <<>>
     /\ grant' = [g EXCEPT ![Head(waiters)] = r]
     /\ waiters' = Tail(waiters)
     /\ held' = [held EXCEPT ![p] = None] /\ Goto(p, "out")
     /\ UNCHANGED <<idle, leased, freeSlots>>
  \/ /\ ~closed /\ waiters = <<>>
     /\ leased' = leased - 1
     /\ idle' = Append(idle, r)
     /\ grant' = g
     /\ held' = [held EXCEPT ![p] = None] /\ Goto(p, "out")
     /\ UNCHANGED <<freeSlots, waiters>>

-----------------------------------------------------------------------------
(* Acquire                                                                 *)

(* A goroutine calls Acquire, possibly with a context that already ended.  *)
CallAcquire(p) ==
  /\ pc[p] = "out" /\ Goto(p, "acquire")
  /\ \E d \in BOOLEAN : ctxDone' = [ctxDone EXCEPT ![p] = d]
  /\ queuedAtClose' = queuedAtClose \ {p}
  /\ UNCHANGED <<poolVars, held, grant, live, janitor, expired, closer, closeList>>

(* The context (or AcquireTimeout) ends while Acquire is under way.        *)
ContextEnds(p) ==
  /\ pc[p] \in {"acquire", "wait", "useIdle"} /\ ~ctxDone[p]
  /\ ctxDone' = [ctxDone EXCEPT ![p] = TRUE]
  /\ UNCHANGED <<poolVars, pc, held, grant, live, otherVars>>

(* Loop head, first two returns: ctx.Err() and ErrClosed.                  *)
AcquireFails(p) ==
  /\ pc[p] = "acquire" /\ (ctxDone[p] \/ closed)
  /\ Goto(p, "out")
  /\ UNCHANGED <<poolVars, ctxDone, held, grant, live, otherVars>>

(* Loop head: the newest idle resource is taken and has to be validated.   *)
AcquireIdle(p) ==
  /\ pc[p] = "acquire" /\ ~ctxDone[p] /\ ~closed /\ idle # <<>>
  /\ held' = [held EXCEPT ![p] = Last(idle)]
  /\ idle' = SubSeq(idle, 1, Len(idle) - 1)
  /\ leased' = leased + 1
  /\ Goto(p, "useIdle")
  /\ UNCHANGED <<freeSlots, waiters, closed, ctxDone, grant, live, otherVars>>

(* Mutant: the test for a free slot is off by one.                         *)
Mut_SlotOffByOne(p) ==
  /\ pc[p] = "acquire" /\ ~ctxDone[p] /\ ~closed /\ idle = <<>> /\ freeSlots >= 0
  /\ freeSlots' = freeSlots - 1
  /\ leased' = leased + 1
  /\ Goto(p, "createLeased")
  /\ UNCHANGED <<idle, waiters, closed, ctxDone, held, grant, live, otherVars>>

(* Loop head: a free slot is reserved for a resource to be created.        *)
AcquireSlot(p) ==
  /\ pc[p] = "acquire" /\ ~ctxDone[p] /\ ~closed /\ idle = <<>> /\ freeSlots > 0
  /\ freeSlots' = freeSlots - 1
  /\ leased' = leased + 1
  /\ Goto(p, "createLeased")
  /\ UNCHANGED <<idle, waiters, closed, ctxDone, held, grant, live, otherVars>>

(* Loop head: nothing is available, the call queues with a new channel.    *)
AcquireQueue(p) ==
  /\ pc[p] = "acquire" /\ ~ctxDone[p] /\ ~closed /\ idle = <<>> /\ freeSlots = 0
  /\ waiters' = Append(waiters, p)
  /\ Goto(p, "wait")
  /\ UNCHANGED <<idle, leased, freeSlots, closed, ctxDone, held, grant, live, otherVars>>

(* The select receives a grant: a resource to validate or a permit.        *)
TakeGrant(p) ==
  /\ pc[p] = "wait" /\ grant[p] # None
  /\ \/ /\ grant[p] = Permit
        /\ Goto(p, "createLeased") /\ UNCHANGED held
     \/ /\ grant[p] # Permit
        /\ Goto(p, "useIdle") /\ held' = [held EXCEPT ![p] = grant[p]]
  /\ grant' = [grant EXCEPT ![p] = None]
  /\ UNCHANGED <<poolVars, ctxDone, live, otherVars>>

(* The select sees ctx.Done() or closedCh, even with a grant in the channel. *)
StopWaiting(p) ==
  /\ pc[p] = "wait" /\ (ctxDone[p] \/ closed)
  /\ Goto(p, "abandon")
  /\ UNCHANGED <<poolVars, ctxDone, held, grant, live, otherVars>>

(* abandon, removeWaiter found the channel still queued.                   *)
AbandonQueued(p) ==
  /\ pc[p] = "abandon"
  /\ \E i \in 1..Len(waiters) :
       waiters[i] = p /\ waiters' = RemoveAt(waiters, i)
  /\ Goto(p, "out")
  /\ UNCHANGED <<idle, leased, freeSlots, closed, ctxDone, held, grant, live, otherVars>>

(* Mutant: abandon ignores a grant that is already in the channel.         *)
Mut_GrantForgotten(p) ==
  /\ pc[p] = "abandon" /\ grant[p] # None
  /\ grant' = [grant EXCEPT ![p] = None] /\ Goto(p, "out")
  /\ UNCHANGED <<poolVars, ctxDone, held, live, otherVars>>

(* abandon, the grant already in the channel goes back to the pool.        *)
AbandonGranted(p) ==
  /\ pc[p] = "abandon" /\ grant[p] # None
  /\ LET g == [grant EXCEPT ![p] = None]
     IN  \/ grant[p] # Permit /\ PutBack(p, grant[p], g)
         \/ grant[p] = Permit /\ ReturnSlot(g) /\ Goto(p, "out") /\ UNCHANGED held
  /\ UNCHANGED <<closed, ctxDone, live, otherVars>>

(* useIdle, Validate succeeds: the caller gets its lease.                  *)
Validated(p) ==
  /\ pc[p] = "useIdle" /\ Goto(p, "leased")
  /\ UNCHANGED <<poolVars, ctxDone, held, grant, live, otherVars>>

(* useIdle, Validate fails: the resource is closed outside the mutex ...   *)
CloseStale(p) ==
  /\ pc[p] = "useIdle" /\ Goto(p, "stale")
  /\ live' = live \ {held[p]}
  /\ held' = [held EXCEPT ![p] = None]
  /\ UNCHANGED <<poolVars, ctxDone, grant, otherVars>>

(* ... then its slot is given up and Acquire starts over.                  *)
RetryAcquire(p) ==
  /\ pc[p] = "stale" /\ Goto(p, "acquire")
  /\ ReturnSlot(grant)
  /\ UNCHANGED <<closed, ctxDone, held, live, otherVars>>

(* createLeased, factory.New succeeds.                                     *)
NewSucceeds(p) ==
  /\ pc[p] = "createLeased" /\ Goto(p, "leased")
  /\ \E r \in Res \ live :
       live' = live \cup {r} /\ held' = [held EXCEPT ![p] = r]
  /\ UNCHANGED <<poolVars, ctxDone, grant, otherVars>>

(* createLeased, factory.New fails: the reserved slot is given up.         *)
NewFails(p) ==
  /\ pc[p] = "createLeased" /\ Goto(p, "out")
  /\ ReturnSlot(grant)
  /\ UNCHANGED <<closed, ctxDone, held, live, otherVars>>

-----------------------------------------------------------------------------
(* Lease.Release and Lease.Discard.  sync.Once makes the first of them the *)
(* only one with an effect, which is the guard on pc.                      *)

Release(p) ==
  /\ pc[p] = "leased"
  /\ PutBack(p, held[p], grant)
  /\ UNCHANGED <<closed, ctxDone, live, otherVars>>

(* discard gives the slot up before it closes the resource.                *)
Discard(p) ==
  /\ pc[p] = "leased" /\ Goto(p, "closeResource")
  /\ ReturnSlot(grant)
  /\ UNCHANGED <<closed, ctxDone, held, live, otherVars>>

CloseResource(p) ==
  /\ pc[p] = "closeResource" /\ Goto(p, "out")
  /\ live' = live \ {held[p]}
  /\ held' = [held EXCEPT ![p] = None]
  /\ UNCHANGED <<poolVars, ctxDone, grant, otherVars>>

-----------------------------------------------------------------------------
(* The janitor.  putBack stamps a resource with the time at which it is    *)
(* appended, so what has expired is always a prefix of the idle stack.     *)

EvictExpired ==
  /\ janitor = "running"
  /\ \E k \in 1..Len(idle) :
       /\ expired' = ToSet(SubSeq(idle, 1, k))
       /\ GrantAvailable(SubSeq(idle, k + 1, Len(idle)), leased, freeSlots + k, grant)
  /\ janitor' = "evicting"
  /\ UNCHANGED <<closed, pc, ctxDone, held, live, closer, closeList, queuedAtClose>>

CloseExpired ==
  /\ janitor = "evicting"
  /\ \E r \in expired :
       /\ expired' = expired \ {r} /\ live' = live \ {r}
       /\ janitor' = IF expired = {r} THEN "running" ELSE "evicting"
  /\ UNCHANGED <<poolVars, procVars, closer, closeList, queuedAtClose>>

(* The janitor sees janitorStop closed and closes janitorDone.             *)
StopJanitor ==
  /\ janitor = "running" /\ closer # "open"
  /\ janitor' = "stopped"
  /\ UNCHANGED <<poolVars, procVars, live, expired, closer, closeList, queuedAtClose>>

-----------------------------------------------------------------------------
(* Pool.Close.  A second call returns ErrClosed without any effect.        *)

(* Mutant: the idle resources stay in the pool's list.                     *)
Mut_IdleKept ==
  /\ ~closed /\ closed' = TRUE
  /\ closeList' = ToSet(idle) /\ UNCHANGED idle
  /\ closer' = IF HasJanitor THEN "waitJanitor" ELSE "closeIdle"
  /\ queuedAtClose' = ToSet(waiters)
  /\ UNCHANGED <<leased, freeSlots, waiters, procVars, live, janitor, expired>>

CloseBegins ==
  /\ ~closed /\ closed' = TRUE
  /\ closeList' = ToSet(idle) /\ idle' = <<>>
  /\ closer' = IF HasJanitor THEN "waitJanitor" ELSE "closeIdle"
  /\ queuedAtClose' = ToSet(waiters)
  /\ UNCHANGED <<leased, freeSlots, waiters, procVars, live, janitor, expired>>

JanitorDone ==
  /\ closer = "waitJanitor" /\ janitor = "stopped"
  /\ closer' = "closeIdle"
  /\ UNCHANGED <<poolVars, procVars, live, janitor, expired, closeList, queuedAtClose>>

(* Close's context ends before the janitor has stopped.                    *)
CloseGivesUp ==
  /\ CloseDeadline /\ closer = "waitJanitor"
  /\ closer' = "returned"
  /\ UNCHANGED <<poolVars, procVars, live, janitor, expired, closeList, queuedAtClose>>

CloseIdle ==
  /\ closer = "closeIdle"
  /\ \/ /\ closeList = {} /\ closer' = "returned"
        /\ UNCHANGED <<live, closeList>>
     \/ \E r \in closeList :
          /\ closeList' = closeList \ {r} /\ live' = live \ {r}
          /\ UNCHANGED closer
  /\ UNCHANGED <<poolVars, procVars, janitor, expired, queuedAtClose>>

-----------------------------------------------------------------------------

(* Everything a goroutine does once it has called Acquire.                 *)
Step(p) ==
  \/ AcquireFails(p) \/ AcquireIdle(p) \/ AcquireSlot(p) \/ AcquireQueue(p)
  \/ TakeGrant(p) \/ StopWaiting(p) \/ AbandonQueued(p) \/ AbandonGranted(p)
  \/ Validated(p) \/ CloseStale(p) \/ RetryAcquire(p)
  \/ NewSucceeds(p) \/ NewFails(p)
  \/ Release(p) \/ Discard(p) \/ CloseResource(p)

JanitorStep == CloseExpired \/ StopJanitor

CloserStep == JanitorDone \/ CloseGivesUp \/ CloseIdle

Next ==
  \/ \E p \in Procs : CallAcquire(p) \/ ContextEnds(p) \/ Step(p)
  \/ EvictExpired \/ JanitorStep
  \/ CloseBegins \/ CloserStep

Spec == Init /\ [][Next]_vars

(* Goroutines are scheduled fairly, factory calls return, and every lease  *)
(* is given back.  Nobody has to call Acquire or Close, no context has to  *)
(* end and the janitor's ticker owes no eviction.                          *)
Fairness ==
  /\ \A p \in Procs : WF_vars(Step(p))
  /\ WF_vars(JanitorStep)
  /\ WF_vars(CloserStep)

FairSpec == Spec /\ Fairness
-----------------------------------------------------------------------------
(* Properties                                                              *)

(* The processes that an increment of Pool.leased stands for.              *)
Holders ==
  {p \in Procs : \/ pc[p] \in {"useIdle", "stale", "createLeased", "leased"}
                 \/ grant[p] # None}

(* "MaxSize is the maximum number of live resources (idle plus leased)":   *)
(* the counters kept by Acquire, putBack, discard, abandon, evictExpired   *)
(* and Close always add up to MaxSize, and after Close only slots of       *)
(* resources released to the closed pool are missing.                      *)
SlotConservation ==
  /\ ~closed => Len(idle) + leased + freeSlots = MaxSize
  /\ closed => idle = <<>> /\ leased + freeSlots <= MaxSize

(* Pool.leased counts exactly the Acquire calls that own a slot, those     *)
(* whose grant is still in its channel included: no path of Acquire,       *)
(* useIdle, createLeased, abandon or putBack loses or doubles a slot.      *)
LeasedCountsHolders == leased = Cardinality(Holders)

(* "so there are no lost wakeups": while a call is queued nothing is       *)
(* available; every section that frees something hands it over.            *)
NoLostWakeup == waiters # <<>> => idle = <<>> /\ freeSlots = 0

OwnerCount(r) ==
  LET One(b) == IF b THEN 1 ELSE 0
  IN  Cardinality({i \in DOMAIN idle : idle[i] = r})
      + Cardinality({p \in Procs : held[p] = r})
      + Cardinality({p \in Procs : grant[p] = r})
      + One(r \in expired) + One(r \in closeList)

(* An open resource has exactly one owner (the idle stack, a lease or call *)
(* in progress, a channel, the janitor or Close) and a closed one none: no *)
(* resource is leased twice, leaked by abandon, closed twice or used after *)
(* it was closed.                                                          *)
SoleOwner == \A r \in Res : OwnerCount(r) = IF r \in live THEN 1 ELSE 0

(* The leases that are out, for those who use the pool.                    *)
LeasesOut ==
  INSTANCE Leases WITH
    Holders <- Procs, Resources <- Res, Limit <- MaxSize, Nobody <- None,
    lent <- [p \in Procs |-> IF pc[p] = "leased" THEN held[p] ELSE None]

(* "a bounded ... pool": what Acquire, Release and Discard show their      *)
(* callers is the abstract pool of Leases, with at most MaxSize leases and *)
(* no resource in two of them.                                             *)
ImplementsLeases == LeasesOut!Spec

(* Queued calls are granted in the order in which they queued, and a call  *)
(* that has not queued takes a resource or a slot only when nobody waits.  *)
ServedInOrder ==
  [][/\ \A i, j \in DOMAIN waiters :
          i < j /\ grant'[waiters[j]] # None => grant'[waiters[i]] # None
     /\ \A p \in Procs :
          pc[p] = "acquire" /\ pc'[p] \in {"useIdle", "createLeased"}
            => waiters = <<>>]_vars

(* A queued Acquire does not wait forever: it is handed a resource or a    *)
(* slot, or sees the pool closed, even if its context never ends.          *)
QueuedCallWakes == \A p \in Procs : pc[p] = "wait" ~> pc[p] # "wait"

(* "Leased resources are closed when they are later released": once Close  *)
(* was called, and its context does not end, every resource gets closed.   *)
ClosedPoolDrains == closed ~> live = {}

(* "queued waiters wake with ErrClosed" (Close): a call that was queued    *)
(* when the pool was closed does not end with a lease.                     *)
QueuedWaitersGetErrClosed == \A p \in queuedAtClose : pc[p] # "leased"

(* "Close shuts the pool down and closes every idle resource": once Close  *)
(* has returned none of the idle resources it took is left open.           *)
CloseClosesIdle == closer = "returned" => closeList = {}
=============================================================================
