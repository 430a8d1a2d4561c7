------------------------------- MODULE Epoch -------------------------------
(***************************************************************************)
(* foundation/epoch: EpochDomain, three-epoch memory reclamation, and      *)
(* EpochStack, the Treiber stack that uses it.                             *)
(*                                                                         *)
(* Every atomic load, store and compare-exchange of the code is one        *)
(* action, executed in one total order (the memory orders are not          *)
(* modelled).  pc[t] is the operation thread t is about to execute.  A     *)
(* node is allocated once: its address is not used again after it is       *)
(* freed, so that a use of a freed node can be told.                       *)
(*                                                                         *)
(* An operator named Bug... is a wrong variant of the definition after it, *)
(* used to confirm that a property notices the mistake.                    *)
(***************************************************************************)
EXTENDS Integers, FiniteSets, LinkedList

CONSTANTS
  Thread,
  Node,      \* nodes of the stack
  Null,      \* nullptr
  MaxEpoch   \* bound: no try_advance starts beyond this epoch

ASSUME EpochAssumption ==
  IsFiniteSet(Thread) /\ IsFiniteSet(Node) /\ Null \notin Node /\ MaxEpoch \in Nat

VARIABLES
  \* EpochDomain
  globalEpoch,  \* global_epoch_
  threadCount,  \* thread_count_; record threadCount is head_, 1 the last one
  localEpoch,   \* ThreadRecord::local_epoch, by record
  active,       \* ThreadRecord::active, by record
  globalRetire, \* global_retire_[0..2]; each operation holds the slot's mutex
  \* EpochStack
  head,         \* head_
  next,         \* Node::next
  fresh,        \* nodes not allocated yet
  freed,        \* nodes reclaimed
  \* the threads
  pc,
  record,       \* thread_local ThreadState::record, 0 when unregistered
  cursor,       \* r in get_or_create_record and try_advance, 0 is nullptr
  epoch,        \* g in enter and do_retire, G in try_advance
  old,          \* old in push and pop
  succ,         \* next in pop
  node,         \* n in push; removed in pop
  toReclaim,    \* to_reclaim in try_advance
  entryEpoch,   \* history: globalEpoch when the section was last entered
  retiredIn,    \* history: the epoch do_retire read for the node
  late          \* history: threads that moved a slot out after a further advance

recordVars == <<threadCount, localEpoch, active>>
domainVars == <<globalEpoch, recordVars, globalRetire>>
stackVars  == <<head, next, fresh>>
popVars    == <<old, succ, node>>
historyVars == <<entryEpoch, retiredIn, late>>
vars == <<domainVars, stackVars, freed, pc, record, cursor, epoch, popVars,
          toReclaim, historyVars>>

kEBREpochs == 3

\* The record a walk over the list starts with: head_.
HeadRecord == threadCount

Goto(t, label) == pc' = [pc EXCEPT ![t] = label]

\* Where the thread holds a Guard: enter() has returned, exit() has not.
InSection(t) == pc[t] \in {"popLoad", "popNext", "popCas", "exit"}
\* Where the thread holds a node it read from head_ and may dereference.
Dereferences(t) == pc[t] \in {"popNext", "popCas"}

Locals ==
  /\ cursor = [t \in Thread |-> 0]
  /\ epoch = [t \in Thread |-> 0]
  /\ old = [t \in Thread |-> Null]
  /\ succ = [t \in Thread |-> Null]
  /\ node = [t \in Thread |-> Null]
  /\ toReclaim = [t \in Thread |-> {}]
  /\ entryEpoch = [t \in Thread |-> 0]
  /\ retiredIn = [n \in Node |-> 0]
  /\ late = {}
  /\ pc = [t \in Thread |-> "idle"]

Empty ==
  /\ globalEpoch = 0
  /\ globalRetire = [s \in 0..kEBREpochs - 1 |-> {}]
  /\ head = Null
  /\ next = [n \in Node |-> Null]
  /\ fresh = Node
  /\ freed = {}

\* n records none of which is in use.
Records(n) ==
  /\ threadCount = n
  /\ localEpoch = [r \in 1..n |-> 0]
  /\ active = [r \in 1..n |-> FALSE]

Init == Empty /\ Locals /\ Records(0) /\ record = [t \in Thread |-> 0]

-----------------------------------------------------------------------------
(* EpochStack::push                                                        *)

pushLoad(t) ==
  /\ pc[t] = "idle"
  /\ \E n \in fresh :
       /\ fresh' = fresh \ {n}
       /\ node' = [node EXCEPT ![t] = n]
  /\ old' = [old EXCEPT ![t] = head]
  /\ Goto(t, "pushCas")
  /\ UNCHANGED <<domainVars, head, next, freed, record, cursor, epoch, succ, toReclaim,
                 historyVars>>

pushCas(t) ==
  /\ pc[t] = "pushCas"
  /\ next' = [next EXCEPT ![node[t]] = old[t]]
  /\ \/ /\ head = old[t]
        /\ head' = node[t]
        /\ node' = [node EXCEPT ![t] = Null]
        /\ Goto(t, "idle")
        /\ UNCHANGED old
     \/ /\ head # old[t]
        /\ old' = [old EXCEPT ![t] = head]
        /\ UNCHANGED <<head, node, pc>>
  /\ UNCHANGED <<domainVars, fresh, freed, record, cursor, epoch, succ, toReclaim, historyVars>>

-----------------------------------------------------------------------------
(* EpochDomain::tl and get_or_create_record, on a thread's first enter.    *)

popStart(t) ==
  /\ pc[t] = "idle"
  /\ IF record[t] = 0
     THEN /\ cursor' = [cursor EXCEPT ![t] = HeadRecord]
          /\ Goto(t, "claim")
     ELSE /\ Goto(t, "enterLoad")
          /\ UNCHANGED cursor
  /\ UNCHANGED <<domainVars, stackVars, freed, record, epoch, popVars, toReclaim, historyVars>>

\* The compare-exchange on the active flag of the record under the cursor.
claimRecord(t) ==
  /\ pc[t] = "claim" /\ cursor[t] > 0
  /\ IF active[cursor[t]]
     THEN /\ cursor' = [cursor EXCEPT ![t] = @ - 1]
          /\ UNCHANGED <<active, record, pc>>
     ELSE /\ active' = [active EXCEPT ![cursor[t]] = TRUE]
          /\ record' = [record EXCEPT ![t] = cursor[t]]
          /\ Goto(t, "enterLoad")
          /\ UNCHANGED cursor
  /\ UNCHANGED <<globalEpoch, threadCount, localEpoch, globalRetire, stackVars, freed, epoch,
                 popVars, toReclaim, historyVars>>

createRecord(t) ==
  /\ pc[t] = "claim" /\ cursor[t] = 0
  /\ threadCount' = threadCount + 1
  /\ localEpoch' = [r \in 1..threadCount + 1 |-> IF r <= threadCount THEN localEpoch[r] ELSE 0]
  /\ active' = [r \in 1..threadCount + 1 |-> IF r <= threadCount THEN active[r] ELSE TRUE]
  /\ record' = [record EXCEPT ![t] = threadCount + 1]
  /\ Goto(t, "enterLoad")
  /\ UNCHANGED <<globalEpoch, globalRetire, stackVars, freed, cursor, epoch, popVars,
                 toReclaim, historyVars>>

\* The thread ends: ~ThreadState.  Another thread may start in its place.
threadExit(t) ==
  /\ pc[t] = "idle" /\ record[t] # 0
  /\ active' = [active EXCEPT ![record[t]] = FALSE]
  /\ record' = [record EXCEPT ![t] = 0]
  /\ UNCHANGED <<globalEpoch, threadCount, localEpoch, globalRetire, stackVars, freed, pc,
                 cursor, epoch, popVars, toReclaim, historyVars>>

-----------------------------------------------------------------------------
(* EpochStack::pop and the Guard in it.                                    *)

enterLoad(t) ==
  /\ pc[t] = "enterLoad"
  /\ epoch' = [epoch EXCEPT ![t] = globalEpoch]
  /\ Goto(t, "enterLocal")
  /\ UNCHANGED <<domainVars, stackVars, freed, record, cursor, popVars, toReclaim, historyVars>>

enterLocal(t) ==
  /\ pc[t] = "enterLocal"
  /\ localEpoch' = [localEpoch EXCEPT ![record[t]] = epoch[t]]
  /\ Goto(t, "enterActive")
  /\ UNCHANGED <<globalEpoch, threadCount, active, globalRetire, stackVars, freed, record,
                 cursor, epoch, popVars, toReclaim, historyVars>>

enterActive(t) ==
  /\ pc[t] = "enterActive"
  /\ active' = [active EXCEPT ![record[t]] = TRUE]
  /\ entryEpoch' = [entryEpoch EXCEPT ![t] = globalEpoch]
  /\ Goto(t, "popLoad")
  /\ UNCHANGED <<globalEpoch, threadCount, localEpoch, globalRetire, stackVars, freed, record,
                 cursor, epoch, popVars, toReclaim, retiredIn, late>>

popLoad(t) ==
  /\ pc[t] = "popLoad"
  /\ old' = [old EXCEPT ![t] = head]
  /\ Goto(t, IF head = Null THEN "exit" ELSE "popNext")
  /\ UNCHANGED <<domainVars, stackVars, freed, record, cursor, epoch, succ, node, toReclaim,
                 historyVars>>

popNext(t) ==
  /\ pc[t] = "popNext"
  /\ succ' = [succ EXCEPT ![t] = next[old[t]]]
  /\ Goto(t, "popCas")
  /\ UNCHANGED <<domainVars, stackVars, freed, record, cursor, epoch, old, node, toReclaim,
                 historyVars>>

\* A weak compare-exchange; a spurious failure goes round the loop again.
popCas(t) ==
  /\ pc[t] = "popCas"
  /\ \/ /\ head = old[t]
        /\ head' = succ[t]
        /\ node' = [node EXCEPT ![t] = old[t]]
        /\ Goto(t, "exit")
        /\ UNCHANGED old
     \/ /\ old' = [old EXCEPT ![t] = head]
        /\ Goto(t, IF head = Null THEN "exit" ELSE "popNext")
        /\ UNCHANGED <<head, node>>
  /\ UNCHANGED <<domainVars, next, fresh, freed, record, cursor, epoch, succ, toReclaim,
                 historyVars>>

exit(t) ==
  /\ pc[t] = "exit"
  /\ active' = [active EXCEPT ![record[t]] = FALSE]
  /\ Goto(t, IF node[t] = Null THEN "idle" ELSE "retireLoad")
  /\ UNCHANGED <<globalEpoch, threadCount, localEpoch, globalRetire, stackVars, freed, record,
                 cursor, epoch, popVars, toReclaim, historyVars>>

-----------------------------------------------------------------------------
(* EpochDomain::do_retire and try_advance                                  *)

retireLoad(t) ==
  /\ pc[t] = "retireLoad"
  /\ epoch' = [epoch EXCEPT ![t] = globalEpoch]
  /\ Goto(t, "retirePush")
  /\ UNCHANGED <<domainVars, stackVars, freed, record, cursor, popVars, toReclaim, historyVars>>

\* push_back under the mutex of the slot.
retirePush(t) ==
  /\ pc[t] = "retirePush"
  /\ globalRetire' = [globalRetire EXCEPT ![epoch[t] % kEBREpochs] = @ \cup {node[t]}]
  /\ node' = [node EXCEPT ![t] = Null]
  /\ retiredIn' = [retiredIn EXCEPT ![node[t]] = epoch[t]]
  /\ Goto(t, "advanceLoad")
  /\ UNCHANGED <<globalEpoch, recordVars, stackVars, freed, record, cursor, epoch, old, succ,
                 toReclaim, entryEpoch, late>>

advanceLoad(t) ==
  /\ pc[t] = "advanceLoad"
  /\ epoch' = [epoch EXCEPT ![t] = globalEpoch]
  /\ cursor' = [cursor EXCEPT ![t] = HeadRecord]
  /\ Goto(t, IF globalEpoch < MaxEpoch THEN "scanActive" ELSE "idle")
  /\ UNCHANGED <<domainVars, stackVars, freed, record, popVars, toReclaim, historyVars>>

scanActive(t) ==
  /\ pc[t] = "scanActive" /\ cursor[t] > 0
  /\ IF active[cursor[t]]
     THEN Goto(t, "scanLocal") /\ UNCHANGED cursor
     ELSE UNCHANGED pc /\ cursor' = [cursor EXCEPT ![t] = @ - 1]
  /\ UNCHANGED <<domainVars, stackVars, freed, record, epoch, popVars, toReclaim, historyVars>>

BugCaughtUp(local, e) == local <= e
CaughtUp(local, e) == local = e

scanLocal(t) ==
  /\ pc[t] = "scanLocal"
  /\ IF CaughtUp(localEpoch[cursor[t]], epoch[t])
     THEN /\ Goto(t, "scanActive")
          /\ cursor' = [cursor EXCEPT ![t] = @ - 1]
     ELSE Goto(t, "idle") /\ UNCHANGED cursor
  /\ UNCHANGED <<domainVars, stackVars, freed, record, epoch, popVars, toReclaim, historyVars>>

advanceCas(t) ==
  /\ pc[t] = "scanActive" /\ cursor[t] = 0
  /\ IF globalEpoch = epoch[t]
     THEN globalEpoch' = epoch[t] + 1 /\ Goto(t, "move")
     ELSE UNCHANGED globalEpoch /\ Goto(t, "idle")
  /\ UNCHANGED <<recordVars, globalRetire, stackVars, freed, record, cursor, epoch, popVars,
                 toReclaim, historyVars>>

BugOldSlot(e) == e % kEBREpochs
OldSlot(e) == (e - 1 + kEBREpochs) % kEBREpochs

BugEmptied(slots, s) == slots
Emptied(slots, s) == [slots EXCEPT ![s] = {}]

\* std::move of the slot under its mutex.
moveSlot(t) ==
  /\ pc[t] = "move"
  /\ toReclaim' = [toReclaim EXCEPT ![t] = globalRetire[OldSlot(epoch[t])]]
  /\ globalRetire' = Emptied(globalRetire, OldSlot(epoch[t]))
  /\ late' = IF globalEpoch = epoch[t] + 1 THEN late ELSE late \cup {t}
  /\ Goto(t, "reclaim")
  /\ UNCHANGED <<globalEpoch, recordVars, stackVars, freed, record, cursor, epoch, popVars,
                 entryEpoch, retiredIn>>

reclaim(t) ==
  /\ pc[t] = "reclaim"
  /\ freed' = freed \cup toReclaim[t]
  /\ toReclaim' = [toReclaim EXCEPT ![t] = {}]
  /\ Goto(t, "idle")
  /\ UNCHANGED <<domainVars, stackVars, record, cursor, epoch, popVars, historyVars>>

-----------------------------------------------------------------------------
\* What a registered thread does.
PoolStep(t) ==
  \/ pushLoad(t) \/ pushCas(t)
  \/ popStart(t)
  \/ enterLoad(t) \/ enterLocal(t) \/ enterActive(t)
  \/ popLoad(t) \/ popNext(t) \/ popCas(t) \/ exit(t)
  \/ retireLoad(t) \/ retirePush(t)
  \/ advanceLoad(t) \/ scanActive(t) \/ scanLocal(t) \/ advanceCas(t)
  \/ moveSlot(t) \/ reclaim(t)
Step(t) == PoolStep(t) \/ claimRecord(t) \/ createRecord(t)

Next == \E t \in Thread : Step(t) \/ threadExit(t)

Spec == Init /\ [][Next]_vars

\* A pool: every thread registered while the others were inside a section,
\* so that each got a record of its own, and none of them ends.
PoolInit ==
  /\ Empty /\ Locals
  /\ record \in [Thread -> 1..Cardinality(Thread)]
  /\ \A t, u \in Thread : t # u => record[t] # record[u]
  /\ Records(Cardinality(Thread))

PoolNext == \E t \in Thread : PoolStep(t)

PoolSpec == PoolInit /\ [][PoolNext]_vars

-----------------------------------------------------------------------------
(* Properties.                                                             *)

Label ==
  {"idle", "pushCas", "claim", "enterLoad", "enterLocal", "enterActive", "popLoad",
   "popNext", "popCas", "exit", "retireLoad", "retirePush", "advanceLoad",
   "scanActive", "scanLocal", "move", "reclaim"}

DomainOK ==
  /\ globalEpoch \in Nat
  /\ threadCount \in Nat
  /\ localEpoch \in [1..threadCount -> Nat]
  /\ active \in [1..threadCount -> BOOLEAN]
  /\ record \in [Thread -> 0..threadCount]
  /\ cursor \in [Thread -> 0..threadCount]
  /\ epoch \in [Thread -> Nat]
  /\ entryEpoch \in [Thread -> Nat]
StackOK ==
  /\ head \in Node \cup {Null}
  /\ next \in [Node -> Node \cup {Null}]
  /\ old \in [Thread -> Node \cup {Null}]
  /\ succ \in [Thread -> Node \cup {Null}]
  /\ node \in [Thread -> Node \cup {Null}]
RetireOK ==
  /\ globalRetire \in [0..kEBREpochs - 1 -> SUBSET Node]
  /\ toReclaim \in [Thread -> SUBSET Node]
  /\ retiredIn \in [Node -> Nat]
  /\ fresh \subseteq Node /\ freed \subseteq Node
  /\ late \subseteq Thread

\* Type invariant of EpochDomain, EpochStack and the threads' locals.
TypeOK == DomainOK /\ StackOK /\ RetireOK /\ pc \in [Thread -> Label]

\* With TypeOK, what the threads' program counters say of their locals.
LocalsOK ==
  \A t \in Thread :
    /\ pc[t] \in {"pushCas", "retireLoad", "retirePush"} => node[t] \in Node
    /\ Dereferences(t) => old[t] \in Node
    /\ pc[t] \in {"enterLoad", "enterLocal", "enterActive", "popLoad", "popNext", "popCas", "exit"}
         => record[t] # 0
    /\ pc[t] = "scanLocal" => cursor[t] # 0

\* The argument of epoch_reclaim.h for two epochs of delay: while a thread
\* is inside a section the global epoch advances at most once, however old
\* the epoch it announced and whatever scans were under way when it entered.
AtMostOneAdvance ==
  \A t \in Thread : InSection(t) => globalEpoch <= entryEpoch[t] + 1

\* Why AtMostOneAdvance holds.  A thread announces an epoch that is not
\* ahead of the global one, nobody else writes its record, and a scan for an
\* epoch later than the section's entry has not gone past its record yet.
OwnRecord ==
  /\ \A t \in Thread : record[t] # 0 /\ pc[t] # "claim"
  /\ \A t, u \in Thread : record[t] = record[u] => t = u
LocalNotAhead == \A r \in 1..threadCount : localEpoch[r] <= globalEpoch
ReadNotAhead ==
  \A t \in Thread : pc[t] \in {"enterLocal", "scanActive", "scanLocal"} => epoch[t] <= globalEpoch
SectionActive == \A t \in Thread : InSection(t) => active[record[t]] = TRUE
SectionEntered ==
  \A t \in Thread : InSection(t)
    => localEpoch[record[t]] <= entryEpoch[t] /\ entryEpoch[t] <= globalEpoch
ScanBehind ==
  \A t, s \in Thread :
    (InSection(t) /\ pc[s] \in {"scanActive", "scanLocal"} /\ epoch[s] > entryEpoch[t])
      => record[t] <= cursor[s]

Announced ==
  OwnRecord /\ LocalNotAhead /\ ReadNotAhead /\ SectionActive /\ SectionEntered /\ ScanBehind

\* "While alive: this thread's references are protected from reclamation":
\* pop never follows a node that has been freed.
ReferencesProtected ==
  \A t \in Thread : Dereferences(t) => old[t] \notin freed

\* "Objects there were retired at least 2 epoch-advances ago -- safe": true of
\* every thread that moves the old slot out before the epoch it has set
\* advances again.  As long as every move was such a one, no pop follows a
\* freed node.  (The slot of epoch e is also the slot of epoch e + 3.)
ProtectedUnlessLate == late = {} => ReferencesProtected

\* The nodes on the stack.  The chain is no longer than Node is large.
OnStack == Reached(head, next, Null, Cardinality(Node))

\* The owners of a node: the stack, the allocator, a thread that is pushing
\* it or has popped it, a retire slot, or a thread that reclaims it.
Owners(n) ==
  Cardinality({t \in Thread : node[t] = n})
    + Cardinality({t \in Thread : n \in toReclaim[t]})
    + Cardinality({s \in 0..kEBREpochs - 1 : n \in globalRetire[s]})
    + (IF n \in OnStack THEN 1 ELSE 0)
    + (IF n \in fresh THEN 1 ELSE 0)
    + (IF n \in freed THEN 1 ELSE 0)

\* No node is lost or has two owners: none is popped by two threads, freed
\* twice, or freed while it can be reached from head_.
OneOwner == \A n \in Node : Owners(n) = 1
=============================================================================
