----------------------------- MODULE Sv32Walk -----------------------------
(***************************************************************************)
(* The loop of Hart::translateAddress as a state machine: one call, with   *)
(* paging on, against arbitrary memory.  One step is one iteration.        *)
(***************************************************************************)
EXTENDS Sv32

CONSTANTS
  Memories,  \* the memory contents considered
  Requests,  \* the harts (mode, sstatus, satp) that make the call
  Addresses  \* the virtual addresses translated

ASSUME Sv32WalkAssumption ==
  /\ \A m \in Memories : \A a \in DOMAIN m : m[a] \in PTE
  /\ \A h \in Requests :
       /\ h.supervisorMode \in BOOLEAN
       /\ h.satp.mode = 1
       /\ h.satp.ppn \in 0 .. (4 * PteCount * PteCount - 1)
  /\ Addresses \subseteq Addr

VARIABLES
  mem,         \* memory, read by the walk
  hart,        \* the hart's mode, sstatus and satp
  va,          \* the argument addr
  accessType,  \* the argument accessType
  walk         \* the locals of the loop

vars == <<mem, hart, va, accessType, walk>>

TypeOK == walk \in WalkState

Init ==
  /\ mem \in Memories
  /\ hart \in Requests
  /\ va \in Addresses
  /\ accessType \in AccessTypes
  /\ walk = WalkStart(hart)

Iterate ==
  /\ walk.status = "walking"
  /\ walk' = WalkStep(mem, hart, va, accessType, walk)
  /\ UNCHANGED <<mem, hart, va, accessType>>

\* translateAddress has returned or thrown.
Returned ==
  /\ walk.status # "walking"
  /\ UNCHANGED vars

Next == Iterate \/ Returned

\* The loop runs on the emulator's only thread and nothing preempts it for
\* ever, so an iteration that can be made is made.
Spec == Init /\ [][Next]_vars /\ WF_vars(Iterate)

-----------------------------------------------------------------------------
AT == INSTANCE AddressTranslation WITH
        answer <- IF walk.status = "walking"
                  THEN [status |-> "pending", addr |-> va]
                  ELSE Finish(va, walk)

WellFormed == AT!TwoLevel

-----------------------------------------------------------------------------
(* Properties *)

\* Whatever the page tables hold, a walk that ends with a leaf ends with a
\* valid one that grants the access to the hart's mode: no shape of tables
\* makes translateAddress lose a permission check.
LeafGrantsAccess ==
  walk.status = "leaf" => AT!Valid(walk.pte) /\ AT!Grants(walk.pte)

\* translateAddress answers a request once, and on two-level tables with the
\* answer of Sv32.
ImplementsSv32 == AT!Spec

\* On two-level tables an iteration answers or goes down a level: i never runs
\* below 0, and there are at most two iterations.
TwoLevelWalkDescends ==
  [][WellFormed => walk'.status # "walking" \/ walk'.i < walk.i]_vars

\* On two-level tables every call returns or throws: the loop ends, although
\* its condition is always true.
TwoLevelWalkTerminates == WellFormed ~> walk.status # "walking"

\* Every call returns or throws.
WalkTerminates == <>(walk.status # "walking")
=============================================================================
