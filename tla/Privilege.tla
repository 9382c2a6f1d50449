----------------------------- MODULE Privilege -----------------------------
(***************************************************************************)
(* The stack of privilege modes, interrupt enables and addresses that      *)
(* traps push and returns pop, as the guest's kernel relies on it: user    *)
(* code gets into supervisor mode by a trap and in no other way, and a     *)
(* trap remembers where it came from, from either mode.                    *)
(***************************************************************************)

CONSTANT Address

VARIABLES
  handlers,        \* the addresses that the supervisor has traps go to
  pc,
  epc,             \* where the last trap was taken
  supervisor,      \* the hart is in supervisor mode
  fromSupervisor,  \* ... and was when the last trap was taken
  enabled,         \* interrupts are enabled in supervisor mode
  wereEnabled      \* ... and were when the last trap was taken

stack == <<supervisor, fromSupervisor, enabled, wereEnabled>>
vars  == <<handlers, pc, epc, stack>>

TypeOK ==
  /\ handlers \subseteq Address
  /\ pc \in Address /\ epc \in Address
  /\ supervisor \in BOOLEAN
  /\ fromSupervisor \in BOOLEAN
  /\ enabled \in BOOLEAN
  /\ wereEnabled \in BOOLEAN

\* Only the mode is known when the hart starts.
Init == TypeOK /\ supervisor = TRUE

Push(super, on) ==
  /\ supervisor' = TRUE
  /\ fromSupervisor' = super
  /\ enabled' = FALSE
  /\ wereEnabled' = on
  /\ pc' \in handlers
  /\ UNCHANGED handlers

Trap == Push(supervisor, enabled) /\ epc' = pc

\* The first instruction of the handler traps as well, and the stack, one
\* level deep, forgets where the first trap came from: epc is where it went.
NestedTrap == Push(TRUE, FALSE) /\ epc' \in handlers

Return ==
  /\ supervisor' = fromSupervisor
  /\ fromSupervisor' = FALSE
  /\ enabled' = wereEnabled
  /\ wereEnabled' = TRUE
  /\ pc' = epc
  /\ UNCHANGED <<handlers, epc>>

\* Every other instruction.
Run == pc' \in Address /\ UNCHANGED <<handlers, epc, stack>>

\* The supervisor writes its status register, the address it returns to, or
\* where traps go.
WriteStatus ==
  /\ supervisor = TRUE
  /\ TypeOK'
  /\ UNCHANGED <<handlers, epc, supervisor>>

WriteEpc ==
  /\ supervisor = TRUE
  /\ TypeOK'
  /\ UNCHANGED <<handlers, stack>>

WriteHandlers ==
  /\ supervisor = TRUE
  /\ TypeOK'
  /\ UNCHANGED <<epc, stack>>

Next ==
  \/ Trap \/ NestedTrap \/ Return \/ Run
  \/ WriteStatus \/ WriteEpc \/ WriteHandlers

Spec == Init /\ [][Next]_vars
=============================================================================
