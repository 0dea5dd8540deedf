------------------------- MODULE ClientRegistryProofs -------------------------
(***************************************************************************)
(* Proofs about module ClientRegistry, for any number of connections, any  *)
(* limit of clients and any number of SIGHUPs.                             *)
(***************************************************************************)
EXTENDS ClientRegistry, FiniteSetTheorems, TLAPS

\* The steps of a service thread that leave the registry as it is.
Moves(c) == \/ Accept(c) \/ BeginRegister(c) \/ BeginUse(c) \/ Use(c) \/ Leave(c)
            \/ BeginUnregister(c) \/ EndUnregister(c)

Steps == [Next]_vars

LEMMA NextCases ==
    ASSUME Steps
    PROVE  \/ \E c \in Conns : Moves(c) \/ HangUp(c) \/ Register(c) \/ Unregister(c)
           \/ \E t \in Threads : \/ Hup(t) \/ ShutdownAll(t) \/ WaitForEmpty(t) \/ SemWait(t)
                                 \/ Fini(t) \/ Exit(t)
           \/ UNCHANGED vars
BY DEF Steps, Next, Work, Moves

USE ThreadAssumption DEF Threads

-----------------------------------------------------------------------------
LEMMA BoundIsNat == MaxHups \in Nat
BY CapacityAssumption

\* Sets of clients and of threads are finite.
LEMMA SlotsFinite == TypeOK => IsFiniteSet(slots) /\ Cardinality(slots) \in Nat
BY ConnsAssumption, FS_Subset, FS_CardinalityType DEF TypeOK

LEMMA WaitersFinite == IsFiniteSet(Waiters) /\ Cardinality(Waiters) \in Nat
<1>1. IsFiniteSet(Threads)
  BY ConnsAssumption, FS_AddElement
<1>2. Waiters \subseteq Threads
  BY DEF Waiters
<1>3. QED
  BY <1>1, <1>2, FS_Subset, FS_CardinalityType

\* What the count says of the slots.
LEMMA SlotsCounted ==
    ASSUME TypeOK, SlotsExact
    PROVE  size = Cardinality(slots) /\ (size = 0 <=> slots = {})
BY SlotsFinite, FS_EmptySet DEF SlotsExact

LEMMA TypeStep == TypeOK /\ SlotsExact /\ Steps => TypeOK'
<1> SUFFICES ASSUME TypeOK, SlotsExact, Steps PROVE TypeOK'
  OBVIOUS
<1>0. slots \subseteq Conns /\ size \in Nat
  BY DEF TypeOK
<1> USE DEF table
<1> USE DEF TypeOK, Label, Handler
<1>1. ASSUME NEW c \in Conns, Moves(c) PROVE TypeOK'
  BY <1>1 DEF Moves, Accept, BeginRegister, BeginUse, Use, Leave, BeginUnregister,
              EndUnregister, Enter, Step, Touch
<1>2. ASSUME NEW c \in Conns, HangUp(c) PROVE TypeOK'
  BY <1>2 DEF HangUp
<1>3. ASSUME NEW c \in Conns, Register(c) PROVE TypeOK'
  BY <1>3 DEF Register, Fill, Step, Touch
<1>4. ASSUME NEW c \in Conns, Unregister(c) PROVE TypeOK'
  <2>1. slots' \subseteq Conns /\ size' \in Nat
    <3>1. CASE c \in slots
      <4>1. size # 0
        BY <3>1, SlotsCounted
      <4>2. QED
        BY <1>0, <1>4, <3>1, <4>1 DEF Unregister, Remove
    <3>2. CASE c \notin slots
      BY <1>0, <1>4, <3>2 DEF Unregister, Remove
    <3>3. QED
      BY <3>1, <3>2
  <2>2. QED
    BY <1>4, <2>1 DEF Unregister, Remove, PostIf, Step, Touch
<1>5. ASSUME NEW t \in Threads, Hup(t) PROVE TypeOK'
  <2>1. hups' \in 0..MaxHups
    BY <1>5, BoundIsNat DEF Hup
  <2>2. hpc' \in [Threads -> Handler] /\ listening' \in BOOLEAN
    BY <1>5 DEF Hup, HStep
  <2>3. QED
    BY <1>5, <2>1, <2>2 DEF Hup
<1>6. ASSUME NEW t \in Threads, ShutdownAll(t) PROVE TypeOK'
  BY <1>6 DEF ShutdownAll, HStep, Touch
<1>7. ASSUME NEW t \in Threads, WaitForEmpty(t) PROVE TypeOK'
  BY <1>7 DEF WaitForEmpty, HStep, Touch
<1>8. ASSUME NEW t \in Threads, SemWait(t) PROVE TypeOK'
  BY <1>8 DEF SemWait, HStep, Touch
<1>9. ASSUME NEW t \in Threads, Fini(t) \/ Exit(t) PROVE TypeOK'
  BY <1>9 DEF Fini, Exit, HStep, threadVars
<1>10. CASE UNCHANGED vars
  BY <1>10 DEF vars, threadVars
<1>11. QED
  BY <1>1, <1>2, <1>3, <1>4, <1>5, <1>6, <1>7, <1>8, <1>9, <1>10, NextCases

LEMMA TypeInit == Init => TypeOK
<1> SUFFICES ASSUME Init PROVE TypeOK
  OBVIOUS
<1>1. hups \in 0..MaxHups
  BY BoundIsNat DEF Init
<1>2. /\ slots \subseteq Conns /\ size \in Nat /\ waiting \in Nat /\ sem \in Nat
      /\ mutex \in Threads \cup {NoThread}
      /\ fault \in {"none", "used_after", "in_use"}
  BY DEF Init
<1>3. freed \in BOOLEAN /\ listening \in BOOLEAN /\ exited \in BOOLEAN
  BY DEF Init
<1>4. /\ pc \in [Conns -> Label] /\ hpc \in [Threads -> Handler]
      /\ input \in [Conns -> {"open", "shut", "closed"}]
  BY DEF Init, Label, Handler
<1>5. QED
  BY <1>1, <1>2, <1>3, <1>4 DEF TypeOK

-----------------------------------------------------------------------------
\* The labels between creg_register and creg_unregister.
InSlots == {"serving", "using", "leaving", "unreg"}

LEMMA SlotsStep == TypeOK /\ SlotsExact /\ Steps => SlotsExact'
<1> SUFFICES ASSUME TypeOK, SlotsExact, Steps PROVE SlotsExact'
  OBVIOUS
<1> DEFINE Held(d) == pc[d] \in Critical <=> mutex = d
<1>1. /\ \A d \in Conns : Held(d) /\ (d \in slots <=> pc[d] \in InSlots)
      /\ slots \subseteq Conns /\ size = Cardinality(slots) /\ size <= MAX_CLIENTS
      /\ size \in Nat
  BY DEF SlotsExact, InSlots, TypeOK
<1>2. ASSUME slots' \subseteq Conns, size' = Cardinality(slots'), size' <= MAX_CLIENTS,
             \A d \in Conns : Held(d)' /\ (d \in slots' <=> pc'[d] \in InSlots)
      PROVE  SlotsExact'
  BY <1>2 DEF SlotsExact, InSlots
<1>3. ASSUME UNCHANGED <<table, pc, mutex>> PROVE SlotsExact'
  BY <1>1, <1>2, <1>3 DEF table
<1>4. ASSUME NEW c \in Conns, Moves(c) PROVE SlotsExact'
  <2>1. slots' = slots /\ size' = size /\ \A d \in Conns \ {c} : pc'[d] = pc[d]
    BY <1>4 DEF Moves, Accept, BeginRegister, BeginUse, Use, Leave, BeginUnregister,
                EndUnregister, Enter, Step, TypeOK, table
  <2>2. pc[c] \in InSlots <=> pc'[c] \in InSlots
    BY <1>4 DEF Moves, Accept, BeginRegister, BeginUse, Use, Leave, BeginUnregister,
                EndUnregister, Enter, Step, TypeOK, InSlots
  <2>3. \A d \in Conns : Held(d)'
    BY <1>1, <1>4, <2>1 DEF Moves, Accept, BeginRegister, BeginUse, Use, Leave,
                BeginUnregister, EndUnregister, Enter, Step, TypeOK, Critical
  <2>4. QED
    BY <1>1, <1>2, <2>1, <2>2, <2>3
<1>5. ASSUME NEW c \in Conns, HangUp(c) PROVE SlotsExact'
  BY <1>3, <1>5 DEF HangUp
<1>6. ASSUME NEW c \in Conns, Register(c) PROVE SlotsExact'
  <2>1. pc[c] = "reg" /\ \A d \in Conns \ {c} : pc'[d] = pc[d]
    BY <1>6 DEF Register, Step, TypeOK
  <2>2. \A d \in Conns : Held(d)'
    BY <1>1, <1>6, <2>1 DEF Register, Step, TypeOK, Critical
  <2>3. c \notin slots
    BY <1>1, <2>1 DEF InSlots
  <2>4. CASE size < MAX_CLIENTS
    <3>1. slots' = slots \cup {c} /\ size' = size + 1 /\ pc'[c] = "serving"
      BY <1>1, <1>6, <2>4 DEF Register, Fill, Step, TypeOK
    <3>2. Cardinality(slots') = Cardinality(slots) + 1
      BY <2>3, <3>1, SlotsFinite, FS_AddElement
    <3>3. size' = Cardinality(slots') /\ size' <= MAX_CLIENTS
      BY <1>1, <2>4, <3>1, <3>2, CapacityAssumption
    <3>4. QED
      BY <1>1, <1>2, <2>1, <2>2, <3>1, <3>3 DEF InSlots
  <2>5. CASE ~(size < MAX_CLIENTS)
    <3>1. slots' = slots /\ size' = size /\ pc'[c] = "gone"
      BY <1>6, <2>5 DEF Register, Step, TypeOK, table
    <3>2. QED
      BY <1>1, <1>2, <2>1, <2>2, <2>3, <3>1 DEF InSlots
  <2>6. QED
    BY <2>4, <2>5
<1>7. ASSUME NEW c \in Conns, Unregister(c) PROVE SlotsExact'
  <2>1. /\ pc[c] = "unreg" /\ pc'[c] = "posted" /\ \A d \in Conns \ {c} : pc'[d] = pc[d]
        /\ mutex' = mutex
    BY <1>7 DEF Unregister, Remove, Step, TypeOK
  <2>2. c \in slots
    BY <1>1, <2>1 DEF InSlots
  <2>3. slots' = slots \ {c} /\ size' = Cardinality(slots') /\ size' <= MAX_CLIENTS
    <3>1. slots' = slots \ {c} /\ size' = size - 1
      BY <1>7, <2>2 DEF Unregister, Remove
    <3>2. Cardinality(slots') = Cardinality(slots) - 1
      BY <2>2, <3>1, SlotsFinite, FS_RemoveElement
    <3>3. QED
      BY <1>1, <3>1, <3>2, CapacityAssumption
  <2>4. \A d \in Conns : Held(d)'
    BY <1>1, <2>1 DEF Critical
  <2>5. QED
    BY <1>1, <1>2, <2>1, <2>3, <2>4 DEF InSlots
<1>8. ASSUME NEW t \in Threads, \/ Hup(t) \/ ShutdownAll(t) \/ WaitForEmpty(t)
                                \/ SemWait(t) \/ Fini(t) \/ Exit(t)
      PROVE  SlotsExact'
  BY <1>3, <1>8 DEF Hup, ShutdownAll, WaitForEmpty, SemWait, Fini, Exit, threadVars
<1>9. CASE UNCHANGED vars
  BY <1>3, <1>9 DEF vars, threadVars
<1>10. QED
  BY <1>4, <1>5, <1>6, <1>7, <1>8, <1>9, NextCases

LEMMA SlotsInit == Init => SlotsExact
<1> SUFFICES ASSUME Init PROVE SlotsExact
  OBVIOUS
<1>1. slots = {} /\ size = 0 /\ mutex = NoThread /\ \A c \in Conns : pc[c] = "absent"
  BY DEF Init
<1>2. size = Cardinality(slots) /\ size <= MAX_CLIENTS
  <2>1. Cardinality(slots) = 0
    BY <1>1, FS_EmptySet
  <2>2. QED
    BY <1>1, <2>1, CapacityAssumption
<1>3. \A c \in Conns : pc[c] \in Critical <=> mutex = c
  BY <1>1 DEF Critical
<1>4. slots = {c \in Conns : pc[c] \in {"serving", "using", "leaving", "unreg"}}
  BY <1>1
<1>5. QED
  BY <1>2, <1>3, <1>4 DEF SlotsExact

\* The fields of the registry and of the threads are well-typed: in particular
\* none of cr->size, cr->waiting and the semaphore drops below zero.
THEOREM RegistryTypeOK == Spec => []TypeOK
BY TypeInit, TypeStep, SlotsInit, SlotsStep, PTL DEF Spec, Steps

\* The registry holds and counts exactly the threads that are registered, within
\* its limit, and at most one thread is in a function of it.
THEOREM RegistrySlotsExact == Spec => []SlotsExact
BY TypeInit, TypeStep, SlotsInit, SlotsStep, PTL DEF Spec, Steps

\* The same of the next state.
LEMMA CountedNext == TypeOK' /\ SlotsExact' => (size' = 0 <=> slots' = {})
<1>1. (TypeOK /\ SlotsExact => (size = 0 <=> slots = {}))'
  BY SlotsCounted, PTL
<1>2. QED
  BY <1>1

-----------------------------------------------------------------------------
\* Who waits for the semaphore only changes in WaitForEmpty and SemWait.
LEMMA TokensStep == TypeOK /\ SlotsExact /\ TokensExact /\ Steps => TokensExact'
<1> SUFFICES ASSUME TypeOK, SlotsExact, TokensExact, Steps PROVE TokensExact'
  OBVIOUS
<1>0. (size = 0 <=> slots = {}) /\ (size' = 0 <=> slots' = {})
  <2>1. TypeOK' /\ SlotsExact'
    BY TypeStep, SlotsStep
  <2>2. QED
    BY <2>1, SlotsCounted, CountedNext
<1> DEFINE n == Cardinality(Waiters)
<1>1. /\ waiting \in Nat /\ sem \in Nat /\ waiting + sem = n
      /\ waiting > 0 => slots # {}
  BY DEF TokensExact, TypeOK
<1>2. ASSUME UNCHANGED <<waiting, sem>>, Waiters' = Waiters, slots \subseteq slots'
      PROVE  TokensExact'
  BY <1>1, <1>2 DEF TokensExact
<1>3. ASSUME NEW c \in Conns, Moves(c) \/ HangUp(c) \/ Register(c) PROVE TokensExact'
  <2>1. UNCHANGED <<waiting, sem, hpc>> /\ slots \subseteq slots'
    BY <1>3 DEF Moves, Accept, BeginRegister, BeginUse, Use, Leave, BeginUnregister,
                EndUnregister, Enter, HangUp, Register, Fill, table
  <2>2. QED
    BY <1>2, <2>1 DEF Waiters
<1>4. ASSUME NEW c \in Conns, Unregister(c) PROVE TokensExact'
  <2>1. Waiters' = Waiters
    BY <1>4 DEF Unregister, Remove, Waiters
  <2>2. CASE slots' = {}
    <3>1. sem' = sem + waiting /\ waiting' = 0
      BY <1>0, <1>4, <2>2 DEF Unregister, PostIf
    <3>2. QED
      BY <1>1, <2>1, <3>1 DEF TokensExact
  <2>3. CASE slots' # {}
    <3>1. UNCHANGED <<sem, waiting>>
      BY <1>0, <1>4, <2>3 DEF Unregister, PostIf
    <3>2. QED
      BY <1>1, <2>1, <2>3, <3>1 DEF TokensExact
  <2>4. QED
    BY <2>2, <2>3
<1>5. ASSUME NEW t \in Threads, Hup(t) \/ ShutdownAll(t) \/ Fini(t) \/ Exit(t)
      PROVE  TokensExact'
  <2>1. UNCHANGED <<waiting, sem, slots>>
    BY <1>5 DEF Hup, ShutdownAll, Fini, Exit, table
  <2>2. Waiters' = Waiters
    BY <1>5 DEF Hup, ShutdownAll, Fini, Exit, HStep, Waiters, TypeOK, threadVars
  <2>3. QED
    BY <1>2, <2>1, <2>2
<1>6. ASSUME NEW t \in Threads, WaitForEmpty(t) PROVE TokensExact'
  <2>1. CASE slots # {}
    <3>1. /\ hpc[t] = "wait" /\ hpc' = [hpc EXCEPT ![t] = "sem"]
          /\ waiting' = waiting + 1 /\ UNCHANGED <<sem, slots>>
      BY <1>0, <1>6, <2>1 DEF WaitForEmpty, HStep, table
    <3>2. Waiters' = Waiters \cup {t} /\ t \notin Waiters
      BY <3>1 DEF Waiters, TypeOK
    <3>3. Cardinality(Waiters') = n + 1
      BY <3>2, WaitersFinite, FS_AddElement
    <3>4. QED
      BY <1>1, <2>1, <3>1, <3>3, WaitersFinite DEF TokensExact
  <2>2. CASE slots = {}
    <3>1. /\ hpc[t] = "wait" /\ hpc' = [hpc EXCEPT ![t] = "fini"]
          /\ UNCHANGED <<waiting, sem, slots>>
      BY <1>0, <1>6, <2>2 DEF WaitForEmpty, HStep, table
    <3>2. Waiters' = Waiters
      BY <3>1 DEF Waiters, TypeOK
    <3>3. QED
      BY <1>2, <3>1, <3>2
  <2>3. QED
    BY <2>1, <2>2
<1>7. ASSUME NEW t \in Threads, SemWait(t) PROVE TokensExact'
  <2>1. /\ hpc[t] = "sem" /\ hpc' = [hpc EXCEPT ![t] = "fini"]
        /\ sem > 0 /\ sem' = sem - 1 /\ UNCHANGED <<waiting, slots>>
    BY <1>7 DEF SemWait, HStep, table
  <2>2. Waiters' = Waiters \ {t} /\ t \in Waiters
    BY <2>1 DEF Waiters, TypeOK
  <2>3. Cardinality(Waiters') = n - 1
    BY <2>2, WaitersFinite, FS_RemoveElement
  <2>4. QED
    BY <1>1, <2>1, <2>3, WaitersFinite DEF TokensExact
<1>8. CASE UNCHANGED vars
  BY <1>2, <1>8 DEF vars, table, threadVars, Waiters
<1>9. QED
  BY <1>3, <1>4, <1>5, <1>6, <1>7, <1>8, NextCases

LEMMA TokensInit == Init => TokensExact
<1> SUFFICES ASSUME Init PROVE TokensExact
  OBVIOUS
<1>1. Waiters = {}
  BY DEF Init, Waiters
<1>2. Cardinality(Waiters) = 0
  BY <1>1, FS_EmptySet
<1>3. QED
  BY <1>2 DEF Init, TokensExact

\* However many threads wait for an empty registry, each is counted or has
\* a token, so that none sleeps on when the last client has gone.
THEOREM RegistryTokensExact == Spec => []TokensExact
BY TypeInit, TypeStep, SlotsInit, SlotsStep, TokensInit, TokensStep, PTL DEF Spec, Steps

-----------------------------------------------------------------------------
\* Why ShutIsGone holds: only a registered client is shut down, and some
\* handler waits, or is about to, while one that was shut down is there.
ShutWaited ==
    \A c \in Conns :
        /\ input[c] = "shut" => pc[c] \notin {"absent", "start", "reg"}
        /\ c \in slots /\ input[c] = "shut" =>
               waiting > 0 \/ \E t \in Threads : hpc[t] = "wait"

FreedAlone == freed /\ fault = "none" => Waiters = {}

LEMMA ShutWaitedStep == TypeOK /\ SlotsExact /\ ShutWaited /\ Steps => ShutWaited'
<1> SUFFICES ASSUME TypeOK, SlotsExact, ShutWaited, Steps PROVE ShutWaited'
  OBVIOUS
<1>0. (size = 0 <=> slots = {}) /\ (size' = 0 <=> slots' = {})
  <2>1. TypeOK' /\ SlotsExact'
    BY TypeStep, SlotsStep
  <2>2. QED
    BY <2>1, SlotsCounted, CountedNext
<1> DEFINE Early(c)  == pc[c] \in {"absent", "start", "reg"}
           Waited    == waiting > 0 \/ \E t \in Threads : hpc[t] = "wait"
<1>1. \A c \in Conns : /\ input[c] = "shut" => ~Early(c)
                       /\ c \in slots /\ input[c] = "shut" => Waited
  BY DEF ShutWaited
<1>2. ASSUME \A c \in Conns : (input'[c] = "shut" => ~Early(c)')
                            /\ (c \in slots' /\ input'[c] = "shut" => Waited')
      PROVE  ShutWaited'
  BY <1>2 DEF ShutWaited
<1>3. ASSUME UNCHANGED <<waiting, hpc>>, slots' \subseteq slots,
             \A c \in Conns : /\ input'[c] = "shut" => input[c] = "shut"
                              /\ Early(c)' => Early(c)
      PROVE  ShutWaited'
  BY <1>1, <1>2, <1>3
<1>4. ASSUME NEW c \in Conns, Moves(c) \/ HangUp(c) PROVE ShutWaited'
  <2>1. UNCHANGED <<waiting, hpc, slots>>
    BY <1>4 DEF Moves, Accept, BeginRegister, BeginUse, Use, Leave, BeginUnregister,
                EndUnregister, Enter, HangUp, table
  <2>2. \A d \in Conns : input'[d] = "shut" => input[d] = "shut"
    BY <1>4 DEF Moves, Accept, BeginRegister, BeginUse, Use, Leave, BeginUnregister,
                EndUnregister, Enter, HangUp, TypeOK
  <2>3. \A d \in Conns : Early(d)' => Early(d)
    BY <1>4 DEF Moves, Accept, BeginRegister, BeginUse, Use, Leave, BeginUnregister,
                EndUnregister, Enter, Step, HangUp, TypeOK
  <2>4. QED
    BY <1>3, <2>1, <2>2, <2>3
<1>5. ASSUME NEW c \in Conns, Register(c) PROVE ShutWaited'
  <2>1. /\ pc[c] = "reg" /\ UNCHANGED <<waiting, hpc, input>>
        /\ slots' \subseteq slots \cup {c}
        /\ \A d \in Conns \ {c} : pc'[d] = pc[d]
    BY <1>5 DEF Register, Fill, Step, TypeOK, table
  <2>2. input[c] # "shut"
    BY <1>1, <2>1
  <2>3. QED
    BY <1>1, <1>2, <2>1, <2>2
<1>6. ASSUME NEW c \in Conns, Unregister(c) PROVE ShutWaited'
  <2>1. /\ UNCHANGED <<hpc, input>> /\ slots' \subseteq slots
        /\ \A d \in Conns : Early(d)' => Early(d)
    BY <1>6 DEF Unregister, Remove, Step, TypeOK, table
  <2>2. slots' = {} \/ waiting' = waiting
    BY <1>0, <1>6 DEF Unregister, PostIf
  <2>3. QED
    BY <1>1, <1>2, <2>1, <2>2
<1>7. ASSUME NEW t \in Threads, ShutdownAll(t) PROVE ShutWaited'
  <2>1. /\ hpc'[t] = "wait" /\ UNCHANGED <<pc, slots>>
        /\ \A c \in Conns : input'[c] = "shut" => input[c] = "shut" \/ c \in slots
    BY <1>7 DEF ShutdownAll, HStep, TypeOK, table
  <2>2. \A c \in slots : ~Early(c)
    BY DEF SlotsExact
  <2>3. QED
    BY <1>1, <1>2, <2>1, <2>2
<1>8. ASSUME NEW t \in Threads, WaitForEmpty(t) PROVE ShutWaited'
  <2>1. /\ UNCHANGED <<pc, slots, input>>
        /\ slots # {} => waiting' = waiting + 1
    BY <1>0, <1>8 DEF WaitForEmpty, table
  <2>2. slots # {} => waiting' > 0
    BY <2>1 DEF TypeOK
  <2>3. QED
    BY <1>1, <1>2, <2>1, <2>2
<1>9. ASSUME NEW t \in Threads, Hup(t) \/ SemWait(t) \/ Fini(t) \/ Exit(t)
      PROVE  ShutWaited'
  <2>1. UNCHANGED <<waiting, slots, pc, input>>
    BY <1>9 DEF Hup, SemWait, Fini, Exit, threadVars, table
  <2>2. \A u \in Threads : hpc[u] = "wait" => hpc'[u] = "wait"
    BY <1>9 DEF Hup, SemWait, Fini, Exit, threadVars, HStep, TypeOK
  <2>3. QED
    BY <1>1, <1>2, <2>1, <2>2
<1>10. CASE UNCHANGED vars
  BY <1>3, <1>10 DEF vars, threadVars, table
<1>11. QED
  BY <1>4, <1>5, <1>6, <1>7, <1>8, <1>9, <1>10, NextCases

LEMMA FreedAloneStep == TypeOK /\ FreedAlone /\ Steps => FreedAlone'
<1> SUFFICES ASSUME TypeOK, FreedAlone, Steps, freed', fault' = "none" PROVE Waiters' = {}
  BY DEF FreedAlone
<1>1. ASSUME NEW c \in Conns, Moves(c) \/ HangUp(c) \/ Register(c) \/ Unregister(c)
      PROVE  Waiters' = {}
  <2>1. UNCHANGED <<hpc, freed>> /\ fault = "none"
    BY <1>1 DEF Moves, Accept, BeginRegister, BeginUse, Use, Leave, BeginUnregister,
                EndUnregister, Enter, Touch, HangUp, Register, Unregister, Remove
  <2>2. QED
    BY <2>1 DEF FreedAlone, Waiters
<1>2. ASSUME NEW t \in Threads, ShutdownAll(t) \/ WaitForEmpty(t) \/ SemWait(t)
      PROVE  Waiters' = {}
  <2>1. freed' = freed /\ fault' = IF freed THEN "used_after" ELSE fault
    BY <1>2 DEF ShutdownAll, WaitForEmpty, SemWait, Touch
  <2>2. QED
    BY <2>1
<1>3. ASSUME NEW t \in Threads, Hup(t) \/ Exit(t) PROVE Waiters' = {}
  <2>1. /\ UNCHANGED <<freed, fault>>
        /\ \A u \in Threads : hpc'[u] = "sem" => hpc[u] = "sem"
    BY <1>3 DEF Hup, Exit, HStep, TypeOK, threadVars
  <2>2. QED
    BY <2>1 DEF FreedAlone, Waiters
<1>4. ASSUME NEW t \in Threads, Fini(t) PROVE Waiters' = {}
  <2>1. Waiters = {}
    BY <1>4 DEF Fini
  <2>2. \A u \in Threads : hpc'[u] = "sem" => hpc[u] = "sem"
    BY <1>4 DEF Fini, HStep, TypeOK
  <2>3. QED
    BY <2>1, <2>2 DEF Waiters
<1>5. CASE UNCHANGED vars
  BY <1>5 DEF vars, threadVars, FreedAlone, Waiters
<1>6. QED
  BY <1>1, <1>2, <1>3, <1>4, <1>5, NextCases

LEMMA ShutIsGoneFollows == TokensExact /\ ShutWaited /\ FreedAlone /\ TypeOK => ShutIsGone
<1> SUFFICES ASSUME TokensExact, ShutWaited, FreedAlone, TypeOK, freed, fault = "none",
                    NEW c \in slots, input[c] = "shut"
             PROVE  \E t \in Threads : hpc[t] = "wait"
  BY DEF ShutIsGone
<1>1. Cardinality(Waiters) = 0
  BY FS_EmptySet DEF FreedAlone
<1>2. waiting = 0
  BY <1>1 DEF TokensExact, TypeOK
<1>3. QED
  BY <1>2 DEF ShutWaited, TypeOK

LEMMA ShutInit == Init => ShutWaited /\ FreedAlone
BY DEF Init, ShutWaited, FreedAlone

\* creg_fini comes after the clients that were shut down have left, however
\* many handlers there are and whoever takes the tokens.
THEOREM RegistryShutIsGone == Spec => []ShutIsGone
<1>1. Init => TypeOK /\ SlotsExact /\ TokensExact /\ ShutWaited /\ FreedAlone
  BY TypeInit, SlotsInit, TokensInit, ShutInit
<1>2. TypeOK /\ SlotsExact /\ TokensExact /\ ShutWaited /\ FreedAlone /\ Steps
      => (TypeOK /\ SlotsExact /\ TokensExact /\ ShutWaited /\ FreedAlone)'
  BY TypeStep, SlotsStep, TokensStep, ShutWaitedStep, FreedAloneStep
<1>3. QED
  BY <1>1, <1>2, ShutIsGoneFollows, PTL DEF Spec, Steps
=============================================================================
