---------------------------- MODULE ClientRegistry ----------------------------
(***************************************************************************)
(* The client registry of src/client_registry.c between the threads that   *)
(* use it: one service thread per connection (src/server.c), the main      *)
(* thread, and terminate() of src/main.c, which SIGHUP runs on any thread  *)
(* that is not in it already (the handler blocks every signal).            *)
(*                                                                         *)
(* A function of the registry locks its mutex in one step and works in the *)
(* next, so that a signal can interrupt a service thread in between; in    *)
(* the handler, where nothing interrupts it, a function is one step.  The  *)
(* model stops at the first undefined use of a registry that is finalized. *)
(***************************************************************************)
EXTENDS Integers, FiniteSets

CONSTANTS
    Conns,          \* connections; each has the service thread of its name
    Main,           \* the main thread
    NoThread,
    MAX_CLIENTS,
    MaxHups         \* bound: how many SIGHUPs arrive

ASSUME ThreadAssumption == Main \notin Conns /\ NoThread \notin Conns \cup {Main}
ASSUME ConnsAssumption == IsFiniteSet(Conns)
ASSUME CapacityAssumption == MAX_CLIENTS \in Nat \ {0} /\ MaxHups \in Nat

VARIABLES
    slots,      \* the clients in cr->clients
    size,       \* cr->size
    waiting,    \* cr->waiting
    sem,        \* the value of cr->sem
    mutex,      \* the thread that holds cr->mutex
    freed,      \* creg_fini has run
    pc,         \* where a service thread is
    hpc,        \* where a thread is in the SIGHUP handler, or "none"
    input,      \* a connection's input: "open", or "shut" by us, or "closed"
    listening, hups, exited, fault

table == <<slots, size>>
threadVars == <<pc, hpc, input>>
vars == <<table, waiting, sem, mutex, freed, threadVars, listening, hups, exited, fault>>

Threads == Conns \cup {Main}

\* "posted": the semaphore is posted, the mutex not yet unlocked.
Label   == {"absent", "start", "reg", "serving", "using", "leaving", "unreg", "posted", "gone"}
Handler == {"none", "shut", "wait", "sem", "fini", "exit"}

\* The labels at which a service thread holds the mutex.
Critical == {"reg", "using", "unreg", "posted"}

-----------------------------------------------------------------------------
Init ==
    /\ slots = {} /\ size = 0 /\ waiting = 0 /\ sem = 0 /\ mutex = NoThread /\ freed = FALSE
    /\ pc = [c \in Conns |-> "absent"]
    /\ hpc = [t \in Threads |-> "none"]
    /\ input = [c \in Conns |-> "open"]
    /\ listening = TRUE /\ hups = 0 /\ exited = FALSE /\ fault = "none"

\* A step of service thread c, which no signal has interrupted.
Step(c, l, m) ==
    /\ pc[c] = l /\ hpc[c] = "none"
    /\ pc' = [pc EXCEPT ![c] = m]

\* Using the registry after creg_fini.
Touch == fault' = IF freed THEN "used_after" ELSE fault

Enter(c, l, m) ==
    /\ Step(c, l, m)
    /\ mutex = NoThread /\ mutex' = c
    /\ Touch
    /\ UNCHANGED <<table, waiting, sem, freed, hpc, input, listening, hups, exited>>

\* main accepts a connection and starts its thread.
Accept(c) ==
    /\ hpc[Main] = "none" /\ listening
    /\ pc[c] = "absent"
    /\ pc' = [pc EXCEPT ![c] = "start"]
    /\ UNCHANGED <<table, waiting, sem, mutex, freed, hpc, input, listening, hups, exited, fault>>

HangUp(c) ==
    /\ pc[c] # "absent" /\ input[c] = "open"
    /\ input' = [input EXCEPT ![c] = "closed"]
    /\ UNCHANGED <<table, waiting, sem, mutex, freed, pc, hpc, listening, hups, exited, fault>>

-----------------------------------------------------------------------------
BeginRegister(c) == Enter(c, "start", "reg")

\* The client goes to the first slot that is free, and is counted then.
Fill(c) ==
    IF Cardinality(slots) < MAX_CLIENTS
    THEN slots' = slots \cup {c} /\ size' = size + 1
    ELSE UNCHANGED table

\* creg_register: the thread ends at once when the count says there is no room.
Register(c) ==
    /\ IF size < MAX_CLIENTS
       THEN Step(c, "reg", "serving") /\ Fill(c)
       ELSE Step(c, "reg", "gone") /\ UNCHANGED table
    /\ mutex' = NoThread
    /\ Touch
    /\ UNCHANGED <<waiting, sem, freed, hpc, input, listening, hups, exited>>

\* A packet whose handler uses the registry: creg_lookup, creg_all_players.
BeginUse(c) == input[c] = "open" /\ Enter(c, "serving", "using")

Use(c) ==
    /\ Step(c, "using", "serving")
    /\ mutex' = NoThread
    /\ Touch
    /\ UNCHANGED <<table, waiting, sem, freed, hpc, input, listening, hups, exited>>

\* proto_recv_packet finds the end of the input; client_logout follows.
Leave(c) ==
    /\ input[c] # "open"
    /\ Step(c, "serving", "leaving")
    /\ UNCHANGED <<table, waiting, sem, mutex, freed, hpc, input, listening, hups, exited, fault>>

BeginUnregister(c) == Enter(c, "leaving", "unreg")

\* What creg_unregister does with the semaphore: n tokens, and w are left
\* waiting; last: is this the last client?
PostIf(last, n, w) ==
    IF last THEN sem' = sem + n /\ waiting' = w ELSE UNCHANGED <<sem, waiting>>

\* Mutant of Remove: the slot is emptied and not counted down.
RemoveUncounted(c) ==
    /\ Step(c, "unreg", "posted")
    /\ slots' = slots \ {c} /\ size' = size
    /\ Touch
    /\ UNCHANGED <<mutex, freed, hpc, input, listening, hups, exited>>

Remove(c) ==
    /\ Step(c, "unreg", "posted")
    /\ IF c \in slots
       THEN slots' = slots \ {c} /\ size' = size - 1
       ELSE UNCHANGED table
    /\ Touch
    /\ UNCHANGED <<mutex, freed, hpc, input, listening, hups, exited>>

\* Mutants of Unregister: the loop counts down once more than it posts; one
\* token is posted for all; every client posts; the size is looked at before
\* it is decremented.
UnregisterBelowZero(c) == Remove(c) /\ PostIf(size' = 0, waiting, -1)
UnregisterOneToken(c)  == Remove(c) /\ PostIf(size' = 0 /\ waiting > 0, 1, 0)
UnregisterAnyone(c)    == Remove(c) /\ PostIf(TRUE, waiting, 0)
UnregisterTooSoon(c)   == Remove(c) /\ PostIf(size = 0, waiting, 0)

\* creg_unregister: the last client lets everyone go who waits for that.
Unregister(c) == Remove(c) /\ PostIf(size' = 0, waiting, 0)

EndUnregister(c) ==
    /\ Step(c, "posted", "gone")
    /\ mutex' = NoThread
    /\ Touch
    /\ UNCHANGED <<table, waiting, sem, freed, hpc, input, listening, hups, exited>>

-----------------------------------------------------------------------------
\* terminate(), on the thread that SIGHUP interrupted.
HStep(t, l, m) == hpc[t] = l /\ hpc' = [hpc EXCEPT ![t] = m]

\* The signal, and what terminate() does first: close the listening socket.
Hup(t) ==
    /\ hups < MaxHups /\ hups' = hups + 1
    /\ t \in Conns => pc[t] \notin {"absent", "gone"}
    /\ HStep(t, "none", "shut")
    /\ listening' = FALSE
    /\ UNCHANGED <<table, waiting, sem, mutex, freed, pc, input, exited, fault>>

\* creg_shutdown_all.
ShutdownAll(t) ==
    /\ HStep(t, "shut", "wait") /\ mutex = NoThread
    /\ input' = [c \in Conns |->
                    IF c \in slots /\ input[c] = "open" THEN "shut" ELSE input[c]]
    /\ Touch
    /\ UNCHANGED <<table, waiting, sem, mutex, freed, pc, listening, hups, exited>>

\* creg_wait_for_empty, up to its sem_wait ...
WaitForEmpty(t) ==
    /\ mutex = NoThread
    /\ IF size # 0
       THEN HStep(t, "wait", "sem") /\ waiting' = waiting + 1
       ELSE HStep(t, "wait", "fini") /\ waiting' = waiting
    /\ Touch
    /\ UNCHANGED <<table, sem, mutex, freed, pc, input, listening, hups, exited>>

\* ... which takes any token there is.
SemWait(t) ==
    /\ HStep(t, "sem", "fini") /\ sem > 0
    /\ sem' = sem - 1
    /\ Touch
    /\ UNCHANGED <<table, waiting, mutex, freed, pc, input, listening, hups, exited>>

Waiters == {t \in Threads : hpc[t] = "sem"}

\* creg_fini; nobody may hold the mutex or wait for the semaphore.
Fini(t) ==
    /\ HStep(t, "fini", "exit")
    /\ freed' = TRUE
    /\ fault' = IF freed THEN "used_after"
                ELSE IF mutex # NoThread \/ Waiters # {} THEN "in_use" ELSE fault
    /\ UNCHANGED <<table, waiting, sem, mutex, pc, input, listening, hups, exited>>

Exit(t) ==
    /\ hpc[t] = "exit"
    /\ exited' = TRUE
    /\ UNCHANGED <<table, waiting, sem, mutex, freed, threadVars, listening, hups, fault>>

-----------------------------------------------------------------------------
Work(t) ==
    \/ /\ t \in Conns
       /\ \/ BeginRegister(t) \/ Register(t) \/ Use(t) \/ Leave(t)
          \/ BeginUnregister(t) \/ Unregister(t) \/ EndUnregister(t)
    \/ ShutdownAll(t) \/ WaitForEmpty(t) \/ SemWait(t) \/ Fini(t) \/ Exit(t)

Next ==
    /\ ~exited /\ fault = "none"
    /\ \/ \E c \in Conns : Accept(c) \/ HangUp(c) \/ BeginUse(c)
       \/ \E t \in Threads : Hup(t) \/ Work(t)

Spec == Init /\ [][Next]_vars

(***************************************************************************)
(* Threads run, and get a mutex that is free again and again.  Clients may *)
(* stay connected, and send packets, for ever.                             *)
(***************************************************************************)
FairSpec == Spec /\ \A t \in Threads : SF_vars(~exited /\ fault = "none" /\ Work(t))

-----------------------------------------------------------------------------
TypeOK ==
    /\ slots \subseteq Conns /\ size \in Nat
    /\ waiting \in Nat /\ sem \in Nat
    /\ mutex \in Threads \cup {NoThread}
    /\ freed \in BOOLEAN /\ listening \in BOOLEAN /\ exited \in BOOLEAN
    /\ pc \in [Conns -> Label]
    /\ hpc \in [Threads -> Handler]
    /\ input \in [Conns -> {"open", "shut", "closed"}]
    /\ hups \in 0..MaxHups
    /\ fault \in {"none", "used_after", "in_use"}

(***************************************************************************)
(* No wake-up is lost and none is invented: every thread that waits for an *)
(* empty registry is counted as waiting or has a token, and it is counted  *)
(* only while there is a client left whose unregistration will post it.    *)
(***************************************************************************)
TokensExact ==
    /\ waiting + sem = Cardinality(Waiters)
    /\ waiting > 0 => slots # {}

(***************************************************************************)
(* The slots are those of the threads between creg_register and            *)
(* creg_unregister, never more than there are, and the count of them that  *)
(* decides who gets in, and who is woken, is right: no thread serves a     *)
(* client that found no slot.  The mutex is held by the one thread that is *)
(* in a function of the registry.                                          *)
(***************************************************************************)
SlotsExact ==
    /\ slots = {c \in Conns : pc[c] \in {"serving", "using", "leaving", "unreg"}}
    /\ size = Cardinality(slots) /\ size <= MAX_CLIENTS
    /\ \A c \in Conns : pc[c] \in Critical <=> mutex = c

(***************************************************************************)
(* A connection that creg_shutdown_all has shut down has left the registry *)
(* by the time the registry is finalized: what is left then, if anything,  *)
(* came after it, or is being waited for by another handler.  This holds   *)
(* though a token may wake a handler that came later than the one it was   *)
(* posted for.                                                             *)
(***************************************************************************)
ShutIsGone ==
    freed /\ fault = "none" =>
        \A c \in slots : input[c] = "shut" => \E t \in Threads : hpc[t] = "wait"

\* A thread that must unregister, or unlock, is in the handler; or a client
\* that registered after creg_shutdown_all stays connected.
Hung ==
    \/ \E c \in Conns : hpc[c] # "none" /\ (mutex = c \/ c \in slots)
    \/ \E c \in slots : input[c] = "open"

(***************************************************************************)
(* terminate() ends the process.  Only a signal on a service thread that   *)
(* is registered, and a client that comes too late to be shut down, can    *)
(* keep it waiting for ever.                                               *)
(***************************************************************************)
Terminates ==
    \A t \in Threads : hpc[t] # "none" ~> (exited \/ fault # "none" \/ []Hung)
=============================================================================
