---------------------------- MODULE ProcessIdentity ----------------------------
(***************************************************************************)
(* process_instance_id of policyengine_observability/identity.py, for one  *)
(* service and one platform identifier: a table in the memory of a process,*)
(* keyed by the process identifier of the operating system, and copied with*)
(* that memory when the process is forked or restored from a snapshot.     *)
(***************************************************************************)
EXTENDS Naturals

CONSTANTS Callers,       \* the threads that ask
          NoIdentity,
          MaxProcesses   \* bound: the first process and its copies

ASSUME IdentityAssumption ==
    MaxProcesses \in Nat \ {0} /\ NoIdentity \notin Nat

VARIABLES process,      \* the process that the model follows
          pid,          \* os.getpid()
          identities,   \* _PROCESS_IDENTITIES, by process identifier
          generated,    \* the callers that have generated one and not yet stored it
          uuids,        \* identifiers stored so far: an identifier is its number
          given         \* history: the results returned

identityVars == <<process, pid, identities, generated, uuids, given>>

IdentityTypeOK ==
    /\ process \in 1..MaxProcesses
    /\ pid \in 1..process
    /\ identities \in [1..MaxProcesses -> Nat \cup {NoIdentity}]
    /\ generated \in SUBSET Callers
    /\ uuids \in Nat
    /\ given \subseteq [process : 1..process, pid : 1..process, id : 1..uuids]

IdentityInit ==
    /\ process = 1
    /\ pid = 1
    /\ identities = [p \in 1..MaxProcesses |-> NoIdentity]
    /\ generated = {}
    /\ uuids = 0
    /\ given = {}

Give(id) == given' = given \cup {[process |-> process, pid |-> pid, id |-> id]}

\* Mutant: the process identifier is not part of the key.
AnyProcess == 1

Key == pid

\* get: the identifier is known, or a new one is generated.
Ask(t) ==
    /\ t \notin generated
    /\ IF identities[Key] # NoIdentity
       THEN Give(identities[Key]) /\ UNCHANGED generated
       ELSE generated' = generated \cup {t} /\ UNCHANGED given
    /\ UNCHANGED <<process, pid, identities, uuids>>

\* Mutant: the generated identifier replaces one that is there.
Replace(id) == uuids + 1

\* setdefault: the first one stored stays.
SetDefault(id) == IF id = NoIdentity THEN uuids + 1 ELSE id

Store(t) ==
    LET id == SetDefault(identities[Key])
    IN  /\ t \in generated
        /\ generated' = generated \ {t}
        /\ identities' = [identities EXCEPT ![Key] = id]
        /\ uuids' = IF id = identities[Key] THEN uuids ELSE uuids + 1
        /\ Give(id)
        /\ UNCHANGED <<process, pid>>

\* A fork has a process identifier of its own; a snapshot restored in another
\* container has that of the process it was taken from, and its table too.  The
\* calls of other threads are never continued.
CopyProcess(id) ==
    /\ process < MaxProcesses
    /\ process' = process + 1
    /\ pid' = id
    /\ generated' = {}
    /\ UNCHANGED <<identities, uuids, given>>

ForkProcess == CopyProcess(process + 1)
RestoreProcess == CopyProcess(pid)

IdentityNext ==
    \/ \E t \in Callers : Ask(t) \/ Store(t)
    \/ ForkProcess
    \/ RestoreProcess

IdentitySpec == IdentityInit /\ [][IdentityNext]_identityVars
-------------------------------------------------------------------------------
\* All threads of a process get the same identifier, also when they ask for the
\* first time together, and a process with a process identifier of its own, as
\* after a fork, gets another one than its parent, although it has a copy of the
\* parent's table.
IdentityPerProcess ==
    \A g, h \in given :
        /\ g.process = h.process => g.id = h.id
        /\ g.pid # h.pid => g.id # h.id

\* identity.py:19-20 says that the UUID distinguishes processes in separate
\* containers that reuse the same process identifier.  This does not hold: a process
\* restored under the identifier of its parent finds the entry of its parent.
ContainersToldApart ==
    \A g, h \in given : g.process # h.process => g.id # h.id
===============================================================================
