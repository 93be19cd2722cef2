----------------------------- MODULE Processes -----------------------------
(***************************************************************************)
(* The process tree (process_context), the process a thread runs           *)
(* (process_run_scope, current_process), and the signals that any thread   *)
(* may raise and the next process that polls takes (core/core.hpp).        *)
(*                                                                         *)
(* A thread's chain is the run scopes it is in; an element entered by the  *)
(* resume of a script fiber is marked.  A session is the process of a      *)
(* context; the interpreter adds its listeners to it (interpreter.cpp).    *)
(***************************************************************************)
EXTENDS SequencesExt, FiniteSets, Integers

CONSTANTS Threads, Procs, NoProc,
          MainThread,      \* the thread of the interpreter
          MaxChain   \* bound: run scopes a thread nests

ASSUME ProcessesAssumption ==
    /\ MainThread \in Threads /\ NoProc \notin Procs
    /\ MaxChain \in Nat \ {0}

VARIABLES parent,    \* m_parent; only processes that exist have one
          made,    \* the processes made so far
          sessions,  \* those of a context that the interpreter runs
          chain,     \* per thread, the run scopes it is in
          raised,     \* global_signals
          carried,   \* per thread, what its future holds: a throw to rethrow
          owed,      \* signals raised and not yet seen by a session
          ended,     \* sessions that ended with CS_EXIT
          killed     \* TRUE: the default handler called std::exit
processesVars == <<parent, made, sessions, chain, raised, carried, owed, ended, killed>>

Signals == {"sigint", "exit"}
Idle == "idle"
CurrentProc(t) == IF chain[t] = <<>> THEN NoProc ELSE Last(chain[t]).p

(* The process and its ancestors: what every set closed under m_parent has *)
(* that has the process.                                                   *)
Upward(S) == \A q \in S : parent[q] = NoProc \/ parent[q] \in S
Lineage(p) == {q \in Procs : \A S \in SUBSET Procs : p \in S /\ Upward(S) => q \in S}
IsSession(p) == parent[p] = NoProc
Session(p) == CHOOSE q \in Lineage(p) : IsSession(q)

(* process_context::is_related().                                          *)
IsRelated(p, q) == p \in Lineage(q) \/ q \in Lineage(p)
-----------------------------------------------------------------------------
ProcessesInit ==
    /\ parent = [p \in Procs |-> NoProc]
    /\ made = {} /\ sessions = {}
    /\ chain = [t \in Threads |-> <<>>]
    /\ raised = {} /\ owed = {}
    /\ carried = [t \in Threads |-> Idle]
    /\ ended = {} /\ killed = FALSE

Running == ~killed

(* create_context() and the run scope of the interpreter around it.        *)
CreateContext(p) ==
    /\ Running /\ p \notin made /\ raised = {}
    /\ \A t \in Threads : chain[t] = <<>> /\ carried[t] = Idle
    /\ made' = made \cup {p} /\ sessions' = sessions \cup {p}
    /\ chain' = [chain EXCEPT ![MainThread] = <<[p |-> p, fiber |-> FALSE]>>]
    /\ UNCHANGED <<parent, raised, carried, owed, ended, killed>>

(* process_run_scope; it throws when the thread runs another instance.     *)
MayEnter(t, p) == CurrentProc(t) = NoProc \/ IsRelated(CurrentProc(t), p)

EnterProc(t, p) ==
    /\ Running /\ p \in made /\ Len(chain[t]) < MaxChain
    /\ chain[t] # <<>> /\ MayEnter(t, p)
    /\ \E fiber \in BOOLEAN :
           /\ fiber => ~IsSession(p)
           /\ chain' = [chain EXCEPT ![t] = Append(@, [p |-> p, fiber |-> fiber])]
    /\ UNCHANGED <<parent, made, sessions, raised, carried, owed, ended, killed>>

Leave(t) ==
    /\ Running /\ chain[t] # <<>> /\ (t = MainThread => Len(chain[t]) > 1)
    /\ chain' = [chain EXCEPT ![t] = Front(@)]
    /\ UNCHANGED <<parent, made, sessions, raised, carried, owed, ended, killed>>

(* process_context::fork() for a new fiber: the parent is current_owner(), *)
(* the process of the nearest script fiber, or else what runs.             *)
ForkParent(t) ==
    LET fibers == {n \in DOMAIN chain[t] : chain[t][n].fiber}
    IN IF fibers = {} THEN CurrentProc(t)
       ELSE chain[t][CHOOSE n \in fibers : \A m \in fibers : m <= n].p

Fork(t, p) ==
    /\ Running /\ chain[t] # <<>> /\ p \notin made
    /\ made' = made \cup {p}
    /\ parent' = [parent EXCEPT ![p] = ForkParent(t)]
    /\ UNCHANGED <<sessions, chain, raised, carried, owed, ended, killed>>

(* std::async with the process captured by async_callable: the worker      *)
(* installs it on its own thread.                                          *)
StartAsync(w) ==
    /\ Running /\ w # MainThread /\ chain[MainThread] # <<>>
    /\ chain[w] = <<>> /\ carried[w] = Idle
    /\ chain' = [chain EXCEPT ![w] = <<[p |-> CurrentProc(MainThread), fiber |-> FALSE]>>]
    /\ UNCHANGED <<parent, made, sessions, raised, carried, owed, ended, killed>>

(* future.get() rethrows what ended the worker.  A script that drops its   *)
(* future loses that; here each is asked.                                  *)
TakeFuture(w) ==
    /\ Running /\ chain[w] = <<>> /\ carried[w] # Idle /\ chain[MainThread] # <<>>
    /\ carried' = [carried EXCEPT ![w] = Idle]
    /\ owed' = owed \ {carried[w]}
    /\ ended' = IF carried[w] = "exit" THEN ended \cup {chain[MainThread][1].p} ELSE ended
    /\ chain' = [chain EXCEPT ![MainThread] = IF carried[w] = "exit" THEN <<>> ELSE <<Head(@)>>]
    /\ UNCHANGED <<parent, made, sessions, raised, killed>>

(* raise_sigint() and raise_exit(), from a handler on any thread.          *)
RaiseSignal(sig) ==
    /\ Running /\ sessions \ ended # {} /\ sig \notin raised
    /\ raised' = raised \cup {sig}
    /\ owed' = owed \cup {sig}
    /\ UNCHANGED <<parent, made, sessions, chain, carried, ended, killed>>

(* poll_event(): SIGINT first, and its listener throws; an exit request    *)
(* stays for a later poll.  The listeners of a fork pass both on to its    *)
(* parent, up to the session's, which throw: the thread unwinds, a worker  *)
(* into its future.                                                        *)
TakesBoth(sig) == {} \* MUTANT: both flags are taken before either is dispatched
FlagsAfter(sig) == raised \ {sig}

Poll(t) ==
    LET sig == IF "sigint" \in raised THEN "sigint" ELSE "exit"
    IN /\ Running /\ chain[t] # <<>> /\ raised # {}
       /\ raised' = FlagsAfter(sig)
       /\ IF Session(CurrentProc(t)) \notin sessions   \* only the default handlers
          THEN /\ killed' = (sig = "exit")
               /\ UNCHANGED <<chain, carried, owed, ended>>
          ELSE /\ IF t = MainThread
                  THEN /\ owed' = owed \ {sig}
                       /\ ended' = IF sig = "exit" THEN ended \cup {Session(CurrentProc(t))} ELSE ended
                       /\ chain' = [chain EXCEPT ![t] = IF sig = "exit" THEN <<>> ELSE <<Head(@)>>]
                       /\ UNCHANGED carried
                  ELSE /\ carried' = [carried EXCEPT ![t] = sig]
                       /\ chain' = [chain EXCEPT ![t] = <<>>]
                       /\ UNCHANGED <<owed, ended>>
               /\ UNCHANGED killed
       /\ UNCHANGED <<parent, made, sessions>>

ProcessesNext ==
    \/ \E p \in Procs : CreateContext(p)
    \/ \E t \in Threads, p \in Procs : EnterProc(t, p) \/ Fork(t, p)
    \/ \E t \in Threads : Leave(t) \/ Poll(t) \/ StartAsync(t) \/ TakeFuture(t)
    \/ \E sig \in Signals : RaiseSignal(sig)
ProcessesSpec == ProcessesInit /\ [][ProcessesNext]_processesVars
-----------------------------------------------------------------------------
ProcessesTypeOK ==
    /\ parent \in [Procs -> Procs \cup {NoProc}]
    /\ sessions \subseteq made /\ made \subseteq Procs
    /\ \A t \in Threads : Len(chain[t]) <= MaxChain /\ \A n \in DOMAIN chain[t] : chain[t][n].p \in made
    /\ raised \subseteq Signals /\ owed \subseteq Signals

(* All that runs on a thread belongs to one session, whatever scopes were  *)
(* nested: relation is asked only of the process on top.                   *)
OneSessionPerThread ==
    \A t \in Threads : \A m, n \in DOMAIN chain[t] : Session(chain[t][m].p) = Session(chain[t][n].p)

(* A signal that was raised is still pending, or carried by a future, or   *)
(* has reached the session: no poll swallows it.                           *)
SignalsAreKept == \A sig \in owed : sig \in raised \/ \E t \in Threads : carried[t] = sig

(* An exit request goes through the session's listeners, so that its       *)
(* finalizers run, whichever process polled it.                            *)
ExitsThroughTheSession == ~killed

(* Whatever processes a thread enters belong to its session, no signal is  *)
(* swallowed, and an exit goes through the listeners of the session        *)
(* (process_context).                                                      *)
ProcessesInv ==
    /\ ProcessesTypeOK
    /\ OneSessionPerThread
    /\ SignalsAreKept
    /\ ExitsThroughTheSession
=============================================================================
