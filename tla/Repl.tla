-------------------------------- MODULE Repl --------------------------------
(***************************************************************************)
(* The interactive interpreter (class repl, include/covscript/impl/impl.hpp *)
(* and sources/instance/instance.cpp): one top-level statement at a time,  *)
(* spread over several lines while blocks are open, each under a           *)
(* function_store transaction, a storage_transaction, an import scope and  *)
(* a token arena (compile_unit) of its own.                                *)
(*                                                                         *)
(* A statement that runs may call native code that calls exec() again; so  *)
(* statements nest, but only one, the innermost, is being compiled.  A     *)
(* lambda registers in the function store while its line is compiled, and  *)
(* is bound by preprocessing (a namespace, an import) or by running.       *)
(*                                                                         *)
(* Lambdas and arenas are numbered; a number is used again when nothing    *)
(* refers to it.                                                           *)
(***************************************************************************)
EXTENDS Integers, FiniteSets, SequencesExt

CONSTANTS MaxBlocks,  \* blocks open at a time
          MaxNest,    \* statements running at a time
          MaxFns,     \* slots of the function store
          MaxTx       \* entries of m_tx

ASSUME ReplAssumption == {MaxBlocks, MaxNest, MaxFns, MaxTx} \subseteq Nat

VARIABLES
    methods,       \* the open blocks, outermost first: "loop" or "plain"
    loopDepth,     \* compiler->loop_depth
    importScopes,  \* Len(compiler->import_result_scopes)
    entries,       \* the function store: slot -> lambda, 0 when reset
    fnTx,          \* its transactions: the slots registered in each
    domains,       \* storage: the lambdas bound in each domain, global first
    tx,            \* m_tx: snapshots of domains, or that they are void
    units,         \* m_units
    savedUnits,    \* m_saved_units
    currentUnit,   \* context->current_unit, 0 for the one before the REPL's
    built,         \* a line has been built and is about to be interpreted
    running,       \* the statements being run, outermost first
    before         \* history: storage and function store at its beginning

replVars == <<methods, loopDepth, importScopes, entries, fnTx, domains, tx, units,
          savedUnits, currentUnit, built, running, before>>

BlockKinds == {"loop", "plain"}
Snapshot(d) == [live |-> TRUE, data |-> d]
Void == [live |-> FALSE, data |-> <<>>]

Compiling == built \/ methods # <<>>
Reentrant == running # <<>>
Bind(ds, fns) == [ds EXCEPT ![Len(ds)] = @ \cup fns]
Smallest(S) == CHOOSE n \in S : \A m \in S : n <= m

(* The lambdas of the statement being compiled, and all that are known.    *)
OwnFns == IF fnTx = <<>> THEN {} ELSE {entries[i] : i \in Last(fnTx)}
Bound == UNION ToSet(domains)
Waiting == UNION {r.fns : r \in ToSet(running)}
KnownFunctions == ToSet(entries) \cup Bound \cup Waiting
                      \cup (UNION {UNION ToSet(s.data) : s \in ToSet(tx)})
FreshFn == Smallest((1..(Cardinality(KnownFunctions) + 1)) \ KnownFunctions)
FreshUnit == LET used == ToSet(units) \cup ToSet(savedUnits) \cup {currentUnit}
             IN  Smallest((1..(Cardinality(used) + 1)) \ used)

ReplInit ==
    /\ methods = <<>>
    /\ loopDepth = 0
    /\ importScopes = 0
    /\ entries = <<>>
    /\ fnTx = <<>>
    /\ domains = <<{}>>
    /\ tx = <<>>
    /\ units = <<>>
    /\ savedUnits = <<>>
    /\ currentUnit = 0
    /\ built = FALSE
    /\ running = <<>>
    /\ before = [domains |-> <<{}>>, entries |-> <<>>]
-----------------------------------------------------------------------------
(* function_store: commit_transaction and rollback_transaction.            *)
PopTx(t) == IF t = <<>> THEN t ELSE Front(t)

Trimmed(es) ==
    LET used == {i \in DOMAIN es : es[i] # 0}
    IN  SubSeq(es, 1, IF used = {} THEN 0 ELSE Max(used))

RolledBack ==
    IF fnTx = <<>> THEN entries
    ELSE Trimmed([i \in DOMAIN entries |-> IF i \in Last(fnTx) THEN 0 ELSE entries[i]])

(* pop_unit() *)
PopUnit ==
    IF units = <<>> THEN UNCHANGED <<units, savedUnits, currentUnit>>
    ELSE /\ units' = Front(units)
         /\ savedUnits' = Front(savedUnits)
         /\ currentUnit' = IF Front(units) = <<>> THEN Last(savedUnits)
                           ELSE Last(Front(units))

EndImportScope == importScopes' = IF importScopes = 0 THEN 0 ELSE importScopes - 1

(* The domains of the open blocks are removed again. *)
WithoutBlocks(ds) == SubSeq(ds, 1, Len(ds) - Len(methods))

(* reset_status(), except for the storage. *)
ResetStatus ==
    /\ methods' = <<>>
    /\ loopDepth' = 0
    /\ EndImportScope
    /\ PopUnit
    /\ entries' = RolledBack
    /\ fnTx' = PopTx(fnTx)
-----------------------------------------------------------------------------
(***************************************************************************)
(* run(): a new statement begins unless a block is open; then the line is  *)
(* built, which may register a lambda.                                     *)
(***************************************************************************)
BeginStatement ==
    IF methods # <<>>
    THEN UNCHANGED <<importScopes, tx, savedUnits, units, currentUnit, before>>
    ELSE /\ importScopes' = importScopes + 1
         /\ tx' = Append(tx, Snapshot(domains))
         /\ savedUnits' = Append(savedUnits, currentUnit)
         /\ units' = Append(units, FreshUnit)
         /\ currentUnit' = FreshUnit
         /\ before' = [domains |-> domains, entries |-> entries]

BuildLine(lambda) ==
    LET ts == IF methods = <<>> THEN Append(fnTx, {}) ELSE fnTx
    IN  /\ ~built
        /\ Len(running) < MaxNest
        /\ methods = <<>> => Len(tx) < MaxTx
        /\ lambda => Len(entries) < MaxFns
        /\ BeginStatement
        /\ built' = TRUE
        /\ entries' = IF lambda THEN Append(entries, FreshFn) ELSE entries
        /\ fnTx' = IF lambda THEN [ts EXCEPT ![Len(ts)] = @ \cup {Len(entries) + 1}]
                   ELSE ts
        /\ UNCHANGED <<methods, loopDepth, domains, running>>

(* The line does not lex, is empty or more than one statement, or opens a  *)
(* block in a re-entrant call: the snapshot is discarded.                  *)
RejectLine ==
    /\ built
    /\ ResetStatus
    /\ domains' = WithoutBlocks(domains)
    /\ tx' = PopTx(tx)
    /\ built' = FALSE
    /\ UNCHANGED <<running, before>>

(* interpret(): what preprocessing or translation bound before it threw is *)
(* undone by the snapshot, which stays on m_tx without it.                 *)
RollbackTop(ds) ==
    /\ domains' = IF tx # <<>> /\ Last(tx).live THEN Last(tx).data ELSE ds
    /\ tx' = IF tx = <<>> THEN tx ELSE Append(Front(tx), Void)

DiscardTop(ds) == \* MUTANT: the snapshot is discarded instead
    /\ domains' = ds
    /\ tx' = IF tx = <<>> THEN tx ELSE Append(Front(tx), Void)

RestoreTop(ds) == RollbackTop(ds)

FailCompile(fns) ==
    /\ built
    /\ ResetStatus
    /\ RestoreTop(WithoutBlocks(Bind(domains, fns)))
    /\ built' = FALSE
    /\ UNCHANGED <<running, before>>

(* `end` whose block binds its names into the enclosing domain, but whose  *)
(* translation then throws.                                                *)
FailClose ==
    /\ built /\ methods # <<>>
    /\ ResetStatus
    /\ RestoreTop(SubSeq(Bind(Front(domains), Last(domains)), 1,
                         Len(domains) - Len(methods)))
    /\ built' = FALSE
    /\ UNCHANGED <<running, before>>
-----------------------------------------------------------------------------
OpenBlock(kind) ==
    /\ built /\ ~Reentrant
    /\ Len(methods) < MaxBlocks
    /\ methods' = Append(methods, kind)
    /\ loopDepth' = loopDepth + (IF kind = "loop" THEN 1 ELSE 0)
    /\ domains' = Append(domains, {})
    /\ built' = FALSE
    /\ UNCHANGED <<importScopes, entries, fnTx, tx, units, savedUnits,
                   currentUnit, running, before>>

(* A line inside a block is preprocessed and kept for later. *)
DeferLine(fns) ==
    /\ built /\ methods # <<>>
    /\ domains' = Bind(domains, fns)
    /\ built' = FALSE
    /\ UNCHANGED <<methods, loopDepth, importScopes, entries, fnTx, tx, units,
                   savedUnits, currentUnit, running, before>>

(* `end`: the block's domain is removed; a namespace is bound outside it.  *)
ClosedAnyBlock == \* MUTANT: every block counts as a loop
    loopDepth - 1

ClosedBlock == loopDepth - (IF Last(methods) = "loop" THEN 1 ELSE 0)

CloseBlock(fns) ==
    /\ methods' = Front(methods)
    /\ loopDepth' = ClosedBlock
    /\ domains' = Bind(Front(domains), fns)

CloseInner(fns) ==
    /\ built /\ Len(methods) > 1
    /\ fns \in {{}, Last(domains)}
    /\ CloseBlock(fns)
    /\ built' = FALSE
    /\ UNCHANGED <<importScopes, entries, fnTx, tx, units, savedUnits,
                   currentUnit, running, before>>

(***************************************************************************)
(* A statement has been translated: both transactions are committed, so    *)
(* that nothing it binds from now on can be rolled back, and it is run.    *)
(***************************************************************************)
Commit ==
    /\ fnTx' = PopTx(fnTx)
    /\ tx' = Append(Front(tx), Void)

StartRun ==
    /\ Commit
    /\ running' = Append(running, [fns |-> OwnFns, unit |-> currentUnit])
    /\ built' = FALSE
    /\ UNCHANGED <<importScopes, entries, units, savedUnits, currentUnit, before>>

RunSingle(fns) ==
    /\ built /\ methods = <<>>
    /\ domains' = Bind(domains, fns)
    /\ StartRun
    /\ UNCHANGED <<methods, loopDepth>>

RunBlock(fns) ==
    /\ built /\ Len(methods) = 1
    /\ fns \in {{}, Last(domains)}
    /\ CloseBlock(fns)
    /\ StartRun

(* The end of run() for a complete statement; dropping a snapshot that is  *)
(* neither committed nor discarded restores it.                            *)
Complete(ds) ==
    /\ domains' = IF Last(tx).live THEN Last(tx).data ELSE ds
    /\ tx' = Front(tx)
    /\ fnTx' = PopTx(fnTx)
    /\ EndImportScope
    /\ PopUnit

(* Some statements translate to nothing: a package declaration, an `if` or *)
(* a `while` whose condition is constantly false.                          *)
RunNothing ==
    /\ built /\ Len(methods) <= 1
    /\ methods' = <<>>
    /\ loopDepth' = IF methods = <<>> THEN loopDepth ELSE ClosedBlock
    /\ Complete(WithoutBlocks(domains))
    /\ built' = FALSE
    /\ UNCHANGED <<entries, running, before>>

(* The statement that runs binds its lambdas. *)
BindRunning ==
    /\ ~built /\ Reentrant
    /\ domains' = Bind(domains, Last(running).fns)
    /\ UNCHANGED <<methods, loopDepth, importScopes, entries, fnTx, tx, units,
                   savedUnits, currentUnit, built, running, before>>

FinishRun ==
    /\ ~built /\ Reentrant
    /\ running' = Front(running)
    /\ Complete(domains)
    /\ UNCHANGED <<methods, loopDepth, entries, built, before>>

(* It throws; whoever called exec() catches the exception or passes it on. *)
FailRun ==
    /\ ~built /\ Reentrant
    /\ running' = Front(running)
    /\ ResetStatus
    /\ RestoreTop(WithoutBlocks(domains))
    /\ UNCHANGED <<built, before>>

(* The program assigns something else to the variables of a lambda. *)
Unbind(fn) ==
    /\ ~Compiling /\ fn \in domains[1]
    /\ domains' = [domains EXCEPT ![1] = @ \ {fn}]
    /\ UNCHANGED <<methods, loopDepth, importScopes, entries, fnTx, tx, units,
                   savedUnits, currentUnit, built, running, before>>

(* ~repl, and another REPL on the same context. *)
Reopen ==
    /\ ~built /\ ~Reentrant
    /\ IF methods # <<>> \/ units # <<>> THEN ResetStatus
       ELSE UNCHANGED <<methods, loopDepth, importScopes, entries, fnTx, units,
                        savedUnits, currentUnit>>
    /\ tx' = <<>>
    /\ domains' = [WithoutBlocks(domains) EXCEPT ![1] = {}]
    /\ UNCHANGED <<built, running, before>>

ReplNext ==
    \/ \E lambda \in BOOLEAN : BuildLine(lambda)
    \/ RejectLine
    \/ \E fns \in {{}, OwnFns} : FailCompile(fns) \/ DeferLine(fns) \/ RunSingle(fns)
    \/ FailClose
    \/ \E kind \in BlockKinds : OpenBlock(kind)
    \/ \E fns \in {{}, Last(domains)} : CloseInner(fns) \/ RunBlock(fns)
    \/ RunNothing \/ BindRunning \/ FinishRun \/ FailRun
    \/ \E fn \in Bound : Unbind(fn)
    \/ Reopen

ReplSpec == ReplInit /\ [][ReplNext]_replVars
-----------------------------------------------------------------------------
(* Every variable keeps its type. *)
ReplTypeOK ==
    /\ methods \in Seq(BlockKinds)
    /\ loopDepth \in Nat /\ importScopes \in Nat
    /\ entries \in Seq(Nat) /\ Len(entries) <= MaxFns
    /\ fnTx \in Seq(SUBSET DOMAIN entries)
    /\ domains \in Seq(SUBSET (Nat \ {0})) /\ domains # <<>>
    /\ \A s \in ToSet(tx) : s = Void \/ s = Snapshot(s.data)
    /\ units \in Seq(Nat \ {0}) /\ savedUnits \in Seq(Nat) /\ currentUnit \in Nat
    /\ built \in BOOLEAN
    /\ running \in Seq([fns : SUBSET (Nat \ {0}), unit : Nat])

(***************************************************************************)
(* A lambda that a variable or a running statement refers to is never      *)
(* destroyed, whichever statement it was registered by and however that,   *)
(* or one nested in it, fails afterwards.                                  *)
(***************************************************************************)
BoundLambdasAreAlive ==
    Bound \cup Waiting \subseteq ToSet(entries)

(* A failed line leaves the storage with exactly one domain for each block *)
(* still open, and the compiler with the loops among them.                 *)
DomainsMatchBlocks ==
    /\ Len(domains) = 1 + Len(methods)
    /\ loopDepth = Cardinality({i \in DOMAIN methods : methods[i] = "loop"})

(* Every statement in flight has one arena, one import scope, and, while   *)
(* it is being compiled, one function transaction; the others have none.   *)
StatementsAreBalanced ==
    LET compiled == IF Compiling THEN 1 ELSE 0
    IN  /\ Len(units) = Len(running) + compiled
        /\ Len(savedUnits) = Len(units)
        /\ importScopes = Len(units)
        /\ Len(fnTx) = compiled

(* Code is compiled into, and run from, the arena of its own statement,    *)
(* also after a nested exec() has failed or succeeded; without a statement *)
(* the arena is the one the REPL was entered with.                         *)
ArenaFollowsStatement ==
    /\ ~Compiling => currentUnit = IF Reentrant THEN Last(running).unit ELSE 0
    /\ Compiling => currentUnit = Last(units)
    /\ \A i \in DOMAIN running : running[i].unit = units[i]

(* A statement that fails before it runs leaves no binding and no lambda   *)
(* behind, however many of its lines had been accepted.                    *)
FailureLeavesNoTrace ==
    [][(RejectLine \/ FailClose \/ \E fns \in {{}, OwnFns} : FailCompile(fns))
        => domains' = before.domains /\ entries' = before.entries]_replVars

(* However lines are accepted, refused or fail, and however exec() is      *)
(* nested in them, the storage, the compiler and the arenas agree on the   *)
(* blocks and statements still open (repl::exec and its error paths).      *)
ReplInv ==
    /\ ReplTypeOK
    /\ BoundLambdasAreAlive
    /\ DomainsMatchBlocks
    /\ StatementsAreBalanced
    /\ ArenaFollowsStatement
=============================================================================
