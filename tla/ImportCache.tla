---------------------------- MODULE ImportCache ----------------------------
(***************************************************************************)
(* The module cache of a compiler and the two ways into it,                *)
(* instance_type::source_import and instance_type::import                  *)
(* (sources/instance/instance.cpp).  Loading a source module enters an     *)
(* empty namespace under its key, runs the module's top-level code, which  *)
(* may import in turn, and fills the namespace when that code is done.  If *)
(* it throws, every key that was not there before is erased again.         *)
(*                                                                         *)
(* A task is a program, or a fiber of one: a stack of imports in progress. *)
(* With several tasks their imports interleave, because a module's         *)
(* top-level code may yield().                                             *)
(*                                                                         *)
(* Every load makes a new namespace, identified by its index in loads.  A  *)
(* namespace uses those its top-level code was given by its own imports;   *)
(* loader is the import it was loaded from, whose context owns its own.    *)
(***************************************************************************)
EXTENDS Integers, FiniteSets, SequencesExt

CONSTANTS Keys,        \* normalized paths of modules
          Extensions,  \* those of them that are binary extensions
          Tasks,
          None,        \* no loader: imported by a task's own program
          MaxLoads     \* bound on the namespaces ever made

ASSUME ImportAssumption ==
    /\ Extensions \subseteq Keys
    /\ None \notin Nat
    /\ MaxLoads \in Nat

VARIABLES
    modules,  \* compiler->modules: the set of pairs [key, load]
    loads,    \* the namespaces made so far: key, status, loader, uses
    imports,  \* task -> its imports in progress, outermost first
    held      \* task -> the namespaces its own program was given

importVars == <<modules, loads, imports, held>>

Ids == DOMAIN loads
Cached == {m.key : m \in modules}
Entry(k) == CHOOSE m \in modules : m.key = k
Current(t) == IF imports[t] = <<>> THEN None ELSE Last(imports[t]).load

ImportInit ==
    /\ modules = {}
    /\ loads = <<>>
    /\ imports = [t \in Tasks |-> <<>>]
    /\ held = [t \in Tasks |-> {}]
-----------------------------------------------------------------------------
Namespace(k, s, l) == [key |-> k, status |-> s, loader |-> l, uses |-> {}]

(* The code of load l, or the program of task t, is given namespace o.     *)
Given(ls, l, t, o) ==
    IF l = None
    THEN /\ loads' = ls
         /\ held' = [held EXCEPT ![t] = @ \cup {o}]
    ELSE /\ loads' = [ls EXCEPT ![l].uses = @ \cup {o}]
         /\ UNCHANGED held

(* The key is cached: the namespace is returned as it is, filled or not.   *)
ImportCached(t, k) ==
    /\ k \in Cached
    /\ Given(loads, Current(t), t, Entry(k).load)
    /\ UNCHANGED <<modules, imports>>

(* An extension is loaded by the dynamic linker, in one step.              *)
ImportExtension(t, k) ==
    /\ k \in Extensions \ Cached
    /\ Len(loads) < MaxLoads
    /\ Given(Append(loads, Namespace(k, "full", Current(t))), Current(t), t,
             Len(loads) + 1)
    /\ modules' = modules \cup {[key |-> k, load |-> Len(loads) + 1]}
    /\ UNCHANGED imports

(* A source module: remember what is cached, enter the empty namespace and *)
(* start the code.                                                         *)
KnownNothing(t) == \* MUTANT: the snapshot is not taken
    {}

Known(t) == Cached

Entered(k) == modules \cup {[key |-> k, load |-> Len(loads) + 1]}

BeginImport(t, k) ==
    /\ k \in Keys \ (Extensions \cup Cached)
    /\ Len(loads) < MaxLoads
    /\ loads' = Append(loads, Namespace(k, "loading", Current(t)))
    /\ modules' = Entered(k)
    /\ imports' = [imports EXCEPT ![t] =
                      Append(@, [load |-> Len(loads) + 1, known |-> Known(t)])]
    /\ UNCHANGED held

(* The code has run to its end: fill the namespace and give it to the      *)
(* importer, whose context owns the module's from now on.                  *)
Filled(l) == [loads EXCEPT ![l].status = "full"]

EndImport(t) ==
    LET l == Current(t)
    IN  /\ l # None
        /\ imports' = [imports EXCEPT ![t] = Front(@)]
        /\ Given(Filled(l), loads[l].loader, t, l)
        /\ UNCHANGED modules

(* The code threw, or the file is not the package it should be: erase the  *)
(* new keys, and drop the context, and with it what its code was given.    *)
(* The exception is the importer's to catch or to pass on.                 *)
KeptOwn(l, known) == \* MUTANT: only the module's own key is erased
    {m \in modules : m.key # loads[l].key}

Kept(l, known) == {m \in modules : m.key \in known}

FailImport(t) ==
    LET l == Current(t)
    IN  /\ l # None
        /\ imports' = [imports EXCEPT ![t] = Front(@)]
        /\ loads' = [loads EXCEPT ![l].status = "failed", ![l].uses = {}]
        /\ modules' = Kept(l, Last(imports[t]).known)
        /\ UNCHANGED held

ImportNext ==
    \E t \in Tasks :
        \/ \E k \in Keys : ImportCached(t, k) \/ ImportExtension(t, k)
                           \/ BeginImport(t, k)
        \/ EndImport(t)
        \/ FailImport(t)

ImportSpec == ImportInit /\ [][ImportNext]_importVars
-----------------------------------------------------------------------------
Frames == [load : Ids, known : SUBSET Keys]
InProgress == UNION {{imports[t][i].load : i \in DOMAIN imports[t]} : t \in Tasks}

(* Every variable keeps its type, the cache has one entry for a key, and   *)
(* a namespace is being loaded exactly while an import is in progress.     *)
ImportTypeOK ==
    /\ modules \subseteq [key : Keys, load : Ids]
    /\ \A m, n \in modules : m.key = n.key => m = n
    /\ loads \in Seq([key : Keys, status : {"loading", "full", "failed"},
                      loader : Ids \cup {None}, uses : SUBSET Ids])
    /\ imports \in [Tasks -> Seq(Frames)]
    /\ held \in [Tasks -> SUBSET Ids]
    /\ \A l \in Ids : loads[l].status = "loading" <=> l \in InProgress

(* What a namespace needs to work: the ones its code was given, and the    *)
(* context of the import that loaded it, which owns its own.               *)
Owner(l) == {loads[l].loader} \ {None}
Needs(l) == loads[l].uses \cup Owner(l)

Closure(S, Step(_)) ==
    {l \in Ids : \A T \in SUBSET Ids :
        S \subseteq T /\ (\A k \in T : Step(k) \subseteq T) => l \in T}

(* What the running programs and later imports can get at.                 *)
Roots == {m.load : m \in modules} \cup (UNION {held[t] : t \in Tasks}) \cup InProgress

(***************************************************************************)
(* No program or cache entry gets at the empty namespace of an import that *)
(* failed, nor at a module owned by the context of one, however deep and   *)
(* circular the imports, and whatever failed and was caught on the way.    *)
(***************************************************************************)
NothingFailedIsReachable ==
    \A l \in Closure(Roots, Needs) : loads[l].status # "failed"

(* Everything that is reachable under one key is one module: its top-level *)
(* code has run once, and all its users share its variables.               *)
OneCopyOfEachModule ==
    \A l, m \in Closure(Roots, Needs) : loads[l].key = loads[m].key => l = m

(* A module is never loaded again in the course of its own loading, so     *)
(* circular imports come to an end.                                        *)
NoImportReentered ==
    \A t \in Tasks : \A i, j \in DOMAIN imports[t] :
        loads[imports[t][i].load].key = loads[imports[t][j].load].key => i = j

(***************************************************************************)
(* instance.cpp:79 says of the loop in the catch block: "Erase this        *)
(* import's keys and any transitive ones."  Whatever a failing import      *)
(* erases was loaded by it, or from it.                                    *)
(***************************************************************************)
ErasesOnlyItsOwn ==
    [][\A t \in Tasks : \A m \in modules \ modules' :
          FailImport(t) => Current(t) \in Closure({m.load}, Owner)]_importVars

(* Whatever imports fail or close circles, what is reachable is complete,  *)
(* exists once, and was not entered while it was loading (import and       *)
(* source_import).                                                         *)
ImportInv ==
    /\ ImportTypeOK
    /\ NothingFailedIsReachable
    /\ OneCopyOfEachModule
    /\ NoImportReentered
=============================================================================
