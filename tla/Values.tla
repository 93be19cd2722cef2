------------------------------- MODULE Values -------------------------------
(***************************************************************************)
(* Values and the handles on them (core/variable.hpp): a `var` owns a      *)
(* share of a proxy, a reference count with a protect level and the data;  *)
(* expressions, assignments, calls and returns of a script (runtime.cpp,   *)
(* instance.cpp, covscript.cpp) are copies, links and moves of handles.    *)
(* A result that nothing else holds is marked movable (level -1), and      *)
(* copy() takes it as it is instead of cloning it.                         *)
(*                                                                         *)
(* Data is a version number, a fresh one for new data; the data of a       *)
(* recursive lambda also holds `self`, a borrower that owns no share.      *)
(***************************************************************************)
EXTENDS SequencesExt, FiniteSetsExt, Integers

CONSTANTS Proxies,       \* bound: the proxies that exist at once
          Vars,          \* the variables of the script
          Literal,       \* a constant literal, which its token holds
          Lambda,        \* a recursive lambda, which the function store holds
          Null,          \* no proxy
          MaxTemps,      \* bound: values of unfinished expressions
          LinksResults,  \* TRUE: the script links a variable to a result
          AssignsLambdas \* TRUE: the script assigns lambdas to variables

ASSUME ValuesAssumption ==
    /\ Null \notin Proxies /\ IsFiniteSet(Vars)
    /\ \E p, q \in Proxies : p # q \* one for Literal, one for Lambda
    /\ Vars \cap {Literal, Lambda} = {} /\ Literal # Lambda
    /\ MaxTemps \in Nat
    /\ LinksResults \in BOOLEAN /\ AssignsLambdas \in BOOLEAN

VARIABLES
    proxy,   \* the proxies; one with no references is free
    handle,  \* holder -> the proxy its var holds, or Null
    temps,   \* the values of the expression that is evaluated
    copied   \* ghost: the variable the last step has given a copy, or Null

valuesVars == <<proxy, handle, temps, copied>>

Holders == Vars \cup {Literal, Lambda}
Movable == -1
Trivial == 0
Protected == 1
Constant == 2

Proxy == [rc : 0 .. (Cardinality(Holders) + MaxTemps + 1), level : -1 .. 2,
          kind : {"free", "data", "lambda"}, self : Proxies \cup {Null}]
FreeProxy == [rc |-> 0, level |-> Trivial, kind |-> "free", self |-> Null]
Made(level, kind, self) == [rc |-> 1, level |-> level, kind |-> kind, self |-> self]

First == CHOOSE p \in Proxies : TRUE
Second == CHOOSE p \in Proxies : p # First

ValuesInit ==
    /\ proxy = [p \in Proxies |->
                   CASE p = First -> Made(Constant, "data", Null)
                     [] p = Second -> Made(Protected, "lambda", p)
                     [] OTHER -> FreeProxy]
    /\ handle = [h \in Holders |-> CASE h = Literal -> First
                                     [] h = Lambda -> Second
                                     [] OTHER -> Null]
    /\ temps = <<>>
    /\ copied = Null
-----------------------------------------------------------------------------
Free == {p \in Proxies : proxy[p].rc = 0}
FreeOne == CHOOSE p \in Free : TRUE

(* duplicate() and recycle(): a share more or less; the last one frees.    *)
Share(px, p) == IF p = Null THEN px ELSE [px EXCEPT ![p].rc = @ + 1]
Release(px, p) ==
    IF p = Null THEN px
    ELSE IF px[p].rc = 1 THEN [px EXCEPT ![p] = FreeProxy]
    ELSE [px EXCEPT ![p].rc = @ - 1]
Mark(px, p, level) == [px EXCEPT ![p].level = level]

(* any::try_move(): only for the one share there is.                       *)
TryMoveShared(px, p) == \* MUTANT: the reference count is not asked
    Mark(px, p, Movable)

TryMove(px, p) == IF px[p].rc = 1 THEN Mark(px, p, Movable) ELSE px

(* clone(): the data in a new proxy; rebind() lets a lambda's `self` that  *)
(* pointed to the old proxy point to the new one.                          *)
CloneWithoutRebind(px, p, q) == \* MUTANT: rebind() is left out of clone()
    [px[p] EXCEPT !.rc = 1, !.level = Trivial]

CloneOf(px, p, q) ==
    [px[p] EXCEPT !.rc = 1, !.level = Trivial,
                  !.self = IF px[p].self = p THEN q ELSE px[p].self]

(* copy(): <<the proxies, the copy>>, for the share that the temporary p   *)
(* has: a movable one is taken, of any other a clone is made.              *)
Copy(px, p) ==
    IF px[p].level = Movable THEN <<Mark(px, p, Trivial), p>>
    ELSE LET q == CHOOSE r \in Proxies : px[r].rc = 0
         IN <<Release([px EXCEPT ![q] = CloneOf(px, p, q)], p), q>>

Lvalue(px, p) == IF px[p].level = Movable THEN Mark(px, p, Trivial) ELSE px

Operand == Last(temps)
Pop == temps' = Front(temps)
Push(p) == temps' = Append(temps, p)
Room == Len(temps) < MaxTemps
Bind(v, p) == handle' = [handle EXCEPT ![v] = p]
-----------------------------------------------------------------------------
(* parse_expr() of an identifier, a literal or a lambda: one share more.   *)
EvaluateName(h) ==
    /\ Room /\ handle[h] # Null
    /\ proxy' = Share(proxy, handle[h])
    /\ Push(handle[h])
    /\ copied' = Null
    /\ UNCHANGED handle

(* An operator, `new`, an array: make() and rvalue().                      *)
EvaluateNew ==
    /\ Room /\ Free # {}
    /\ proxy' = TryMove([proxy EXCEPT ![FreeOne] = Made(Trivial, "data", Null)], FreeOne)
    /\ Push(FreeOne)
    /\ copied' = Null
    /\ UNCHANGED handle

(* A function returns the value of its variable v: remove_domain() takes   *)
(* the variable away, return_fcall() marks what is left on the stack.      *)
Return(v) ==
    /\ Room /\ handle[v] # Null
    /\ Bind(v, Null)
    /\ proxy' = TryMove(proxy, handle[v])
    /\ Push(handle[v])
    /\ copied' = Null

(* A function returns a variable that outlives it, or a native function    *)
(* does: cni::operator() and return_fcall() try the same.                  *)
ReturnOuter(h) ==
    /\ Room /\ handle[h] # Null
    /\ proxy' = TryMove(Share(proxy, handle[h]), handle[h])
    /\ Push(handle[h])
    /\ copied' = Null
    /\ UNCHANGED handle

Discard ==
    /\ temps # <<>>
    /\ proxy' = Release(proxy, Operand)
    /\ Pop
    /\ copied' = Null
    /\ UNCHANGED handle
-----------------------------------------------------------------------------
CanCopy == proxy[Operand].level = Movable \/ Free # {}

(* var v = ...: parse_define_var() without constant and link.              *)
Define(v) ==
    /\ temps # <<>> /\ handle[v] = Null /\ CanCopy
    /\ LET c == Copy(proxy, Operand)
       IN proxy' = c[1] /\ Bind(v, c[2])
    /\ Pop
    /\ copied' = v

(* link v = ..., and a parameter, whose argument goes through lvalue().    *)
Link(v) ==
    /\ temps # <<>> /\ handle[v] = Null
    /\ LinksResults \/ proxy[Operand].level # Movable
    /\ Bind(v, Operand) /\ Pop
    /\ copied' = Null
    /\ UNCHANGED proxy

Argument(v) ==
    /\ temps # <<>> /\ handle[v] = Null
    /\ proxy' = Lvalue(proxy, Operand)
    /\ Bind(v, Operand) /\ Pop
    /\ copied' = Null

(* v = ...: parse_asi() copies the operand, then swaps the data of the     *)
(* copy and of the variable's proxy, unless either is protected.           *)
Swapped(px, p, q) ==
    [px EXCEPT ![p].kind = px[q].kind, ![p].self = px[q].self,
               ![q].kind = px[p].kind, ![q].self = px[p].self]

Assign(v) ==
    /\ temps # <<>> /\ handle[v] # Null /\ CanCopy
    /\ AssignsLambdas \/ "lambda" \notin {proxy[Operand].kind, proxy[handle[v]].kind}
    /\ LET c == Copy(proxy, Operand)
           p == handle[v]
           refused == c[1][p].level # Trivial
       IN proxy' = Release(IF refused THEN c[1] ELSE Swapped(c[1], p, c[2]), c[2])
    /\ Pop
    /\ copied' = Null
    /\ UNCHANGED handle

(* v := ...: parse_lnkasi() refuses only a protected target.               *)
AssignLink(v) ==
    /\ temps # <<>> /\ handle[v] # Null
    /\ LinksResults \/ proxy[Operand].level # Movable
    /\ IF proxy[handle[v]].level > Trivial
       THEN proxy' = Release(proxy, Operand) /\ UNCHANGED handle
       ELSE IF handle[v] = Operand
            THEN proxy' = Release(proxy, Operand) /\ UNCHANGED handle
            ELSE proxy' = Release(proxy, handle[v]) /\ Bind(v, Operand)
    /\ Pop
    /\ copied' = Null

(* context.unlink_var(): the variable gets a copy of its own.              *)
Unlink(v) ==
    /\ handle[v] # Null
    /\ proxy[handle[v]].level = Movable \/ Free # {}
    /\ LET c == Copy(proxy, handle[v])
       IN proxy' = c[1] /\ Bind(v, c[2])
    /\ copied' = v
    /\ UNCHANGED temps

(* The scope of v ends.                                                    *)
Unbind(v) ==
    /\ handle[v] # Null
    /\ proxy' = Release(proxy, handle[v])
    /\ Bind(v, Null)
    /\ copied' = Null
    /\ UNCHANGED temps

ValuesNext ==
    \/ \E h \in Holders : EvaluateName(h) \/ ReturnOuter(h)
    \/ EvaluateNew \/ Discard
    \/ \E v \in Vars : \/ Return(v) \/ Define(v) \/ Link(v) \/ Argument(v)
                       \/ Assign(v) \/ AssignLink(v) \/ Unlink(v) \/ Unbind(v)

ValuesSpec == ValuesInit /\ [][ValuesNext]_valuesVars
-----------------------------------------------------------------------------
(* Proxies, holders and temporaries have their types.                      *)
ValuesTypeOK ==
    /\ proxy \in [Proxies -> Proxy]
    /\ handle \in [Holders -> Proxies \cup {Null}]
    /\ temps \in Seq(Proxies)
    /\ copied \in Vars \cup {Null}

(* The reference count of a proxy is the number of handles on it, whatever *)
(* path of copies, links, moves and failed assignments led there: nothing  *)
(* is freed while it is held, nothing leaks.                               *)
Shares(p) == Cardinality({h \in Holders : handle[h] = p})
             + Cardinality({k \in DOMAIN temps : temps[k] = p})
CountsAreShares == \A p \in Proxies : proxy[p].rc = Shares(p)

(* Only a value that one handle holds is marked movable, and copy() may    *)
(* take it: "try_move" is for a result that is about to disappear.         *)
MovableIsAlone ==
    \A p \in Proxies : proxy[p].level = Movable => proxy[p].rc = 1

(* A copy is detached from its original storage (docs/SDK.md:179): after   *)
(* `var v = ...` or unlink_var() no other variable shares the proxy of v.  *)
CopyIsDetached ==
    copied # Null =>
        \A h \in Holders \ {copied} : handle[h] # handle[copied]

(* The `self` of a recursive lambda is the proxy that holds the lambda, so *)
(* the lambda stays callable when other copies of it are released.         *)
SelfIsTheLambda ==
    \A p \in Proxies :
        proxy[p].kind = "lambda" => proxy[p].self = p

(* Nothing changes the data of a constant while a token holds it.          *)
LiteralIsConstant ==
    proxy[handle[Literal]].level = Constant /\ proxy[handle[Lambda]].level = Protected

(* The shares of a value are counted, only a value without other holders   *)
(* is moved, and constants and lambdas stay what they are (cs_impl::any).  *)
ValuesInv ==
    /\ ValuesTypeOK
    /\ CountsAreShares
    /\ MovableIsAlone
    /\ SelfIsTheLambda
    /\ LiteralIsConstant
=============================================================================
