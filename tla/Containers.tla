---------------------------- MODULE Containers ------------------------------
(***************************************************************************)
(* Arrays, lists, hash sets and hash maps of a script (type_ext.cpp,       *)
(* impl/type_ext.hpp).  Their elements are variables like any other: a     *)
(* foreach names them, an index or a `link` refers to them, and assigning  *)
(* to such a name writes into the container.  What is put into a container *)
(* is therefore copied, and a copy of a container is detached from it:     *)
(* its elements are copied in turn.  Lists differ from arrays only in what *)
(* the standard library does for them.                                     *)
(***************************************************************************)
EXTENDS SequencesExt, FiniteSetsExt, Integers

CONSTANTS Cells,       \* the variables there is room for
          MaxNumber,   \* numbers are at most this
          MaxItems,    \* no array gets longer
          MaxCalls,    \* a script makes so many calls
          WritesKeys,  \* do scripts assign to elements of sets and to keys?
          GrowsBelow   \* are arrays extended by several elements below their start?

ASSUME ContainersAssumption ==
    /\ Cells = 1 .. Cardinality(Cells)
    /\ MaxNumber \in Nat /\ MaxItems \in Nat /\ MaxCalls \in Nat
    /\ WritesKeys \in BOOLEAN /\ GrowsBelow \in BOOLEAN

VARIABLES content,     \* what each cell holds
          bound,       \* the cells of the script's variables and of `e`, a
                       \* name that a foreach or a link has made
          calls        \* calls made so far
containersVars == <<content, bound, calls>>

NoCell == 0
Number(n) == [k |-> "number", n |-> n, items |-> <<>>, entries |-> {}]
ArrayOf(items) == [k |-> "array", n |-> 0, items |-> items, entries |-> {}]
HashOf(k, entries) == [k |-> k, n |-> 0, items |-> <<>>, entries |-> entries]

Inside(h, c) == (ToSet(h[c].items) \cup UNION {{en.key, en.val} : en \in h[c].entries}) \ {NoCell}
Held(h, names) ==
    LET reached[n \in 0 .. Cardinality(Cells)] ==
            IF n = 0 THEN {names[v] : v \in DOMAIN names} \ {NoCell}
            ELSE LET before == reached[n - 1] IN before \cup UNION {Inside(h, c) : c \in before}
    IN reached[Cardinality(Cells)]
-----------------------------------------------------------------------------
(* Making variables: `made` is the content made last, `at` its cell.       *)
Making == [content |-> content, used |-> Held(content, bound), at |-> NoCell,
           made |-> Number(0), full |-> FALSE]
PutNew(s, value) ==
    IF s.used = Cells THEN [s EXCEPT !.full = TRUE, !.at = 1]
    ELSE LET c == Min(Cells \ s.used)
         IN [s EXCEPT !.content[c] = value, !.used = @ \cup {c}, !.at = c]

HashNow(s, entries) == {[en EXCEPT !.hash = s.content[en.key].n] : en \in entries}

(* copy(): clone() and detach(), which copies the elements of an array or  *)
(* a list and the values of a map.  Keys stay shared: nobody should write  *)
(* to them.                                                                *)
RECURSIVE CopyCell(_, _)
DetachedShallow(s, v) == [s EXCEPT !.made = v] \* MUTANT: cs_impl::detach does nothing
Detached(s, v) ==
    CASE v.k = "array" ->
             FoldLeft(LAMBDA t, c : LET u == CopyCell(t, c)
                                    IN [u EXCEPT !.made = ArrayOf(Append(t.made.items, u.at))],
                      [s EXCEPT !.made = ArrayOf(<<>>)], v.items)
      [] v.k = "map" ->
             FoldSet(LAMBDA en, t : LET u == CopyCell(t, en.val)
                                        copy == [en EXCEPT !.val = u.at]
                                    IN [u EXCEPT !.made = HashOf("map", t.made.entries \cup {copy})],
                     [s EXCEPT !.made = HashOf("map", {})], HashNow(s, v.entries))
      [] v.k = "set" -> [s EXCEPT !.made = HashOf("set", HashNow(s, v.entries))]
      [] OTHER -> [s EXCEPT !.made = v]
CopyCell(s, c) ==
    IF s.full THEN s ELSE LET t == Detached(s, s.content[c]) IN PutNew(t, t.made)

(* An array of copies of the values in the cells.                          *)
CopyAll(s, cells) == Detached(s, ArrayOf(cells))

(* The script's variables afterwards; what nothing refers to is released.  *)
Settle(s, names) ==
    /\ ~s.full
    /\ LET kept == Held(s.content, names)
       IN content' = [c \in Cells |-> IF c \in kept THEN s.content[c] ELSE Number(0)]
    /\ bound' = names
    /\ calls' = calls + 1
    /\ \A c \in Cells : Len(content'[c].items) <= MaxItems
DeclareAs(x, s) == LET t == PutNew(s, s.made) IN Settle(t, [bound EXCEPT ![x] = t.at])
Refer(s, c) == Settle(s, [bound EXCEPT !["e"] = c])
ValueOf(x) == content[bound[x]]
IsA(x, k) == bound[x] # NoCell /\ ValueOf(x).k = k
Keys(h) == UNION {{en.key : en \in h[c].entries} : c \in DOMAIN h}
MayWrite(x) == bound[x] # NoCell /\ (WritesKeys \/ bound[x] \notin Keys(content))
-----------------------------------------------------------------------------
(* `x = n` and `x = y` write in place; `var x = y` makes a variable.       *)
SetNumber(x, n) == MayWrite(x) /\ Settle([Making EXCEPT !.content[bound[x]] = Number(n)], bound)
SetCopy(x, y) ==
    LET s == CopyCell(Making, bound[y])
    IN MayWrite(x) /\ bound[y] # NoCell /\ Settle([s EXCEPT !.content[bound[x]] = s.made], bound)
DeclareCopy(x, y) == bound[y] # NoCell /\ DeclareAs(x, Detached(Making, ValueOf(y)))

(* {y}, {y, y} and {...y}.                                                 *)
DeclareLiteral(x, cells) == NoCell \notin ToSet(cells) /\ DeclareAs(x, CopyAll(Making, cells))

(* push_back(), push_front(), insert(); pop_back(), pop_front(), erase(),  *)
(* with an error if there is none; clear() and reverse().                  *)
InsertItem(x, k, y) ==
    LET s == CopyCell(Making, bound[y])
    IN /\ IsA(x, "array") /\ bound[y] # NoCell /\ k \in 1 .. (Len(ValueOf(x).items) + 1)
       /\ Settle([s EXCEPT !.content[bound[x]].items = InsertAt(@, k, s.at)], bound)
EraseItem(x, k) ==
    /\ IsA(x, "array") /\ k \in DOMAIN ValueOf(x).items
    /\ Settle([Making EXCEPT !.content[bound[x]].items = RemoveAt(@, k)], bound)
ClearAll(x) ==
    Settle([Making EXCEPT !.content[bound[x]].items = <<>>, !.content[bound[x]].entries = {}], bound)
ReverseItems(x) ==
    /\ IsA(x, "array")
    /\ Settle([Making EXCEPT !.content[bound[x]].items = Reverse(@)], bound)

(* x[i]: the array grows to have that element, behind with a zero for each *)
(* element, in front with one zero for all.                                *)
Grow(s, c, i) ==
    LET size == Len(s.content[c].items)
        j == IF i < 0 THEN i + size ELSE i
        append(t, n) == LET u == PutNew(t, Number(0)) IN [u EXCEPT !.content[c].items = Append(@, u.at)]
        pad == PutNew(s, Number(0))
    IN IF j < 0
       THEN [pad EXCEPT !.content[c].items = [n \in 1 .. (-j) |-> pad.at] \o @]
       ELSE FoldLeft(append, s, [n \in 1 .. Max({0, j + 1 - size}) |-> n])
IndexArray(x, i) ==
    LET size == Len(ValueOf(x).items)
        s == Grow(Making, bound[x], i)
        j == Max({0, IF i < 0 THEN i + size ELSE i})
    IN /\ IsA(x, "array") /\ (GrowsBelow \/ i + size >= -1)
       /\ ~s.full /\ Refer(s, s.content[bound[x]].items[j + 1])

(* x + y, x * 2, to_list() and join of arrays: the result is detached.     *)
Concat(x, y) ==
    IsA(x, "array") /\ bound[y] # NoCell
    /\ DeclareAs(x, CopyAll(Making, ValueOf(x).items
                                  \o (IF IsA(y, "array") THEN ValueOf(y).items ELSE <<bound[y]>>)))
Repeat(x) == IsA(x, "array") /\ DeclareAs(x, CopyAll(Making, ValueOf(x).items \o ValueOf(x).items))
-----------------------------------------------------------------------------
(* find(): the entry is where the hash of its key was when it came in.     *)
Find(h, entries, n) == {en \in entries : en.hash = n /\ h[en.key].n = n}

Emplace(s, c, val) ==
    LET key == PutNew(s, s.content[c])
        entry == [key |-> key.at, hash |-> s.content[c].n, val |-> val]
    IN [key EXCEPT !.made = HashOf(@.k, @.entries \cup {entry})]

(* insert_or_assign(): an entry that exists is written in place.           *)
InsertOrAssign(s, c, v) ==
    LET found == Find(s.content, s.made.entries, s.content[c].n)
        copy == [CopyCell(s, v) EXCEPT !.made = s.made]
    IN IF found = {} THEN Emplace(copy, c, copy.at)
       ELSE [copy EXCEPT !.content[(CHOOSE en \in found : TRUE).val] = copy.content[copy.at]]
InsertKey(s, c) ==
    IF Find(s.content, s.made.entries, s.content[c].n) # {} THEN s ELSE Emplace(s, c, NoCell)

Store(x, s) == Settle([s EXCEPT !.content[bound[x]] = s.made], bound)
Opened(x) == [Making EXCEPT !.made = ValueOf(x)]

MapInsert(x, y, z) ==
    /\ IsA(x, "map") /\ IsA(y, "number") /\ bound[z] # NoCell
    /\ Store(x, InsertOrAssign(Opened(x), bound[y], bound[z]))
SetInsert(x, y) == IsA(x, "set") /\ IsA(y, "number") /\ Store(x, InsertKey(Opened(x), bound[y]))
EraseKey(x, y) ==
    /\ bound[x] # NoCell /\ ValueOf(x).k \in {"set", "map"} /\ IsA(y, "number")
    /\ Settle([Making EXCEPT !.content[bound[x]].entries = @ \ Find(content, @, ValueOf(y).n)], bound)

(* x[y]: a key that is new gets a zero.                                    *)
IndexMap(x, y) ==
    LET found == Find(content, ValueOf(x).entries, ValueOf(y).n)
        zero == PutNew(Opened(x), Number(0))
        s == Emplace(zero, bound[y], zero.at)
    IN /\ IsA(x, "map") /\ IsA(y, "number")
       /\ IF found # {} THEN Refer(Making, (CHOOSE en \in found : TRUE).val)
          ELSE ~s.full /\ Refer([s EXCEPT !.content[bound[x]] = s.made], zero.at)

(* to_hash_set(), enumerate(); keys() and values().                        *)
ToHashSet(x, y) ==
    /\ IsA(y, "array") /\ \A c \in ToSet(ValueOf(y).items) : content[c].k = "number"
    /\ DeclareAs(x, FoldLeft(InsertKey, [Making EXCEPT !.made = HashOf("set", {})], ValueOf(y).items))
Enumerate(x, y) ==
    LET items == ValueOf(y).items
        insert(s, i) == LET key == PutNew(s, Number(i - 1)) IN InsertOrAssign(key, key.at, items[i])
    IN IsA(y, "array") /\ DeclareAs(x, FoldLeft(insert, [Making EXCEPT !.made = HashOf("map", {})],
                                              [i \in DOMAIN items |-> i]))
ListKeys(x, y) ==
    /\ IsA(y, "map")
    /\ DeclareAs(x, CopyAll(Making, SetToSeq({en.key : en \in ValueOf(y).entries})))
ListValues(x, y) ==
    /\ IsA(y, "map")
    /\ DeclareAs(x, CopyAll(Making, SetToSeq({en.val : en \in ValueOf(y).entries})))

(* intersect(), merge(), subtract() share the elements of their operands.  *)
SetOperation(x, y, op) ==
    LET l == HashNow(Making, ValueOf(x).entries)
        r == ValueOf(y).entries
        InOther(en, es) == Find(content, es, content[en.key].n) # {}
        entries == CASE op = "intersect" -> {en \in l : InOther(en, r)}
                     [] op = "merge" -> l \cup {en \in HashNow(Making, r) : ~InOther(en, l)}
                     [] op = "subtract" -> {en \in l : ~InOther(en, HashNow(Making, r))}
    IN IsA(x, "set") /\ IsA(y, "set") /\ DeclareAs(x, [Making EXCEPT !.made = HashOf("set", entries)])
-----------------------------------------------------------------------------
ContainersInit ==
    /\ content = [c \in Cells |-> Number(0)]
    /\ bound = [x |-> 1, y |-> 2, e |-> NoCell]
    /\ calls = 0

(* foreach e in x, one round: `e` is the element; of a map, a pair of the  *)
(* key and the value.                                                      *)
Each(x) == \E c \in Inside(content, bound[x]) : Refer(Making, c)
EachDone == bound.e # NoCell /\ Refer(Making, NoCell)

ContainersNext ==
    /\ calls < MaxCalls
    /\ \/ \E n \in 0 .. MaxNumber : \/ SetNumber("e", n)
                                    \/ SetNumber("y", n)
       \/ \E x, y \in {"x", "y"} : x # y /\
           \/ SetCopy("e", y) \/ DeclareCopy(x, y)
           \/ \E cells \in {<<bound[y]>>, <<bound[y], bound[y]>>, ValueOf(y).items} : DeclareLiteral(x, cells)
           \/ ToHashSet(x, y) \/ Enumerate(x, y) \/ ListKeys(x, y) \/ ListValues(x, y)
       \/ \E y \in {"y", "e"} :
           \/ \E k \in {1, 2} : InsertItem("x", k, y)
           \/ Concat("x", y) \/ SetInsert("x", y) \/ EraseKey("x", y) \/ IndexMap("x", y)
           \/ \E z \in {"y", "e"} : MapInsert("x", y, z)
       \/ \E op \in {"intersect", "merge", "subtract"} : SetOperation("x", "y", op)
       \/ \E k \in {1, 2} : EraseItem("x", k)
       \/ \E i \in -3 .. 2 : IndexArray("x", i)
       \/ ClearAll("x") \/ ReverseItems("x") \/ Repeat("x")
       \/ Each("x") \/ EachDone

ContainersSpec == ContainersInit /\ [][ContainersNext]_containersVars
-----------------------------------------------------------------------------
(* Cells hold what they may.                                               *)
ContainersTypeOK ==
    /\ bound \in [{"x", "y", "e"} -> Cells \cup {NoCell}] /\ NoCell \notin {bound.x, bound.y}
    /\ \A c \in Cells : content[c].k \in {"number", "array", "set", "map"}
                        /\ Inside(content, c) \subseteq Held(content, bound)

(* A key is found under its value, and no two keys of a set or a map are   *)
(* equal, whichever variables, elements and results the script writes to.  *)
KeysAreFound ==
    \A c \in Cells : \A en \in content[c].entries :
        /\ content[en.key].k = "number" /\ en.hash = content[en.key].n
        /\ Find(content, content[c].entries, content[en.key].n) = {en}

(* Each element has its variable to itself: it is in one container, at one *)
(* place, and no variable, so that writing to it changes nothing else,     *)
(* however containers were copied, nested, joined and converted.           *)
PlacesOf(c) ==
    Cardinality({x \in {"x", "y"} : bound[x] = c})
    + Cardinality({<<b, k>> \in Cells \X (1 .. MaxItems) :
                       k \in DOMAIN content[b].items /\ content[b].items[k] = c})
    + Cardinality({<<b, en>> \in UNION {{b} \X content[b].entries : b \in Cells} : en.val = c})
ElementsAreDetached ==
    \A c \in Cells : PlacesOf(c) <= (IF c \in Keys(content) THEN 0 ELSE 1)

(* What is in a container is its own: it is found where it was put, and    *)
(* nothing written elsewhere changes it.                                   *)
ContainersInv ==
    /\ ContainersTypeOK
    /\ KeysAreFound
    /\ ElementsAreDetached
=============================================================================
