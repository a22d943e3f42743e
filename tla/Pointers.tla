------------------------------- MODULE Pointers -------------------------------
(***************************************************************************)
(* fb::UniquePtr and fb::SharedPtr (include/fb/memory/).  A UniquePtr is a *)
(* variable or a member of an object that another one owns, as the nodes   *)
(* of a Queue own each other.  The constructors of SharedPtr share objects *)
(* with counters.  (Nobody calls its reset() but the destructor: it does   *)
(* not forget the counter, which would be counted down again.)             *)
(***************************************************************************)
EXTENDS Integers, FiniteSets

CONSTANTS Vars,      \* variables that are UniquePtrs
          Objects,   \* objects, each with a UniquePtr in it
          Shares,    \* variables that are SharedPtrs
          Null

VARIABLES owner,     \* [Vars \cup Objects -> what the UniquePtr owns]
          alive,     \* objects that new has made and delete has not taken
          counter,   \* [Shares -> the object whose counter it points to]
          first,     \* [Objects -> num shared ptrs]
          second,    \* [Objects -> num weak ptrs]
          counters,  \* the counters that are not deleted
          weak       \* what a WeakPtr points to

uniqueVars == <<owner>>
sharedVars == <<counter, first, second, counters, weak>>
vars == <<owner, alive, counter, first, second, counters, weak>>

Init ==
  /\ owner = [s \in Vars \cup Objects |-> Null]
  /\ alive = {}
  /\ counter = [s \in Shares |-> Null]
  /\ first = [o \in Objects |-> 0] /\ second = [o \in Objects |-> 0]
  /\ counters = {} /\ weak = Null

(* What is destroyed with an object: all that it owns                      *)
Owned(o) ==
  LET RECURSIVE below(_, _)
      below(p, seen) == IF p = Null \/ p \in seen THEN seen ELSE below(owner[p], seen \cup {p})
  IN below(o, {})

Reachable == UNION {Owned(owner[v]) : v \in Vars}

(* The UniquePtrs that the program can still name                          *)
Slots == Vars \cup Reachable

Destroyed(own, gone) == [s \in DOMAIN own |-> IF s \in gone THEN Null ELSE own[s]]

(* s = UniquePtr(new T): the temporary takes what s had, and deletes it.   *)
New(s, o) ==
  /\ s \in Slots /\ o \notin alive \cup counters
  /\ owner' = [Destroyed(owner, Owned(owner[s])) EXCEPT ![s] = o]
  /\ alive' = (alive \ Owned(owner[s])) \cup {o}
  /\ UNCHANGED sharedVars

(* s = std::move(t): they are swapped.                                     *)
MoveAssign(s, t) ==
  /\ s \in Slots /\ t \in Slots
  /\ owner' = [owner EXCEPT ![s] = owner[t], ![t] = owner[s]]
  /\ UNCHANGED <<alive, sharedVars>>

(* Mutant of MoveConstruct: the source keeps its pointer.                  *)
MoveConstructShared(v, t) ==
  /\ owner[v] = Null /\ t \in Slots /\ t # v
  /\ owner' = [owner EXCEPT ![v] = owner[t]]
  /\ UNCHANGED <<alive, sharedVars>>

(* A new variable from what t releases                                     *)
MoveConstruct(v, t) ==
  /\ owner[v] = Null /\ t \in Slots /\ t # v
  /\ owner' = [owner EXCEPT ![v] = owner[t], ![t] = Null]
  /\ UNCHANGED <<alive, sharedVars>>

(* The assignment from a pointer to a derived class deletes what s has and *)
(* then takes what t has: not for a t that is deleted with it.             *)
ConvertAssign(s, t) ==
  /\ s \in Slots /\ t \in Slots \ (Owned(owner[s]) \cup {s})
  /\ owner' = [Destroyed(owner, Owned(owner[s])) EXCEPT ![s] = owner[t], ![t] = Null]
  /\ alive' = alive \ Owned(owner[s])
  /\ UNCHANGED sharedVars

(* reset, and the end of a variable                                        *)
Reset(s) ==
  /\ s \in Slots
  /\ owner' = [Destroyed(owner, Owned(owner[s])) EXCEPT ![s] = Null]
  /\ alive' = alive \ Owned(owner[s])
  /\ UNCHANGED sharedVars

-----------------------------------------------------------------------------
(* SharedPtr(obj), MakeShared                                              *)
Share(s, o) ==
  /\ counter[s] = Null /\ o \notin alive \cup counters
  /\ counter' = [counter EXCEPT ![s] = o]
  /\ first' = [first EXCEPT ![o] = 1] /\ second' = [second EXCEPT ![o] = 0]
  /\ counters' = counters \cup {o} /\ alive' = alive \cup {o}
  /\ UNCHANGED <<owner, weak>>

CopyShare(s, t) ==
  /\ counter[s] = Null /\ counter[t] # Null
  /\ counter' = [counter EXCEPT ![s] = counter[t]]
  /\ first' = [first EXCEPT ![counter[t]] = @ + 1]
  /\ UNCHANGED <<owner, alive, second, counters, weak>>

MoveShare(s, t) ==
  /\ counter[s] = Null /\ counter[t] # Null
  /\ counter' = [counter EXCEPT ![s] = counter[t], ![t] = Null]
  /\ UNCHANGED <<owner, alive, first, second, counters, weak>>

(* The destructor; a counter with weak pointers is never deleted.          *)
EndShare(s) ==
  LET o == counter[s] IN
  /\ o # Null
  /\ counter' = [counter EXCEPT ![s] = Null]
  /\ first' = [first EXCEPT ![o] = @ - 1]
  /\ alive' = IF first[o] = 1 THEN alive \ {o} ELSE alive
  /\ counters' = IF first[o] = 1 /\ second[o] = 0 THEN counters \ {o} ELSE counters
  /\ UNCHANGED <<owner, second, weak>>

(* weak = s: the weak pointer it replaces is not counted down.             *)
Watch(s) ==
  /\ counter[s] # Null /\ second[counter[s]] < 2
  /\ weak' = counter[s]
  /\ second' = [second EXCEPT ![counter[s]] = @ + 1]
  /\ UNCHANGED <<owner, alive, counter, first, counters>>

Expired == weak = Null \/ first[weak] = 0

(* Locked as its callers do, unless it has expired                         *)
Lock(s) ==
  /\ counter[s] = Null /\ ~Expired
  /\ counter' = [counter EXCEPT ![s] = weak]
  /\ first' = [first EXCEPT ![weak] = @ + 1]
  /\ UNCHANGED <<owner, alive, second, counters, weak>>

Next ==
  \/ \E s \in Vars \cup Objects :
       \/ Reset(s)
       \/ \E o \in Objects : New(s, o)
       \/ \E t \in Vars \cup Objects : MoveAssign(s, t) \/ ConvertAssign(s, t)
  \/ \E v \in Vars, t \in Vars \cup Objects : MoveConstruct(v, t)
  \/ \E s \in Shares :
       \/ EndShare(s) \/ Watch(s) \/ Lock(s)
       \/ \E o \in Objects : Share(s, o)
       \/ \E t \in Shares : CopyShare(s, t) \/ MoveShare(s, t)

Spec == Init /\ [][Next]_vars

-----------------------------------------------------------------------------
Owners(o) ==
  {s \in Vars \cup Objects : owner[s] = o} \cup {s \in Shares : counter[s] = o}

(* An object lives as long as a pointer to it does, whoever is swapped,    *)
(* moved, copied or destroyed; only SharedPtrs are two at an object, and   *)
(* its counter has their number.  No pointer, of the weak ones either,     *)
(* reads a counter that is deleted.                                        *)
OwnersExact ==
  /\ alive = {o \in Objects : Owners(o) # {}}
  /\ \A o \in alive : Owners(o) \subseteq Shares \/ Cardinality(Owners(o)) = 1
  /\ \A o \in counters : first[o] = Cardinality(Owners(o))
  /\ \A s \in Shares : counter[s] # Null => counter[s] \in counters
  /\ weak # Null => weak \in counters

(* What nobody can reach any more owns itself, alone or with others: that  *)
(* is the only leak there is.                                              *)
LeaksAreCycles ==
  \A o \in alive : (Owners(o) \cap Shares = {} /\ o \notin Reachable) => o \in Owned(owner[o])

=============================================================================
