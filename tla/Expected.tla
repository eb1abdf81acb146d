------------------------------ MODULE Expected ------------------------------
(***************************************************************************)
(* astl::expected: a value or an error, in a union, with a flag (or a      *)
(* pointer that is null) that says which.  The class has six               *)
(* specialisations, for references, for void values and for void errors,   *)
(* each with constructors, assignments and emplace of its own; the kind of *)
(* an object is the specialisation it is of.                               *)
(***************************************************************************)
EXTENDS Integers

CONSTANTS
  Objects,     \* the objects of the program
  ExValues,    \* values, errors, and the variables references refer to
  Throwing     \* the calls in which a constructor of the value may throw

ASSUME ExAssumption ==
  /\ ExValues \subseteq Nat \ {0}
  /\ Throwing \subseteq {"emplace T, E", "emplace T, void", "assign T, void"}

VARIABLES
  ex,          \* the objects: the flag and the members of the union
  exRef        \* history: what each holds, as in std::expected

exVars == <<ex, exRef>>

Kinds == {"T, E", "T&, E", "void, E", "T, void", "T&, void", "void, void"}
ValueKinds == {"T, E", "T, void"}                 \* the value is an object of its own
RefKinds == {"T&, E", "T&, void"}                 \* the value is a pointer
ErrorKinds == {"T, E", "T&, E", "void, E"}        \* the error is an object

NoObject == 0
Moved == -1
Dead == [kind |-> "none", has |-> FALSE, val |-> NoObject, err |-> NoObject, sound |-> TRUE]
Hold(kind, has, val, err) ==
  [kind |-> kind, has |-> has, val |-> val, err |-> err, sound |-> TRUE]
ExInit == ex = [o \in Objects |-> Dead] /\ exRef = [o \in Objects |-> <<>>]

-----------------------------------------------------------------------------
(* Members of the union: "val" and "err".                                    *)

New(x, f, v) == [x EXCEPT !.sound = @ /\ x[f] = NoObject, ![f] = v]
Delete(x, f) == [x EXCEPT !.sound = @ /\ x[f] # NoObject, ![f] = NoObject]
Set(x, f, v) == [x EXCEPT !.sound = @ /\ x[f] # NoObject, ![f] = v]
Flag(x, b) == [x EXCEPT !.has = b]

\* A constructor of the value that throws leaves no object.
NewOrThrow(x, v, throws) == IF throws THEN x ELSE New(x, "val", v)

\* What is left in the object another one was moved from: it keeps its flag.
MovedAway(y) ==
  [y EXCEPT !.val = IF y.kind \in ValueKinds /\ y.has THEN Moved ELSE @,
            !.err = IF y.kind \in ErrorKinds /\ ~y.has THEN Moved ELSE @]

-----------------------------------------------------------------------------
(* expected<T, E>                                                            *)

ConstructTE(has, v) == IF has THEN Hold("T, E", TRUE, v, NoObject)
                              ELSE Hold("T, E", FALSE, NoObject, v)

MoveConstructTE(y) ==
  LET x == Flag([Dead EXCEPT !.kind = "T, E"], y.has)
  IN IF y.has THEN New(x, "val", y.val) ELSE New(x, "err", y.err)

AssignTE(x, y) ==
  CASE x.has /\ y.has   -> Set(x, "val", y.val)
    [] x.has /\ ~y.has  -> New(Delete(Flag(x, FALSE), "val"), "err", y.err)
    [] ~x.has /\ y.has  -> New(Delete(Flag(x, TRUE), "err"), "val", y.val)
    [] ~x.has /\ ~y.has -> Set(x, "err", y.err)

DestroyTE(x) == IF x.has THEN Delete(x, "val") ELSE Delete(x, "err")

EmplaceTE(x, v, throws) ==
  LET n == NewOrThrow(DestroyTE(x), v, throws) IN IF throws THEN n ELSE Flag(n, TRUE)

(* expected<T&, E>: the flag is that the pointer is not null.                *)

Point(x, v) == [x EXCEPT !.val = v, !.has = v # NoObject]

ConstructRefE(has, v) == IF has THEN Hold("T&, E", TRUE, v, NoObject)
                                ELSE Hold("T&, E", FALSE, NoObject, v)

MoveConstructRefE(y) ==
  LET x == Point([Dead EXCEPT !.kind = "T&, E"], y.val)
  IN IF x.has THEN x ELSE New(x, "err", y.err)

AssignRefE(x, y) ==
  CASE x.has /\ y.has   -> Point(x, y.val)
    [] x.has /\ ~y.has  -> New(Point(x, NoObject), "err", y.err)
    [] ~x.has /\ y.has  -> Delete(Point(x, y.val), "err")
    [] ~x.has /\ ~y.has -> Set(x, "err", y.err)

DestroyRefE(x) == IF x.has THEN Point(x, NoObject) ELSE Delete(x, "err")
EmplaceRefE(x, v) == Point(IF x.has THEN x ELSE Delete(x, "err"), v)

(* expected<void, E>                                                         *)

ConstructVoidE(has, v) == IF has THEN Hold("void, E", TRUE, NoObject, NoObject)
                                 ELSE Hold("void, E", FALSE, NoObject, v)

MoveConstructVoidE(y) ==
  LET x == Flag([Dead EXCEPT !.kind = "void, E"], y.has)
  IN IF y.has THEN x ELSE New(x, "err", y.err)

\* Faulty variant of AssignVoidE: the flag of an error that is replaced stays.
AssignVoidEStale(x, y) ==
  CASE x.has /\ ~y.has  -> New(x, "err", y.err)
    [] ~x.has /\ y.has  -> Delete(Flag(x, TRUE), "err")
    [] ~x.has /\ ~y.has -> Set(x, "err", y.err)
    [] OTHER -> x

AssignVoidE(x, y) ==
  CASE x.has /\ ~y.has  -> New(Flag(x, FALSE), "err", y.err)
    [] ~x.has /\ y.has  -> Delete(Flag(x, TRUE), "err")
    [] ~x.has /\ ~y.has -> Set(x, "err", y.err)
    [] OTHER -> x

DestroyVoidE(x) == IF x.has THEN x ELSE Delete(x, "err")
EmplaceVoidE(x) == Flag(IF x.has THEN x ELSE Delete(x, "err"), TRUE)

(* expected<T, void>, an optional                                            *)

ConstructT(has, v) == Hold("T, void", has, IF has THEN v ELSE NoObject, NoObject)

\* The copy and the move constructor.
TransferConstructT(y) ==
  LET x == Flag([Dead EXCEPT !.kind = "T, void"], y.has)
  IN IF y.has THEN New(x, "val", y.val) ELSE x

\* The copy and the move assignment; the copy may throw.
AssignT(x, y, throws) ==
  CASE x.has /\ y.has  -> Set(x, "val", y.val)
    [] x.has /\ ~y.has -> Delete(Flag(x, FALSE), "val")
    [] ~x.has /\ y.has -> NewOrThrow(Flag(x, TRUE), y.val, throws)
    [] OTHER -> x

DestroyT(x) == IF x.has THEN Delete(x, "val") ELSE x
ClearT(x) == IF x.has THEN Flag(Delete(x, "val"), FALSE) ELSE x
EmplaceT(x, v, throws) ==
  LET n == NewOrThrow(ClearT(x), v, throws) IN IF throws THEN n ELSE Flag(n, TRUE)

(* expected<T&, void> and expected<void, void>: everything is a plain copy.  *)

ConstructRef(has, v) == Hold("T&, void", has, IF has THEN v ELSE NoObject, NoObject)
ClearRef(x) == Point(x, NoObject)
EmplaceRef(x, v) == Point(x, v)
ConstructVoid(has) == Hold("void, void", has, NoObject, NoObject)
ClearVoid(x) == Flag(x, FALSE)
EmplaceVoid(x) == Flag(x, TRUE)

-----------------------------------------------------------------------------
(* The member functions, by kind.                                            *)

Constructed(kind, has, v) ==
  CASE kind = "T, E" -> ConstructTE(has, v)       [] kind = "T&, E" -> ConstructRefE(has, v)
    [] kind = "void, E" -> ConstructVoidE(has, v) [] kind = "T, void" -> ConstructT(has, v)
    [] kind = "T&, void" -> ConstructRef(has, v)  [] kind = "void, void" -> ConstructVoid(has)

MoveConstructed(y) ==
  CASE y.kind = "T, E" -> MoveConstructTE(y)
    [] y.kind = "T&, E" -> MoveConstructRefE(y)
    [] y.kind = "void, E" -> MoveConstructVoidE(y)
    [] y.kind = "T, void" -> TransferConstructT(y)
    [] OTHER -> y

MoveAssigned(x, y) ==
  CASE y.kind = "T, E" -> AssignTE(x, y)
    [] y.kind = "T&, E" -> AssignRefE(x, y)
    [] y.kind = "void, E" -> AssignVoidE(x, y)
    [] y.kind = "T, void" -> AssignT(x, y, FALSE)
    [] OTHER -> [x EXCEPT !.has = y.has, !.val = y.val]

Destroyed(x) ==
  CASE x.kind = "T, E" -> DestroyTE(x)
    [] x.kind = "T&, E" -> DestroyRefE(x)
    [] x.kind = "void, E" -> DestroyVoidE(x)
    [] x.kind = "T, void" -> DestroyT(x)
    [] OTHER -> [x EXCEPT !.val = NoObject]

Emplaced(x, v, throws) ==
  CASE x.kind = "T, E" -> EmplaceTE(x, v, throws)
    [] x.kind = "T&, E" -> EmplaceRefE(x, v)
    [] x.kind = "void, E" -> EmplaceVoidE(x)
    [] x.kind = "T, void" -> EmplaceT(x, v, throws)
    [] x.kind = "T&, void" -> EmplaceRef(x, v)
    [] x.kind = "void, void" -> EmplaceVoid(x)

ExCleared(x) ==
  CASE x.kind = "T, void" -> ClearT(x)
    [] x.kind = "T&, void" -> ClearRef(x)
    [] x.kind = "void, void" -> ClearVoid(x)

\* What std::expected holds: the value or the error, where they are not void.
Value(kind, v) == <<"value", IF kind \in ValueKinds \cup RefKinds THEN v ELSE NoObject>>
Error(kind, v) == <<"error", IF kind \in ErrorKinds THEN v ELSE NoObject>>

\* References and void have nothing that could be moved from.
LeftBehind(kind, held) ==
  IF \/ held[1] = "value" /\ kind \in ValueKinds
     \/ held[1] = "error" /\ kind \in ErrorKinds
  THEN <<held[1], Moved>> ELSE held

ExUpdate(o, x, held) == ex' = [ex EXCEPT ![o] = x] /\ exRef' = [exRef EXCEPT ![o] = held]
IsThere(o) == ex[o].kind # "none"
OfOneKind(o, p) == o # p /\ IsThere(o) /\ ex[o].kind = ex[p].kind

ExConstruct(o) ==
  /\ ~IsThere(o)
  /\ \E kind \in Kinds, has \in BOOLEAN, v \in ExValues :
       /\ has \/ kind \in ErrorKinds \/ v = CHOOSE w \in ExValues : TRUE
       /\ ExUpdate(o, Constructed(kind, has, v), IF has THEN Value(kind, v) ELSE Error(kind, v))

ExMoveConstruct(o, p) ==
  /\ ~IsThere(o) /\ IsThere(p)
  /\ ex' = [ex EXCEPT ![o] = MoveConstructed(ex[p]), ![p] = MovedAway(ex[p])]
  /\ exRef' = [exRef EXCEPT ![o] = exRef[p], ![p] = LeftBehind(ex[p].kind, exRef[p])]

ExMoveAssign(o, p) ==
  /\ OfOneKind(o, p)
  /\ ex' = [ex EXCEPT ![o] = MoveAssigned(ex[o], ex[p]), ![p] = MovedAway(ex[p])]
  /\ exRef' = [exRef EXCEPT ![o] = exRef[p], ![p] = LeftBehind(ex[p].kind, exRef[p])]

\* Only what has no error member can be copied.
ExCopyConstruct(o, p) ==
  /\ ~IsThere(o) /\ IsThere(p) /\ ex[p].kind \notin ErrorKinds
  /\ ExUpdate(o, MoveConstructed(ex[p]), exRef[p])

\* A copy that throws on the way from empty to a value should leave it empty.
ExCopyAssign(o, p) ==
  /\ OfOneKind(o, p) /\ ex[p].kind \notin ErrorKinds
  /\ \E throws \in {FALSE, "assign T, void" \in Throwing /\ ex[o].kind = "T, void"} :
       IF throws /\ ~ex[o].has /\ ex[p].has
       THEN ExUpdate(o, AssignT(ex[o], ex[p], TRUE), exRef[o])
       ELSE ExUpdate(o, MoveAssigned(ex[o], ex[p]), exRef[p])

ExEmplace(o) ==
  /\ IsThere(o)
  /\ \E v \in ExValues,
        throws \in {FALSE, \/ "emplace T, E" \in Throwing /\ ex[o].kind = "T, E"
                           \/ "emplace T, void" \in Throwing /\ ex[o].kind = "T, void"} :
       ExUpdate(o, Emplaced(ex[o], v, throws),
                IF throws THEN Error(ex[o].kind, NoObject) ELSE Value(ex[o].kind, v))

ExClear(o) ==
  /\ IsThere(o) /\ ex[o].kind \notin ErrorKinds
  /\ ExUpdate(o, ExCleared(ex[o]), Error(ex[o].kind, NoObject))

\* The end of an object: what its destructor leaves alive is lost.
ExDestruct(o) ==
  /\ IsThere(o)
  /\ LET x == Destroyed(ex[o])
     IN ExUpdate(o, [Dead EXCEPT !.sound = x.sound /\ {x.val, x.err} = {NoObject}], <<>>)

ExNext ==
  \/ \E o \in Objects : ExConstruct(o) \/ ExEmplace(o) \/ ExClear(o) \/ ExDestruct(o)
  \/ \E o, p \in Objects : \/ ExMoveConstruct(o, p) \/ ExMoveAssign(o, p)
                           \/ ExCopyConstruct(o, p) \/ ExCopyAssign(o, p)

ExSpec == ExInit /\ [][ExNext]_exVars

-----------------------------------------------------------------------------
\* value, operator*, value_or and error: what the flag lets the program see.
Held(x) == IF x.has THEN Value(x.kind, x.val) ELSE Error(x.kind, x.err)

\* "It holds either a value or an error" (expected.hpp, line 73): in each of the
\* six specialisations, after any sequence of constructions, moves, emplacements
\* and exceptions, exactly the member that the flag names is an object, nothing
\* is destroyed that is not there, and what is held is what was put in last.
HoldsOne ==
  \A o \in Objects :
    LET x == ex[o] IN
      /\ x.sound
      /\ x.kind \in Kinds =>
           /\ (x.val # NoObject) = (x.has /\ x.kind \in ValueKinds \cup RefKinds)
           /\ (x.err # NoObject) = (~x.has /\ x.kind \in ErrorKinds)
           /\ Held(x) = exRef[o]
=============================================================================
