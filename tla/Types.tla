------------------------------- MODULE Types -------------------------------
(***************************************************************************)
(* Value types and the type section of a module: ValType and RefHeap of    *)
(* crates/wasmrt-core/src/types.rs, the type space of module.rs and the    *)
(* subtyping the validator decides, validate.rs.                           *)
(*                                                                         *)
(* A value type is a record: a number has its name for base, a reference   *)
(* the head of its heap type, and the index of its type when it is         *)
(* concrete (0 when it is not; types count from 1).  Unknown is the entry  *)
(* of the validator's stack in unreachable code.                           *)
(***************************************************************************)
EXTENDS Integers, Sequences, SequencesExt, FiniteSets, FiniteSetsExt

Heaps == {"func", "nofunc", "extern", "noextern", "exn", "noexn",
          "any", "eq", "i31", "struct", "array", "none"}
Numbers == {"i32", "i64", "f32", "f64", "v128"}

Num(base) == [base |-> base, null |-> FALSE, index |-> 0, exact |-> FALSE]
Ref(null, heap) == [base |-> heap, null |-> null, index |-> 0, exact |-> FALSE]
TypeRef(null, kind, t) == [base |-> kind, null |-> null, index |-> t, exact |-> FALSE]
ExactRef(null, kind, t) == [base |-> kind, null |-> null, index |-> t, exact |-> TRUE]
Unknown == Num("unknown")

I32 == Num("i32")
I64 == Num("i64")

IsRef(v) == v.base \in Heaps
IsConcrete(v) == v.index # 0
IsNonNullRef(v) == IsRef(v) /\ ~v.null
NonNull(v) == [v EXCEPT !.null = FALSE]
Nullable(v) == [v EXCEPT !.null = IsRef(v)]

Top(heap) ==
  CASE heap \in {"func", "nofunc"}     -> "func"
    [] heap \in {"extern", "noextern"} -> "extern"
    [] heap \in {"exn", "noexn"}       -> "exn"
    [] OTHER                           -> "any"

\* The heads strictly above a head in its hierarchy.
HeapsAbove(heap) ==
  CASE heap = "none"                        -> {"i31", "struct", "array", "eq", "any"}
    [] heap \in {"i31", "struct", "array"}  -> {"eq", "any"}
    [] heap = "eq"                          -> {"any"}
    [] heap \in {"nofunc", "noextern", "noexn"} -> {Top(heap)}
    [] OTHER                                -> {}

HeapSubtype(a, b) == a = b \/ b \in HeapsAbove(a)

-----------------------------------------------------------------------------
(* The type section.  A type is [kind, final, super, describes,            *)
(* descriptor, params, results, fields]; the fields of an array are the    *)
(* one it has, and 0 stands for no type.                                   *)

Field(type, pack, mutable) == [type |-> type, pack |-> pack, mutable |-> mutable]
Unpacked(f) == IF f.pack = "no" THEN f.type ELSE I32

\* A reference to a type as it counts in the key of its recursion group: by
\* position within the group, and by canonical index outside it.
KeyRef(canon, g, t) ==
  IF t = 0 THEN <<"no", 0>>
  ELSE IF t \in g.start..(g.start + g.len - 1) THEN <<"inside", t - g.start>>
  ELSE IF t \in DOMAIN canon THEN <<"outside", canon[t]>>
  ELSE <<"forward", t>>

\* Mutant of KeyType: a reference is keyed without its exactness.
KeyTypeWithoutExactness(canon, g, v) ==
  [v EXCEPT !.index = KeyRef(canon, g, v.index), !.exact = FALSE]

KeyType(canon, g, v) == [v EXCEPT !.index = KeyRef(canon, g, v.index)]

GroupKey(types, canon, g) ==
  [i \in 1..g.len |->
     LET t == types[g.start + i - 1]
     IN  [t EXCEPT !.super = KeyRef(canon, g, @), !.describes = KeyRef(canon, g, @),
                   !.descriptor = KeyRef(canon, g, @),
                   !.params = [k \in DOMAIN @ |-> KeyType(canon, g, @[k])],
                   !.results = [k \in DOMAIN @ |-> KeyType(canon, g, @[k])],
                   !.fields = [k \in DOMAIN @ |-> [@[k] EXCEPT !.type = KeyType(canon, g, @)]]]]

\* The lowest index that names the same type, for every type: each group takes
\* the indices of the first group with its key.
Canonicalize(types, groups) ==
  LET Filled[n \in 0..Len(groups)] ==
        IF n = 0 THEN [canon |-> <<>>, seen |-> <<>>]
        ELSE LET before == Filled[n - 1]
                 g == groups[n]
                 key == GroupKey(types, before.canon, g)
                 seen == Append(before.seen, key)
                 first == groups[Min({k \in 1..n : seen[k] = key})].start
             IN  [canon |-> before.canon \o [i \in 1..g.len |-> first + i - 1], seen |-> seen]
  IN  Filled[Len(groups)].canon

\* A module as decoding leaves it, with its canonical indices.
Decoded(m) == [m EXCEPT !.canon = Canonicalize(m.types, m.groups)]

TypesEqual(m, a, b) == m.canon[a] = m.canon[b]

\* A declared supertype has a lower index, so the walk ends.
IsSubtype(m, a, b) ==
  LET Below[t \in 0..Len(m.types)] == t # 0 /\ (TypesEqual(m, t, b) \/ Below[m.types[t].super])
  IN  Below[a]

Subtype(m, sub, sup) ==
  \/ sub = sup
  \/ /\ IsRef(sub) /\ IsRef(sup)
     /\ IsNonNullRef(sup) => IsNonNullRef(sub)
     /\ CASE IsConcrete(sub) /\ IsConcrete(sup) ->
               IF sup.exact THEN sub.exact /\ TypesEqual(m, sub.index, sup.index)
               ELSE IsSubtype(m, sub.index, sup.index)
          [] IsConcrete(sup) /\ ~IsConcrete(sub) -> sub.base = (IF sup.base = "func" THEN "nofunc" ELSE "none")
          [] OTHER -> HeapSubtype(sub.base, sup.base)

Subtypes(m, subs, sups) ==
  Len(subs) = Len(sups) /\ \A k \in DOMAIN subs : Subtype(m, subs[k], sups[k])

\* The same type, whatever its spelling; a mutable field compares its types
\* this way, without their exactness.
SameButExact(m, a, b) ==
  \/ a = b
  \/ IsConcrete(a) /\ IsConcrete(b) /\ a.null = b.null /\ TypesEqual(m, a.index, b.index)

\* Mutant of FieldMatches: a mutable field is covariant.
FieldMatchesCovariantly(m, sub, sup) ==
  /\ sub.mutable = sup.mutable /\ sub.pack = sup.pack
  /\ sub.pack = "no" => Subtype(m, sub.type, sup.type)

FieldMatches(m, sub, sup) ==
  /\ sub.mutable = sup.mutable /\ sub.pack = sup.pack
  /\ sub.pack = "no" => IF sup.mutable THEN SameButExact(m, sub.type, sup.type)
                                       ELSE Subtype(m, sub.type, sup.type)

CompTypeMatches(m, sub, sup) ==
  /\ sub.kind = sup.kind
  /\ Subtypes(m, sup.params, sub.params) /\ Subtypes(m, sub.results, sup.results)
  /\ Len(sub.fields) >= Len(sup.fields)
  /\ \A k \in DOMAIN sup.fields : FieldMatches(m, sub.fields[k], sup.fields[k])

\* A subtype keeps the descriptor relations of its supertype, in their direction.
LinksMatch(m, own, parent) ==
  /\ parent.descriptor # 0 => own.descriptor # 0 /\ IsSubtype(m, own.descriptor, parent.descriptor)
  /\ parent.describes # 0 => own.describes # 0 /\ IsSubtype(m, own.describes, parent.describes)
  /\ own.describes # 0 => parent.describes # 0

DeclaredSubtyping(m) ==
  \A t \in {k \in DOMAIN m.types : m.types[k].super # 0} :
    LET own == m.types[t]
        parent == m.types[own.super]
    IN  ~parent.final /\ CompTypeMatches(m, own, parent) /\ LinksMatch(m, own, parent)

SameGroup(m, a, b) ==
  \E k \in DOMAIN m.groups :
    {a, b} \subseteq m.groups[k].start..(m.groups[k].start + m.groups[k].len - 1)

\* Links join two structs of one group, both ways, and a descriptor comes after
\* what it describes.
DescriptorLinks(m) ==
  \A t \in DOMAIN m.types :
    LET d == m.types[t].descriptor
        x == m.types[t].describes
        Joined(a, b) == SameGroup(m, a, b) /\ m.types[a].kind = "struct" /\ m.types[b].kind = "struct"
    IN  /\ d # 0 => Joined(t, d) /\ m.types[d].describes = t
        /\ x # 0 => x < t /\ Joined(t, x) /\ m.types[x].descriptor = t

\* A type names the types of its own group and of the groups before it.
TypesInScope(m) ==
  \A k \in DOMAIN m.groups :
    LET end == m.groups[k].start + m.groups[k].len
    IN  \A t \in m.groups[k].start..(end - 1) :
          LET type == m.types[t]
          IN  \A v \in ToSet(type.params) \cup ToSet(type.results) \cup {Unpacked(f) : f \in ToSet(type.fields)} :
                v.index < end

TypeSection(m) == TypesInScope(m) /\ DescriptorLinks(m) /\ DeclaredSubtyping(m)
=============================================================================
