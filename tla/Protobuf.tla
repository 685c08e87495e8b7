---------------------------- MODULE Protobuf ----------------------------
(***************************************************************************)
(* The message objects that protoc generates (message.pb.h, message.pb.cc) *)
(* and the bytes they are written to.  A class is a sequence of fields;    *)
(* the functions protoc writes out once per class and per field are one    *)
(* operator here, over the class's fields, and the modules MiniMessages    *)
(* and MetaMessages give the classes of the two projects.                  *)
(*                                                                         *)
(* An object is the has-bits and the values of its fields.  A field of     *)
(* kind "message" holds a pointer: Null, a cell of the heap, or a local    *)
(* variable of the function that runs.  A thread's state is [mem, obj]:    *)
(* the messages alive in its memory, and one container object.  Strings    *)
(* are sequences of bytes.  Unknown fields are skipped and not kept:       *)
(* writer and reader are always built from the same message.proto.         *)
(***************************************************************************)
EXTENDS Integers, Sequences, FiniteSets, SequencesExt, FiniteSetsExt, TLC

Null == << >>
Local(name) == <<"local", name>>
\* What undefined behaviour leaves: a `delete` of what `new` did not return.
Corrupted == <<"corrupted", "">>

Field(name, num, kind, required) ==
    [name |-> name, num |-> num, kind |-> kind, required |-> required, of |-> << >>]
Required(name, num, kind) == Field(name, num, kind, TRUE)
Optional(name, num, kind) == Field(name, num, kind, FALSE)
SubMessage(name, num, class) == [Optional(name, num, "message") EXCEPT !.of = class]
Enum(name, num, names) == [Required(name, num, "enum") EXCEPT !.of = names]

Names(class) == {class[i].name : i \in DOMAIN class}
FieldOf(class, name) == class[CHOOSE i \in DOMAIN class : class[i].name = name]

Initially(f) ==
    CASE f.kind \in {"string", "message"} -> << >>
      [] f.kind \in {"int32", "enum"} -> 0
      [] f.kind = "bool" -> FALSE

\* A constructed object: no has-bit, every field at its default.
New(class) ==
    [has |-> {}, val |-> [n \in Names(class) |-> Initially(FieldOf(class, n))]]

Set(m, name, v) == [has |-> m.has \cup {name}, val |-> [m.val EXCEPT ![name] = v]]
ClearField(class, m, name) ==
    [has |-> m.has \ {name}, val |-> [m.val EXCEPT ![name] = Initially(FieldOf(class, name))]]

-----------------------------------------------------------------------------
(* Bytes *)

Varint[n \in Nat] == IF n < 128 THEN <<n>> ELSE <<128 + (n % 128)>> \o Varint[n \div 128]

\* A negative int32 is sign-extended to 64 bits: ten bytes.
Int32Bytes(n) ==
    IF n >= 0 THEN Varint[n]
    ELSE [i \in 1..10 |-> IF i = 10 THEN 1 ELSE IF i > 5 THEN 255
                          ELSE 128 + ((n \div 128^(i - 1)) % 128)]

Int32Value(bytes) ==
    LET low == IF Len(bytes) = 10 THEN 9 ELSE Len(bytes)
        from[i \in 1..(low + 1)] ==
            IF i > low THEN IF Len(bytes) = 10 THEN -1 ELSE 0
            ELSE from[i + 1] * 128 + (bytes[i] % 128)
    IN  from[1]

\* How many bytes the varint at the start of the input has, 0 when it does not end.
VarintLen(in) ==
    LET ends == {i \in DOMAIN in : in[i] < 128} IN IF ends = {} THEN 0 ELSE Min(ends)

Int32Size(n) ==
    IF n < 0 THEN 10 ELSE 1 + Cardinality({i \in 1..4 : n >= 128^i})

WireType(f) == IF f.kind \in {"string", "message"} THEN 2 ELSE 0

-----------------------------------------------------------------------------
(* Writing and reading *)

RECURSIVE ByteSize(_, _, _), SerializeToArray(_, _, _), MergePartial(_, _, _)

Present(class, m) == {i \in DOMAIN class : class[i].name \in m.has}

\* The size of an object; for a sub-message it becomes the cached size.
ByteSize(class, m, mem) ==
    LET size(f) == LET v == m.val[f.name] IN
            CASE f.kind = "string" -> Int32Size(Len(v)) + Len(v)
              [] f.kind \in {"int32", "enum"} -> Int32Size(v)
              [] f.kind = "bool" -> 1
              [] f.kind = "message" ->
                    LET s == ByteSize(f.of, mem[v], mem) IN Int32Size(s) + s
    IN  MapThenSumSet(LAMBDA i : 1 + size(class[i]), Present(class, m))

\* The fields that are present, in the order of the class.
SerializeToArray(class, m, mem) ==
    LET payload(f) == LET v == m.val[f.name] IN
            CASE f.kind = "string" -> Varint[Len(v)] \o v
              [] f.kind \in {"int32", "enum"} -> Int32Bytes(v)
              [] f.kind = "bool" -> IF v THEN <<1>> ELSE <<0>>
              [] f.kind = "message" -> Varint[ByteSize(f.of, mem[v], mem)]
                                       \o SerializeToArray(f.of, mem[v], mem)
    IN  FlattenSeq([i \in DOMAIN class |->
            IF i \in Present(class, m)
            THEN <<class[i].num * 8 + WireType(class[i])>> \o payload(class[i]) ELSE << >>])

\* delete p.
Delete(mem, p) ==
    IF p = Null THEN mem
    ELSE IF p[1] = "heap" /\ p \in DOMAIN mem THEN Restrict(mem, DOMAIN mem \ {p})
    ELSE Corrupted :> p @@ mem

\* mutable_x: the sub-message is allocated when there is none.
Mutable(s, f) ==
    LET fresh == <<"heap", Min({n \in 1..(Cardinality(DOMAIN s.mem) + 1) :
                                  <<"heap", n>> \notin DOMAIN s.mem})>>
        p == IF s.obj.val[f.name] = Null THEN fresh ELSE s.obj.val[f.name]
    IN  [mem |-> IF p \in DOMAIN s.mem THEN s.mem ELSE p :> New(f.of) @@ s.mem,
         obj |-> Set(s.obj, f.name, p)]

\* set_allocated_x and release_x: the pointer that was there is deleted, or left to the caller.
SetAllocated(s, name, p) ==
    [mem |-> Delete(s.mem, s.obj.val[name]), obj |-> Set(s.obj, name, p)]
Release(class, s, name) == [s EXCEPT !.obj = ClearField(class, @, name)]

\* x(): the default instance stands in for a sub-message that is not there.
Get(class, s, name) ==
    LET p == s.obj.val[name] IN IF p = Null THEN New(FieldOf(class, name).of) ELSE s.mem[p]

\* Mutant: sub-messages keep their fields.
ClearShallow(class, s) ==
    [s EXCEPT !.obj = [has |-> {},
                       val |-> [n \in Names(class) |->
                                   IF FieldOf(class, n).kind = "message" THEN s.obj.val[n]
                                   ELSE Initially(FieldOf(class, n))]]]

\* Sub-messages that are present are emptied and stay allocated.
Clear(class, s) ==
    LET kept == {i \in DOMAIN class : class[i].kind = "message" /\ s.obj.val[class[i].name] # Null}
        emptied == {i \in kept : class[i].name \in s.obj.has}
    IN  [mem |-> [p \in DOMAIN s.mem |->
                     IF \E i \in emptied : s.obj.val[class[i].name] = p
                     THEN New(class[CHOOSE i \in emptied : s.obj.val[class[i].name] = p].of)
                     ELSE s.mem[p]],
         obj |-> [has |-> {},
                  val |-> [n \in Names(class) |->
                              IF \E i \in kept : class[i].name = n THEN s.obj.val[n]
                              ELSE New(class).val[n]]]]

\* The destructor deletes every sub-message.
Destroy(class, s) ==
    FoldLeft(LAMBDA mem, f : IF f.kind = "message" THEN Delete(mem, s.obj.val[f.name]) ELSE mem,
             s.mem, class)

\* MergePartialFromCodedStream: one field after the other, in the order of the
\* input, whatever its order; it stops at the end, at a zero tag and at input
\* that does not parse, keeping what it has read.
MergePartial(class, s, in) ==
    LET rest == Tail(in)
        n == VarintLen(rest)
        number == Int32Value(SubSeq(rest, 1, n))
        wire == in[1] % 8
        size == IF wire = 2 THEN n + number ELSE n
        body == SubSeq(rest, n + 1, size)
        known == \E i \in DOMAIN class : class[i].num = in[1] \div 8 /\ WireType(class[i]) = wire
        field == class[CHOOSE i \in DOMAIN class : class[i].num = in[1] \div 8]
        read ==
            CASE ~known -> s
              [] known /\ field.kind = "string" -> [s EXCEPT !.obj = Set(@, field.name, body)]
              [] known /\ field.kind = "int32" -> [s EXCEPT !.obj = Set(@, field.name, number)]
              [] known /\ field.kind = "bool" -> [s EXCEPT !.obj = Set(@, field.name, number # 0)]
              [] known /\ field.kind = "enum" ->
                    IF number + 1 \in DOMAIN field.of
                    THEN [s EXCEPT !.obj = Set(@, field.name, number)] ELSE s
              [] known /\ field.kind = "message" ->
                    LET t == Mutable(s, field)
                        p == t.obj.val[field.name]
                        sub == MergePartial(field.of, [mem |-> t.mem, obj |-> t.mem[p]], body)
                    IN  [t EXCEPT !.mem[p] = sub.obj]
    IN  IF in = << >> \/ in[1] = 0 \/ in[1] % 8 \notin {0, 2} THEN s
        ELSE IF n = 0 \/ size > Len(rest) THEN s
        ELSE MergePartial(class, read, SubSeq(rest, size + 1, Len(rest)))

ParseFromArray(class, s, in) == MergePartial(class, Clear(class, s), in)
=============================================================================
