------------------------------- MODULE Layouts -------------------------------
(***************************************************************************)
(* Named layouts over flat memory: controls (controls.py) and shooting     *)
(* variables (system_olss/variables.py), the arrays their callers hold and *)
(* the views callers take of them.                                         *)
(*                                                                         *)
(* An array is a sequence of addresses in its logical (row-major) order,   *)
(* so a view of an array shares addresses with it, a copy has fresh ones,  *)
(* and a transposed array has its addresses out of order.  A number is a   *)
(* pair of its real and imaginary part; the real part of one that is not   *)
(* finite is None.  Of the declarations that must agree, units and roles   *)
(* are left out beside scales, as are names and metadata.                  *)
(***************************************************************************)
EXTENDS Integers, Sequences, FiniteSets, SequencesExt

CONSTANTS
    None,
    ControlLayouts, ShootingLayouts,    \* the layouts declared
    Given,              \* the arrays callers start with
    Pokes,              \* the numbers callers write through arrays
    Levels,             \* the constant values of channels, as mappings of the keys
    MaxArrays, MaxObjects, MaxWrites

VARIABLES
    memory,             \* the number at each address
    arrays,             \* what callers hold
    objects,            \* the controls and variables, with the value each should have
    poked,              \* the memory written behind the back of the objects on it
    writes              \* their number

vars == <<memory, arrays, objects, poked, writes>>

---------------------------------------------------------------------------
(* Layouts.  A control layout has a block of control_dim numbers per key.  *)

Layout(kind, names, shapes, dtype, dt, scales) ==
    [kind |-> kind, names |-> names, shapes |-> shapes, dtype |-> dtype, dt |-> dt, scales |-> scales]

\* scales, given by key, are kept in the order of the keys.
ControlSpec(d) ==
    Layout("controls", d.keys, [k \in ToSet(d.keys) |-> <<d.control_dim>>], d.dtype, d.dt,
           [i \in DOMAIN d.keys |-> IF d.scales = None THEN 1 ELSE d.scales[d.keys[i]]])

ShootingSpec(d) == Layout("variables", d.names, d.shapes, "float", None, d.scales)

Entries(shape) == FoldLeft(LAMBDA n, d : n * d, 1, shape)
Dims(spec) == [i \in DOMAIN spec.names |-> Entries(spec.shapes[spec.names[i]])]
Size(spec) == FoldLeft(LAMBDA n, d : n + d, 0, Dims(spec))
Matrix(spec) == <<Len(spec.names), Dims(spec)[1]>>

offsets(spec, name) ==
    LET i == CHOOSE j \in DOMAIN spec.names : spec.names[j] = name
        start == FoldLeft(LAMBDA n, d : n + d, 0, SubSeq(Dims(spec), 1, i - 1)) IN
    <<start, start + Dims(spec)[i]>>

\* The part of a flat sequence that is the named block, and all of them by name.
Block(spec, flat, name) == SubSeq(flat, offsets(spec, name)[1] + 1, offsets(spec, name)[2])
Unpack(spec, flat) == [n \in ToSet(spec.names) |-> Block(spec, flat, n)]
Pack(spec, blocks) == FlattenSeq([i \in DOMAIN spec.names |-> blocks[spec.names[i]]])

ValidLayout(spec) ==
    /\ spec.names # <<>> /\ Cardinality(ToSet(spec.names)) = Len(spec.names)
    /\ \A i \in DOMAIN spec.names : Dims(spec)[i] >= 1 /\ spec.scales[i] > 0
    /\ spec.dt # None => spec.dt > 0
Specs == {s \in {ControlSpec(d) : d \in ControlLayouts} \cup {ShootingSpec(d) : d \in ShootingLayouts} : ValidLayout(s)}

SameLayout(a, b) == a = b

---------------------------------------------------------------------------
(* Memory *)

Cast(numbers, dtype) == [i \in DOMAIN numbers |-> IF dtype = "float" THEN <<numbers[i][1], 0>> ELSE numbers[i]]
Finite(numbers) == \A i \in DOMAIN numbers : numbers[i][1] # None
Read(at) == [i \in DOMAIN at |-> memory[at[i]]]
Fresh(numbers) == [i \in DOMAIN numbers |-> Len(memory) + i]
Here == Len(memory) + 1

Array(at, shape, dtype, writable, tie) ==
    [at |-> at, shape |-> shape, dtype |-> dtype, writable |-> writable, tie |-> tie]

Object(spec, at, writable, tie, value) ==
    [spec |-> spec, at |-> at, writable |-> writable, tie |-> tie, value |-> value]

Add(a, b) == [i \in DOMAIN a |-> IF None \in {a[i][1], b[i][1]} THEN <<None, 0>> ELSE <<a[i][1] + b[i][1], a[i][2] + b[i][2]>>]
Negated(a) == [i \in DOMAIN a |-> IF a[i][1] = None THEN a[i] ELSE <<-a[i][1], -a[i][2]>>]

Caller == ToSet(arrays)
Made == ToSet(objects)
Of(kind) == {s \in Specs : s.kind = kind}

Init ==
    /\ memory = FlattenSeq([i \in DOMAIN Given |-> Given[i].numbers])
    /\ arrays = [i \in DOMAIN Given |->
          LET base == FoldLeft(LAMBDA n, g : n + Len(g.numbers), 0, SubSeq(Given, 1, i - 1)) IN
          Array([j \in DOMAIN Given[i].order |-> base + Given[i].order[j]],
                Given[i].shape, Given[i].dtype, TRUE, base + 1)]
    /\ objects = <<>> /\ poked = {} /\ writes = 0

\* An object on memory of its own; variables lock theirs.  Everything made is
\* checked to be finite, or the constructor raises.
Owned(spec, numbers, value) ==
    /\ Finite(numbers)
    /\ memory' = memory \o numbers
    /\ objects' = Append(objects, Object(spec, Fresh(numbers), spec.kind = "controls", Here, value))
    /\ UNCHANGED <<arrays, poked, writes>>

Taken(at, shape, dtype, writable, tie) ==
    /\ arrays' = Append(arrays, Array(at, shape, dtype, writable, tie))
    /\ UNCHANGED <<memory, objects, poked, writes>>
TakenCopy(numbers, shape, dtype) ==
    /\ memory' = memory \o numbers
    /\ arrays' = Append(arrays, Array(Fresh(numbers), shape, dtype, TRUE, Here))
    /\ UNCHANGED <<objects, poked, writes>>

---------------------------------------------------------------------------
(* Making objects *)

SharesEqual(a, spec, copy) == a.dtype = spec.dtype
\* Without a copy the controls use the array they are given, if its type fits.
Shares(a, spec, copy) == a.dtype = spec.dtype /\ ~copy

FromArray ==
    \E a \in Caller, spec \in Of("controls"), copy \in BOOLEAN :
        LET numbers == Cast(Read(a.at), spec.dtype) IN
        /\ a.shape \in {Matrix(spec), <<Size(spec)>>}
        /\ Finite(numbers)
        /\ memory' = IF Shares(a, spec, copy) THEN memory ELSE memory \o numbers
        /\ objects' = Append(objects,
              Object(spec, IF Shares(a, spec, copy) THEN a.at ELSE Fresh(numbers),
                     Shares(a, spec, copy) => a.writable, IF copy THEN Here ELSE a.tie, Unpack(spec, numbers)))
        /\ UNCHANGED <<arrays, poked, writes>>

Constant ==
    \E spec \in Of("controls") : \E value \in {l \in Levels : DOMAIN l = ToSet(spec.names)} :
        LET blocks == [k \in ToSet(spec.names) |-> [i \in 1..Entries(spec.shapes[k]) |-> value[k]]] IN
        Owned(spec, Pack(spec, blocks), blocks)

\* Variables are made of any array of the right size, and never share it.
VariablesFromArray ==
    \E a \in Caller, spec \in Of("variables") :
        LET numbers == Cast(Read(a.at), spec.dtype) IN
        /\ Entries(a.shape) = Size(spec)
        /\ Owned(spec, numbers, Unpack(spec, numbers))

\* From the channels of other controls by name, in whatever order; a channel
\* called "matrix" may have them read as a serialized object, and refused.
FromChannels ==
    \E o \in Made, spec \in Of("controls") :
        LET blocks == [k \in ToSet(spec.names) |-> Cast(Block(o.spec, Read(o.at), k), spec.dtype)] IN
        /\ o.spec.kind = "controls" /\ ToSet(o.spec.names) = ToSet(spec.names)
        /\ \A k \in ToSet(spec.names) : o.spec.shapes[k] = spec.shapes[k]
        /\ ~("matrix" \in ToSet(spec.names) /\ ToSet(spec.names) \subseteq {"name", "spec", "matrix", "meta"})
        /\ Owned(spec, Pack(spec, blocks), blocks)

\* From the blocks of other variables; a scalar may come as one entry.  Blocks
\* with one called "values" are read as a serialized object that has no layout.
FromBlocks ==
    \E o \in Made, spec \in Of("variables") :
        LET given == ToSet(o.spec.names)
            blocks == [n \in given |-> Block(o.spec, Read(o.at), n)] IN
        /\ o.spec.kind = "variables"
        /\ \/ /\ "values" \notin given
              /\ given = ToSet(spec.names)
              /\ \A n \in given : \/ o.spec.shapes[n] = spec.shapes[n]
                                  \/ spec.shapes[n] = <<>> /\ o.spec.shapes[n] = <<1>>
              /\ Owned(spec, Pack(spec, blocks), blocks)
           \/ /\ "values" \in given /\ "spec" \notin given
              /\ Len(blocks["values"]) = Size(spec)
              /\ Owned(spec, blocks["values"], Unpack(spec, blocks["values"]))

\* to_dict and from_dict, whose layout must agree with the declared one.
Restored ==
    \E o \in Made, spec \in Specs :
        /\ SameLayout(spec, o.spec)
        /\ Owned(spec, Read(o.at), Unpack(spec, Read(o.at)))

Copy == \E o \in Made : Owned(o.spec, Read(o.at), Unpack(o.spec, Read(o.at)))

\* Operands agree in keys and dimension only; the result has the layout of the
\* left one, the controls themselves, and drops what its type cannot hold.
Arithmetic ==
    \E o \in Made, reflected \in BOOLEAN :
    \E other \in {Read(p.at) : p \in {p \in Made : p.spec.kind = "controls" /\ p.spec.names = o.spec.names
                                                   /\ p.spec.shapes = o.spec.shapes}}
                 \cup {Cast(Read(a.at), o.spec.dtype) : a \in {a \in Caller : a.shape = Matrix(o.spec)}} :
        LET u == Read(o.at)
            numbers == Cast(IF reflected THEN Add(other, Negated(u)) ELSE Add(u, other), o.spec.dtype) IN
        /\ o.spec.kind = "controls"
        /\ Owned(o.spec, numbers, Unpack(o.spec, numbers))

---------------------------------------------------------------------------
(* Views *)

\* A channel is a view that writes through; a block of variables is read-only.
Channel ==
    \E o \in Made, copy \in BOOLEAN : \E k \in ToSet(o.spec.names) :
        LET at == Block(o.spec, o.at, k) shape == o.spec.shapes[k] IN
        /\ shape # <<>>
        /\ IF copy THEN TakenCopy(Read(at), shape, o.spec.dtype)
           ELSE Taken(at, shape, o.spec.dtype, o.writable, o.tie)

AsMatrix ==
    \E o \in Made, copy \in BOOLEAN :
        /\ o.spec.kind = "controls"
        /\ IF copy THEN TakenCopy(Read(o.at), Matrix(o.spec), o.spec.dtype)
           ELSE Taken(o.at, Matrix(o.spec), o.spec.dtype, FALSE, o.tie)

\* Numbers out of order cannot be seen flat: the view is one of a copy.
Flatten ==
    \E o \in Made, copy \in BOOLEAN :
        LET flat == \A i \in 1..(Len(o.at) - 1) : o.at[i + 1] = o.at[i] + 1 IN
        IF copy THEN TakenCopy(Read(o.at), <<Size(o.spec)>>, o.spec.dtype)
        ELSE IF flat THEN Taken(o.at, <<Size(o.spec)>>, o.spec.dtype, FALSE, o.tie)
        ELSE /\ memory' = memory \o Read(o.at)
             /\ arrays' = Append(arrays, Array(Fresh(o.at), <<Size(o.spec)>>, o.spec.dtype, FALSE, Here))
             /\ UNCHANGED <<objects, poked, writes>>

---------------------------------------------------------------------------
(* Writing *)

Overwritten(at, numbers) ==
    [x \in DOMAIN memory |-> IF x \in ToSet(at) THEN numbers[CHOOSE i \in DOMAIN at : at[i] = x] ELSE memory[x]]

\* Other objects declared to share the memory change too.
SetChannel ==
    \E x \in DOMAIN objects, a \in Caller :
        LET o == objects[x] numbers == Cast(Read(a.at), o.spec.dtype) IN
        \E k \in ToSet(o.spec.names) :
            /\ o.spec.kind = "controls" /\ o.writable
            /\ a.shape = o.spec.shapes[k] /\ Finite(numbers)
            /\ memory' = Overwritten(Block(o.spec, o.at, k), numbers)
            /\ objects' = [objects EXCEPT ![x].value[k] = numbers]
            /\ poked' = IF \E y \in DOMAIN objects \ {x} : objects[y].tie = o.tie THEN poked \cup {o.tie} ELSE poked
            /\ UNCHANGED arrays

Write ==
    \E a \in Caller, number \in Pokes : \E i \in DOMAIN a.at :
        /\ a.writable
        /\ memory' = Overwritten(<<a.at[i]>>, Cast(<<number>>, a.dtype))
        /\ poked' = poked \cup {a.tie}
        /\ UNCHANGED <<arrays, objects>>

Next ==
    \/ /\ Len(objects) < MaxObjects
       /\ \/ FromArray \/ Constant \/ VariablesFromArray \/ FromChannels \/ FromBlocks
          \/ Restored \/ Copy \/ Arithmetic
    \/ Len(arrays) < MaxArrays /\ (Channel \/ AsMatrix \/ Flatten)
    \/ writes < MaxWrites /\ writes' = writes + 1 /\ (SetChannel \/ Write)

Spec == Init /\ [][Next]_vars

---------------------------------------------------------------------------
\* An object holds, block by block, the finite numbers it was made of or set to,
\* until the caller writes through an array that was given to it without a copy
\* or through a channel taken from it; variables hold them whatever the caller
\* does (controls.py:40, 314-350; variables.py:161-163).
ObjectsKeepTheirValues ==
    \A o \in Made :
        o.spec.kind = "variables" \/ o.tie \notin poked =>
            Finite(Read(o.at)) /\ Unpack(o.spec, Read(o.at)) = o.value
=============================================================================
