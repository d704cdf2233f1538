---------------------------- MODULE ThriftStruct ----------------------------
(***************************************************************************)
(* The generated readers and writers of structs.  A class is described by  *)
(* the Thrift type of each of its fields, by field id; an object is a      *)
(* function from the ids to the values.  On the wire a struct is the set   *)
(* of fields that were written, each with its id and its type: a reader    *)
(* skips a field it does not know, or knows with another type, and leaves  *)
(* its own field at the value it had.                                      *)
(***************************************************************************)
EXTENDS Integers, Sequences

ZeroOf == [T_STRING |-> "", T_I32 |-> 0, T_I64 |-> 0, T_LIST |-> <<>>, T_STRUCT |-> <<>>]

\* A default-constructed object.
New(class) == [i \in DOMAIN class |-> ZeroOf[class[i]]]

IsObject(class, v) == v = [i \in DOMAIN class |-> v[i]]

Wired(type, data) == [type |-> type, data |-> data]

\* write() of arguments and of plain structs: every field, set or not.
Write(class, object) == [i \in DOMAIN class |-> Wired(class[i], object[i])]

\* write() of a result: the fields that __isset names.
WriteSet(class, object, isset) == [i \in isset |-> Wired(class[i], object[i])]

\* What read() finds and sets __isset for.
Found(class, wire) ==
    {i \in DOMAIN class \cap DOMAIN wire : wire[i].type = class[i]}

\* read() into an object.
Read(class, object, wire) ==
    [i \in DOMAIN class |->
        IF i \in Found(class, wire) THEN wire[i].data ELSE object[i]]

-----------------------------------------------------------------------------
(* A response is a struct that may have a list of structs of class element   *)
(* in one field; element is empty for any other class.                       *)

Response(fields, element) == [fields |-> fields, element |-> element]

\* The "response" of a method that returns a status and no struct.
Bare == Response(<<>>, <<>>)

HasStructs(r, i) == r.element # <<>> /\ r.fields[i] = "T_LIST"

IsResponse(r, v) ==
    \/ r = Bare
    \/ /\ IsObject(r.fields, v)
       /\ \A i \in DOMAIN r.fields : HasStructs(r, i) =>
             /\ v[i] = [n \in DOMAIN v[i] |-> v[i][n]]
             /\ \A n \in DOMAIN v[i] : IsObject(r.element, v[i][n])

\* Mutant of WriteEach: only the first element is written.
WriteFirst(class, list) == [n \in DOMAIN list \cap {1} |-> Write(class, list[n])]

WriteEach(class, list) == [n \in DOMAIN list |-> Write(class, list[n])]

ReadEach(class, list) == [n \in DOMAIN list |-> Read(class, New(class), list[n])]

Encode(r, v) ==
    IF r = Bare THEN v
    ELSE Write(r.fields, [i \in DOMAIN r.fields |->
            IF HasStructs(r, i) THEN WriteEach(r.element, v[i]) ELSE v[i]])

Decode(r, data) ==
    IF r = Bare THEN data
    ELSE LET w == Read(r.fields, New(r.fields), data)
         IN  [i \in DOMAIN r.fields |->
                IF HasStructs(r, i) THEN ReadEach(r.element, w[i]) ELSE w[i]]

-----------------------------------------------------------------------------
(* A method as one side of a connection knows it. *)

Method(name, args, result, response) ==
    [name |-> name, args |-> args, result |-> result, response |-> response]

\* A result class has the field "success" with id 0 and no other.
Success(type) == [i \in {0} |-> type]

\* The methods of a service by name.
ByName(methods) == [n \in {m.name : m \in methods} |-> CHOOSE m \in methods : m.name = n]
=============================================================================
