---- MODULE DamlTypes ----
(* Reading a contract or an exercise with the definitions of stored packages:
   DamlValueDecoderService turns a value into labelled data, PackageRegistryService
   draws the tree of its type.  A package keeps its types in a table and every type
   names its arguments, and a definition its fields, by a place in that table
   (internedTypes): a place means nothing without its package.

   A type is [op, pkg, name, args], args being places; a value is [sum, con, parts].
   Int64, Text and ContractId stand for all builtins without parts, GenMap for TextMap.
   Names are kept as they are (internedStrings and internedDottedNames are left out),
   and so is how a value is laid out in bytes. *)
EXTENDS Naturals, Sequences, Functions, TLC

CONSTANTS
  Programs,      \* what the packages define: a set of functions from packages
  MaxDepth       \* how deep the lists and optionals of a value may nest

VARIABLES
  program,       \* the packages the participant runs
  stored,        \* the packages whose bytes the explorer has
  missing,       \* those the registry remembers as missing_package
  refreshed,     \* a request has refreshed the package of its template
  asked,         \* the values of the last request, and their types
  states         \* its answer: one NodeDecodeState with its type tree for each
vars == <<program, stored, missing, refreshed, asked, states>>

NoArgs == <<>>
Type(op, pkg, name, args) == [op |-> op, pkg |-> pkg, name |-> name, args |-> args]
NoType == Type("unknown", "", "", NoArgs)

\* rawPackage.internedTypes[n]
Interned(p, n) ==
  IF n \in DOMAIN program[p].types THEN program[p].types[n] ELSE NoType

\* resolveRawReferencedPackageId: "self", or an imported package.
Target(p, t) == IF t.pkg = "self" THEN p ELSE t.pkg

Definition(con, params, labels, fields) ==
  [con |-> con, params |-> params, labels |-> labels, fields |-> fields]
NoDefinition == Definition("none", <<>>, <<>>, <<>>)

\* loadPackageSync: what was once missing stays so, whatever is stored since.
Readable == stored \ missing

\* dataTypesById or typeSynonymsById of a package.
Lookup(p, name) ==
  IF p \in Readable /\ name \in DOMAIN program[p].data
  THEN program[p].data[name] ELSE NoDefinition

------------------------------------------------------------------------------
(* Decoding *)

Decoded(kind, con, parts, labels) ==
  [kind |-> kind, con |-> con, parts |-> parts, labels |-> labels]
Null == Decoded("null", "", <<>>, <<>>)
Unit == Decoded("unit", "", <<>>, <<>>)
OrUnit(d) == IF d = Null THEN Unit ELSE d
\* An optional or a variant shows nothing where its value is null.
OrNothing(d) == IF d = Null THEN <<>> ELSE <<d>>

RECURSIVE Untyped(_)
Untyped(v) ==
  LET Parts == [i \in 1..Len(v.parts) |-> OrUnit(Untyped(v.parts[i]))] IN
  Decoded(v.sum, v.con, Parts,
          IF v.sum = "record"
          THEN [i \in 1..Len(v.parts) |-> "field" \o ToString(i)] ELSE <<>>)

\* resolveTypeReference of the decoder.
Resolved(t, env) == IF t.op = "var" /\ t.name \in DOMAIN env THEN env[t.name] ELSE t

\* Mutant of Bind: the arguments are left as they are written.
BindUnresolved(p, params, args, env) ==
  [a \in {params[i] : i \in 1..Len(params)} |->
     Interned(p, args[CHOOSE i \in 1..Len(params) : params[i] = a])]
\* nextBindings: arguments are read in the table of the package that applies the type.
Bind(p, params, args, env) ==
  [a \in {params[i] : i \in 1..Len(params)} |->
     Resolved(Interned(p, args[CHOOSE i \in 1..Len(params) : params[i] = a]), env)]
Unbound == [a \in {} |-> NoType]

\* What a value of a builtin type is sent as.
SumOf(builtin) ==
  CASE builtin = "Int64" -> "int64"
    [] builtin = "Text" -> "text"
    [] builtin = "ContractId" -> "contract_id"
    [] builtin = "List" -> "list"
    [] builtin = "Optional" -> "optional"
    [] builtin = "GenMap" -> "map"

RECURSIVE Typed(_, _, _, _)

\* decodeBuiltinValue; the entries of a map are its keys and values in turn.
Builtin(v, p, t, env) ==
  LET Item(i, k) == Typed(v.parts[i], p, Interned(p, t.args[k]), env)
      Items(k(_)) == [i \in 1..Len(v.parts) |-> OrUnit(Item(i, k(i)))] IN
  CASE v.sum # SumOf(t.name) -> Null
    [] v.sum = "list" -> Decoded("list", "", Items(LAMBDA i : 1), <<>>)
    [] v.sum = "map" -> Decoded("map", "", Items(LAMBDA i : 2 - (i % 2)), <<>>)
    [] v.sum = "optional" ->
         Decoded("optional", "", IF v.parts = <<>> THEN <<>> ELSE OrNothing(Item(1, 1)), <<>>)
    [] OTHER -> Untyped(v)

\* decodeDataTypeValue
DataValue(v, p, d, env) ==
  LET Field(i, f) == Typed(v.parts[i], p, Interned(p, d.fields[f]), env) IN
  CASE d.con = "record" /\ v.sum = "record" ->
         IF Len(d.fields) # Len(v.parts) THEN Null
         ELSE Decoded("record", "", [i \in 1..Len(v.parts) |-> OrUnit(Field(i, i))], d.labels)
    [] d.con = "variant" /\ v.sum = "variant" ->
         IF \A f \in 1..Len(d.labels) : d.labels[f] # v.con THEN Null
         ELSE LET f == CHOOSE f \in 1..Len(d.labels) : d.labels[f] = v.con
              IN Decoded("variant", v.con, OrNothing(Field(1, f)), <<>>)
    [] OTHER -> Untyped(v)

\* decodeTypedValue; a synonym is not followed.
Typed(v, p, t, env) ==
  LET r == Resolved(t, env) IN
  CASE r.op = "builtin" -> Builtin(v, p, r, env)
    [] r.op = "con" ->
         LET d == Lookup(Target(p, r), r.name) IN
         IF d = NoDefinition THEN Null
         ELSE DataValue(v, Target(p, r), d, Bind(p, d.params, r.args, env))
    [] OTHER -> Untyped(v)

------------------------------------------------------------------------------
(* The tree of a type *)

TreeNode(kind, note, parts, labels) ==
  [kind |-> kind, note |-> note, parts |-> parts, labels |-> labels]

\* extendTypeBindings: parameters stand for places, and the bindings outside stay.
Extended(params, args, env) ==
  [a \in DOMAIN env \cup {params[i] : i \in 1..Len(params)} |->
     IF \E i \in 1..Len(params) : params[i] = a
     THEN args[CHOOSE i \in 1..Len(params) : params[i] = a] ELSE env[a]]
RECURSIVE TypeNode(_, _, _, _, _)

FieldNodes(p, d, within, env, expanding) ==
  [i \in 1..Len(d.fields) |-> TypeNode(p, Interned(p, d.fields[i]), within, env, expanding)]

\* buildInterfaceNode: its view, requirements, methods and choices are its fields.
InterfaceNode(p, d, within, env, expanding) ==
  TreeNode("interface", "", FieldNodes(p, d, within, env, expanding), d.labels)

\* buildDataTypeNode
DataNode(p, name, d, within, env, expanding) ==
  LET here == within \cup {<<p, name>>} IN
  IF d.con = "interface" THEN InterfaceNode(p, d, here, env, expanding)
  ELSE TreeNode(d.con, "", FieldNodes(p, d, here, env, expanding), d.labels)

\* resolveTypeReference of the registry, and what is said of a reference not followed.
Key(p, t) == <<Target(p, t), t.name>>
Note(key, within) ==
  CASE key[1] \in Readable /\ key \in within -> "recursive_reference"
    [] ~(key[1] \in Readable /\ key \in within) /\ Lookup(key[1], key[2]) = NoDefinition ->
         "missing_definition"
    [] OTHER -> ""

ArgumentNodes(p, t, within, env, expanding) ==
  [i \in 1..Len(t.args) |-> TypeNode(p, Interned(p, t.args[i]), within, env, expanding)]

\* buildTypeReferenceNode: the nodes of the arguments, then the definition.
ReferenceNode(p, t, within, env, expanding) ==
  LET key == Key(p, t)
      d == Lookup(key[1], key[2])
      arguments == ArgumentNodes(p, t, within, env, expanding) IN
  TreeNode("con", Note(key, within),
       IF Note(key, within) # "" THEN arguments
       ELSE Append(arguments, DataNode(key[1], key[2], d, within,
                                       Extended(d.params, t.args, env), expanding)), key)

\* buildTypeSynonymNode: a synonym is a single type, and marks itself on the way.
SynonymNode(p, t, within, env, expanding) ==
  LET key == Key(p, t)
      d == Lookup(key[1], key[2])
      arguments == ArgumentNodes(p, t, within, env, expanding) IN
  TreeNode("syn", Note(key, within),
       IF Note(key, within) # "" THEN arguments
       ELSE Append(arguments, TypeNode(key[1], Interned(key[1], d.fields[1]), within \cup {key},
                                       Extended(d.params, t.args, env), expanding)), key)

\* buildTypeNode: a variable is read where it is met, in the bindings of that place.
TypeNode(p, t, within, env, expanding) ==
  CASE t.op = "builtin" ->
         TreeNode(t.name, "", ArgumentNodes(p, t, within, env, expanding), <<>>)
    [] t.op = "var" ->
         IF t.name \in DOMAIN env \ expanding
         THEN TypeNode(p, Interned(p, env[t.name]), within, env, expanding \cup {t.name})
         ELSE TreeNode("type_var", "", <<>>, <<>>)
    [] t.op = "con" -> ReferenceNode(p, t, within, env, expanding)
    [] t.op = "syn" -> SynonymNode(p, t, within, env, expanding)
    [] OTHER -> TreeNode("unknown", "", <<>>, <<>>)

\* The packages that were looked up to draw a tree; the decoder looks up no others.
RECURSIVE Sought(_)
Sought(node) ==
  UNION {Sought(node.parts[i]) : i \in 1..Len(node.parts)}
    \cup (IF node.kind \in {"con", "syn"} THEN {node.labels[1]} ELSE {})

------------------------------------------------------------------------------
(* The values of a type: what a participant stores.  Here, and only here, a type
   variable stands for a type together with the package and bindings it was written in.
   Synonyms have no parameters here. *)

Scoped(p, t, env) == [pkg |-> p, type |-> t, env |-> env]
Defined(s) == program[Target(s.pkg, s.type)].data[s.type.name]
RECURSIVE Meant(_)
Meant(s) ==
  CASE s.type.op = "var" -> Meant(s.env[s.type.name])
    [] s.type.op = "syn" ->
         LET q == Target(s.pkg, s.type) IN
         Meant(Scoped(q, program[q].types[Defined(s).fields[1]], Unbound))
    [] OTHER -> s
Argument(s, k) == Meant(Scoped(s.pkg, program[s.pkg].types[s.type.args[k]], s.env))
Field(s, i) ==
  LET q == Target(s.pkg, s.type)
      d == Defined(s) IN
  Meant(Scoped(q, program[q].types[d.fields[i]],
               [a \in {d.params[k] : k \in 1..Len(d.params)} |->
                  Argument(s, CHOOSE k \in 1..Len(d.params) : d.params[k] = a)]))

Value(sum, con, parts) == [sum |-> sum, con |-> con, parts |-> parts]
\* The sequences whose i-th element is of S[i].
RECURSIVE Rows(_)
Rows(S) == IF S = <<>> THEN {<<>>}
           ELSE {<<x>> \o r : x \in Head(S), r \in Rows(Tail(S))}

RECURSIVE Values(_, _)
Values(s, depth) ==
  IF s.type.op = "builtin"
  THEN LET sum == SumOf(s.type.name)
           n == Len(s.type.args)
           Inner == [k \in 1..n |-> Values(Argument(s, k), depth - 1)] IN
       CASE sum \in {"int64", "text", "contract_id"} -> {Value(sum, "", <<>>)}
         [] depth = 0 -> {Value(sum, "", <<>>)}
         [] OTHER -> {Value(sum, "", r) : r \in {<<>>} \cup Rows(Inner)}
  ELSE LET d == Defined(s) IN
       CASE d.con = "record" ->
              {Value("record", "", r) :
                 r \in Rows([i \in 1..Len(d.fields) |-> Values(Field(s, i), depth)])}
         [] d.con = "variant" ->
              UNION {{Value("variant", d.labels[i], <<w>>) : w \in Values(Field(s, i), depth)} :
                       i \in 1..Len(d.labels)}
         [] d.con = "enum" -> {Value("enum", d.labels[i], <<>>) : i \in 1..Len(d.labels)}

------------------------------------------------------------------------------
(* The requests.  The template and its choice are of the package "main". *)

Template == Type("con", "self", "Asset", NoArgs)
Ask(v, t) == [value |-> v, type |-> t]
State(status, value, type) == [status |-> status, value |-> value, type |-> type]
NoTree == TreeNode("none", "", <<>>, <<>>)

Init ==
  /\ program \in Programs
  /\ stored = {} /\ missing = {}
  /\ refreshed = FALSE
  /\ asked = <<>> /\ states = <<>>

Forget == asked' = <<>> /\ states' = <<>>

\* A sync, or the one of a debug session, stores a package: the registry is not told.
StorePackage(p) ==
  /\ p \in DOMAIN program \ stored
  /\ stored' = stored \cup {p}
  /\ Forget
  /\ UNCHANGED <<program, missing, refreshed>>

\* A page of the package, or a value that PQS gives as JSON, looks it up with what its
\* types refer to; so does a first attempt whose refresh then fails.
Inspect(p) ==
  /\ missing' = missing \cup
       (({p} \cup {Target(p, t) : t \in IF p \in Readable THEN Range(program[p].types) ELSE {}})
          \ stored)
  /\ UNCHANGED <<program, stored, refreshed, asked, states>>

\* The first attempt finds the package of the template missing: refreshPackageForNode
\* asks the node for it, and makes the registry forget this one package.
Refresh ==
  /\ "main" \notin Readable /\ ~refreshed
  /\ refreshed' = TRUE
  /\ stored' \in {stored, stored \cup {"main"}}
  /\ missing' = missing \ {"main"}
  /\ Forget
  /\ UNCHANGED program

\* decodeRawValue and attachDecodedType
Answered(v, t, tree) ==
  LET d == Typed(v, "main", t, Unbound) IN
  IF d = Null THEN State("invalid_data", Null, NoTree) ELSE State("decoded", d, tree)
Invalid == State("invalid_data", Null, NoTree)
NotAvailable == State("not_available", Null, NoTree)

\* An attempt that answers: the first if the package of the template is read, else the
\* second.  The registry remembers what it sought in vain.
Attempt(trees) ==
  LET sought == {"main"} \cup UNION {Sought(tree) : tree \in trees} IN
  /\ "main" \in Readable \/ refreshed
  /\ refreshed' = FALSE
  /\ missing' = missing \cup (sought \ stored)
  /\ UNCHANGED <<program, stored>>

DecodeContract ==
  LET tree == IF "main" \in Readable
              THEN DataNode("main", "Asset", Lookup("main", "Asset"), {}, Unbound, {})
              ELSE NoTree IN
  /\ Attempt({tree})
  /\ \E v \in Values(Meant(Scoped("main", Template, Unbound)), MaxDepth) :
       /\ asked' = <<Ask(v, Template)>>
       /\ states' = <<IF "main" \in Readable THEN Answered(v, Template, tree) ELSE Invalid>>

\* decodeExerciseValue; an exercise in flight has no result yet.
DecodeExercise ==
  LET argument == program["main"].types[program["main"].choice.argument]
      result == program["main"].types[program["main"].choice.result]
      Tree(t) == IF "main" \in Readable THEN TypeNode("main", t, {}, Unbound, {}) ELSE NoTree
      Answer(v, t) == IF "main" \in Readable THEN Answered(v, t, Tree(t)) ELSE Invalid
      In(t) == Values(Meant(Scoped("main", t, Unbound)), MaxDepth) IN
  /\ Attempt({Tree(argument), Tree(result)})
  /\ \E v \in In(argument), w \in In(result), done \in BOOLEAN :
       /\ asked' = <<Ask(v, argument), Ask(w, result)>>
       /\ states' = <<Answer(v, argument), IF done THEN Answer(w, result) ELSE NotAvailable>>

\* What the registry remembers is lost with the process.
Restart ==
  /\ missing' = {} /\ refreshed' = FALSE
  /\ Forget
  /\ UNCHANGED <<program, stored>>

Next ==
  \/ \E p \in DOMAIN program : StorePackage(p) \/ Inspect(p)
  \/ Refresh
  \/ DecodeContract
  \/ DecodeExercise
  \/ Restart

Spec == Init /\ [][Next]_vars

------------------------------------------------------------------------------
(* Properties *)

\* A value read whole: every part of it, under its own name.
RECURSIVE Whole(_, _)
Whole(v, s) ==
  IF s.type.op = "builtin"
  THEN Decoded(v.sum, "",
               [i \in 1..Len(v.parts) |->
                  Whole(v.parts[i],
                        Argument(s, IF v.sum = "map" THEN 2 - (i % 2) ELSE 1))], <<>>)
  ELSE LET d == Defined(s)
           At(i) == IF d.con = "record" THEN i
                    ELSE CHOOSE f \in 1..Len(d.labels) : d.labels[f] = v.con IN
       Decoded(v.sum, v.con,
               [i \in 1..Len(v.parts) |-> Whole(v.parts[i], Field(s, At(i)))],
               IF d.con = "record" THEN d.labels ELSE <<>>)
IsWhole(i) ==
  states[i].value = Whole(asked[i].value, Meant(Scoped("main", asked[i].type, Unbound)))

\* Whether a value can be of the type a tree draws; a tree says nothing below a note.
RECURSIVE Fits(_, _)
Fits(v, node) ==
  CASE node.note # "" -> TRUE
    [] node.kind \in {"con", "syn"} -> Fits(v, node.parts[Len(node.parts)])
    [] node.kind \in {"Int64", "Text", "ContractId"} -> v.sum = SumOf(node.kind)
    [] node.kind \in {"List", "Optional", "GenMap"} ->
         /\ v.sum = SumOf(node.kind)
         /\ \A i \in 1..Len(v.parts) :
              Fits(v.parts[i], node.parts[IF v.sum = "map" THEN 2 - (i % 2) ELSE 1])
    [] node.kind = "record" ->
         /\ v.sum = "record" /\ Len(v.parts) = Len(node.parts)
         /\ \A i \in 1..Len(v.parts) : Fits(v.parts[i], node.parts[i])
    [] node.kind \in {"variant", "enum"} ->
         /\ v.sum = node.kind
         /\ \E f \in 1..Len(node.labels) :
              node.labels[f] = v.con /\ \A i \in 1..Len(v.parts) : Fits(v.parts[i], node.parts[f])
    [] OTHER -> FALSE

(* Applications the readers can follow: of a type of the same package, to types without
   variables or to a variable that is not another parameter of the applied type. *)
RECURSIVE Closed(_, _)
Closed(p, t) == t.op # "var" /\ \A i \in 1..Len(t.args) : Closed(p, Interned(p, t.args[i]))
PlainApplications ==
  \A p \in DOMAIN program : \A n \in DOMAIN program[p].types :
    LET t == program[p].types[n] IN
    t.op \in {"con", "syn"} /\ t.args # <<>> =>
      /\ t.pkg = "self"
      /\ \A i \in 1..Len(t.args) :
           LET a == Interned(p, t.args[i])
               params == program[p].data[t.name].params IN
           \/ Closed(p, a)
           \/ a.op = "var" /\ \A k \in 1..Len(params) : params[k] = a.name => k = i
NoSynonyms ==
  \A p \in DOMAIN program : \A n \in DOMAIN program[p].types : program[p].types[n].op # "syn"
\* The tree binds parameters by name wherever it is: no two types may share one.
ParametersDiffer ==
  \A p, q \in DOMAIN program : \A d \in DOMAIN program[p].data, e \in DOMAIN program[q].data :
    Range(program[p].data[d].params) \cap Range(program[q].data[e].params) # {} => p = q /\ d = e

(* Once every package is stored, and the registry remembers none as missing from before,
   contracts and exercises with plain applications decode to the whole value, fields under
   their names: definitions of other packages, recursion and parameters are followed
   (decodeTypedValue).  The tree shown beside a value (buildTypeNode)
   is one the value fits, provided that types do not share the names of their parameters.
   Only the tree follows synonyms. *)
PlainTypesAreRead ==
  \A i \in DOMAIN states :
    Readable = DOMAIN program /\ PlainApplications /\ states[i].status # "not_available" =>
      /\ states[i].status = "decoded"
      /\ NoSynonyms => IsWhole(i)
      /\ ParametersDiffer => Fits(asked[i].value, states[i].type)

\* Every part of the value is there, in the data it was decoded to.
RECURSIVE SameShape(_, _)
SameShape(d, v) ==
  /\ d.kind = v.sum /\ Len(d.parts) = Len(v.parts)
  /\ \A i \in 1..Len(v.parts) : SameShape(d.parts[i], v.parts[i])

(* "The decoder must never return partially decoded nested objects"
   (2026-07-02-generic-dar-decoder-design.md:165): what is called decoded holds every
   part of the value.  In the code a part that cannot be read becomes a unit value. *)
DecodedIsWhole ==
  \A i \in DOMAIN states :
    states[i].status = "decoded" => SameShape(states[i].value, asked[i].value)
====
