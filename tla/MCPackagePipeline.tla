------------------------- MODULE MCPackagePipeline -------------------------
(* Small instances of PackagePipeline for TLC, and of DamlTypes, which reads with the
   packages a sync has stored: a behaviour is of one of them, for what one changes the
   other does not see. *)
EXTENDS PackagePipeline

CONSTANTS n1, n2, p1, p2, MaxDepth
VARIABLES reading, program, stored, missing, refreshed, asked, states

OneNode == {n1}
TwoPackages == {p1, p2}
Second == {p2}

typeVars == <<program, stored, missing, refreshed, asked, states>>

------------------------------------------------------------------------------
(* What packages may define *)

T(op, pkg, name, args) == [op |-> op, pkg |-> pkg, name |-> name, args |-> args]
B(name, args) == T("builtin", "", name, args)
Own(name, args) == T("con", "self", name, args)
Lib(name, args) == T("con", "lib", name, args)
Var(a) == T("var", "", a, <<>>)
D(con, params, labels, fields) ==
  [con |-> con, params |-> params, labels |-> labels, fields |-> fields]
Record(params, labels, fields) == D("record", params, labels, fields)
Int == B("Int64", <<>>)
Text == B("Text", <<>>)
Choice(argument, result) == [argument |-> argument, result |-> result]
Box == Record(<<"a">>, <<"item", "more">>, <<1, 2>>)

\* A library: a record, an enumeration and a pair of any two types.
Library ==
  [types |-> <<Own("Colour", <<>>), Int, Var("x"), Var("y")>>,
   data |-> [Tag |-> Record(<<>>, <<"colour", "level">>, <<1, 2>>),
             Colour |-> D("enum", <<>>, <<"Red", "Blue">>, <<>>),
             Pair |-> Record(<<"x", "y">>, <<"left", "right">>, <<3, 4>>)]]
Packages(types, data, choice) ==
  [main |-> [types |-> types, data |-> data, choice |-> choice],
   lib |-> [types |-> Library.types, data |-> Library.data, choice |-> Choice(0, 0)]]

\* Recursion through a list, and through an interface that returns the template.
Recursive ==
  Packages(<<Text, Lib("Tag", <<>>), Own("Tree", <<>>), B("List", <<3>>), Int,
             B("Optional", <<2>>), B("GenMap", <<1, 2>>), B("ContractId", <<9>>),
             Own("Holding", <<>>), B("ContractId", <<11>>), Own("Asset", <<>>)>>,
           [Asset |-> Record(<<>>, <<"owner", "tree", "tags">>, <<1, 3, 7>>),
            Tree |-> D("variant", <<>>, <<"Leaf", "Node">>, <<5, 4>>),
            Holding |-> D("interface", <<>>, <<"Split">>, <<10>>)],
           Choice(8, 6))
\* A parameter handed on under another name, and a type that contains itself.
Generic ==
  Packages(<<Var("a"), B("Optional", <<3>>), Own("Box", <<1>>), Own("Box", <<5>>), Var("b"),
             Own("Pick", <<7>>), Own("Item", <<>>), Int, B("List", <<8>>), Own("Box", <<9>>)>>,
           [Asset |-> Record(<<>>, <<"box", "pick">>, <<10, 6>>),
            Pick |-> Record(<<"b">>, <<"box">>, <<4>>),
            Item |-> Record(<<>>, <<"count">>, <<8>>),
            Box |-> Box],
           Choice(6, 10))
\* A synonym of a record.
Synonym ==
  Packages(<<T("syn", "self", "Amount", <<>>), Own("Item", <<>>), Int>>,
           [Asset |-> Record(<<>>, <<"amount">>, <<1>>),
            Amount |-> D("synonym", <<>>, <<>>, <<2>>),
            Item |-> Record(<<>>, <<"count">>, <<3>>)],
           Choice(1, 3))
\* A type of another package applied to types of this one.
Imported ==
  Packages(<<Lib("Pair", <<2, 3>>), Text, B("List", <<2>>)>>,
           [Asset |-> Record(<<>>, <<"pair">>, <<1>>)], Choice(1, 3))
\* A parameter inside the argument of a type with a parameter of the same name.
Nested ==
  Packages(<<Var("a"), B("Optional", <<3>>), Own("Box", <<1>>), B("List", <<1>>),
             Own("Box", <<4>>), Own("Foo", <<7>>), Text>>,
           [Asset |-> Record(<<>>, <<"foo">>, <<6>>),
            Foo |-> Record(<<"a">>, <<"box">>, <<5>>),
            Box |-> Box],
           Choice(6, 7))
\* A type with a parameter around a type with a parameter of the same name.
Wrapped ==
  Packages(<<Var("a"), Own("Item", <<1>>), Own("Wrap", <<4>>), Text>>,
           [Asset |-> Record(<<>>, <<"wrap">>, <<3>>),
            Wrap |-> Record(<<"a">>, <<"item">>, <<2>>),
            Item |-> Record(<<"a">>, <<"kept">>, <<1>>)],
           Choice(3, 4))
AllPrograms == {Recursive, Generic, Synonym, Imported, Nested, Wrapped}

Types == INSTANCE DamlTypes WITH Programs <- AllPrograms

------------------------------------------------------------------------------
MCInit ==
  /\ reading \in {"packages", "types"}
  /\ Init /\ Types!Init
  /\ reading = "types" => hosted = [n \in Node |-> {}]
  /\ reading = "packages" => program = Synonym

MCNext ==
  /\ UNCHANGED reading
  /\ \/ reading = "packages" /\ Next /\ UNCHANGED typeVars
     \/ reading = "types" /\ Types!Next /\ UNCHANGED vars

MCSpec == MCInit /\ [][MCNext]_<<reading, vars, typeVars>> /\ SyncFairness

(* DamlTypes, PlainTypesAreRead. *)
PlainTypesAreRead == Types!PlainTypesAreRead
(* DamlTypes, DecodedIsWhole. *)
DecodedIsWhole == Types!DecodedIsWhole
=============================================================================
