-------------------------- MODULE MCConfigRegistry --------------------------
(* Model checking of ConfigRegistry on one name and one document.          *)
EXTENDS ConfigRegistry, TLC

CONSTANTS t1, t2, t3, conf, bad

Numerals == "1" :> 1 @@ "2" :> 2
Texts    == 1 :> "1" @@ 2 :> "2"

Lists   == UnorderedMap(List(String))
Numbers == Set(Int_)

RegistryTypes == {Lists, Numbers}

Throws == {"std", "other"}

\* An element that is an empty string comes from a client only.
Defaults == Lists :> << >> @@ Numbers :> {1}
Values   == Lists :> {"K" :> <<Scalar("")>>} @@ Numbers :> {{1}, {1, 2}}

One == Scalar("1")
Two == Scalar("2")

\* The name occurs with a map, which a set of numbers cannot be, and with two
\* sequences, which the map cannot be and of which each can be refused; members
\* of refused names come in between.
Document == <<
  [name |-> conf, node |-> Mapping(<<Entry("K", Sequence(<<One, Two>>)), Entry("K", One)>>)],
  [name |-> bad, node |-> Sequence(<<One, Two>>)],
  [name |-> bad, node |-> One],
  [name |-> conf, node |-> Sequence(<<Two, One, Two>>)],
  [name |-> conf, node |-> Sequence(<<One>>)]>>

Documents == {Document}

Nodes == {Document[k].node : k \in DOMAIN Document}

\* What RoundTrip says, of the containers these types leave out.
Other(Ts) == UNION {{Vector(T), UnorderedSet(T), Map(T)} : T \in Ts}

Shapes == Nodes \cup {Sequence(<<Sequence(<<One>>), Sequence(<< >>)>>),
                      Mapping(<<Entry("K", Mapping(<<Entry("L", Two)>>)), Entry("L", Nil)>>)}

ASSUME OtherTypesReadBack ==
  \A T \in Other(Simple) \cup Other(Other(Simple)), node \in Shapes :
    LET x == FromString(T, NodeText(node)) IN x # Bad => ReadsBack(T, x)
=============================================================================
