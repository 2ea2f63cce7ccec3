---------------------------- MODULE MCVerifyCases ----------------------------
(* The inputs of VerifyCases for TLC.                                      *)
EXTENDS VerifyCases, FiniteSets, TLC

CONSTANTS k1, k2

Home == "example.org"
Uri(parts) == [scheme |-> TRUE, parts |-> parts]
Orders == Uri(<<Home, "orders">>)
Billing == Uri(<<Home, "billing">>)
\* An identity of another trust domain, three strings that are no identity.
Foreign == Uri(<<"other.org", "orders">>)
Broken == {Uri(<<Home, "bad~path">>), Uri(<<Home, "..">>),
           [scheme |-> FALSE, parts |-> <<Home, "orders">>]}

DomainTexts == {Home, "other.org"}
PathTexts == {"orders", "billing", "..", ""}
Claimed == {Orders, Billing, Foreign} \cup Broken
Wanted == {Orders, Billing}
OwnKey(k) == {PublicJwk(k)}

-----------------------------------------------------------------------------
(* Documents *)

Doc(td, version, identities) ==
  [trust_domain |-> td, version |-> version, identities |-> identities]
Entries(orders, others, entry) ==
  [i \in {Orders, Billing} \cup others |->
     CASE i = Orders -> orders [] i = Billing -> OwnKey(k2) [] OTHER -> entry]

\* orders is bound to any two elements at most, billing to its own key; ...
SmallBundles ==
  {Doc(Home, BundleVersion, Entries(o, {}, {})) :
     o \in {s \in SUBSET (Jwk \cup {Null, Scalar}) : Cardinality(s) <= 2}}
\* ... or there are entries that are skipped beside theirs, or in their place; ...
MixedBundles ==
  {Doc(Home, BundleVersion, Entries(o, {Foreign} \cup Broken, entry)) :
     o \in {OwnKey(k1), KeyLess}, entry \in {OwnKey(k1), OwnKey(k2), {}, KeyLess}}
\* ... or the top of the document is malformed.
MalformedBundles ==
  {Doc(td, version, identities) :
     td \in {Home, "other.org", OtherType, Absent}, version \in {BundleVersion, 2, Absent},
     identities \in {Entries(OwnKey(k1), {}, {}), Array, Null, Absent}}
AllBundles == SmallBundles \cup MixedBundles \cup MalformedBundles

-----------------------------------------------------------------------------
(* Setups *)

InDirectory == [dir |-> <<"identity">>, id |-> Unset, key |-> Unset, bundle |-> Unset]
Disk(doc) ==
  <<"identity", "id">> :> Billing @@ <<"identity", "key.pem">> :> k2
    @@ <<"identity", "bundle.json">> :> doc

\* Every service is bound to its own key.
OwnKeys == Doc(Home, BundleVersion, Entries(OwnKey(k1), {}, {}))
\* A root with one service, orders, for the explicit variables.
NewRoot == <<"root", "bundle.json">> :> ToDict(Home, <<>>)
Rooted == AddService(NewRoot, <<"root">>, <<"orders">>, k1)
Provisioned == ServiceEnv(<<"root">>, <<"orders">>)

Environments ==
  [dir : {Unset, <<>>, <<"identity">>}, id : {Unset, <<>>, Provisioned.id, <<"nowhere">>},
   key : {Unset, <<>>, Provisioned.key, <<"nowhere">>},
   bundle : {Unset, <<>>, Provisioned.bundle, <<"nowhere">>}]

OneDirectory(docs) == {[env |-> InDirectory, disk |-> Disk(doc)] : doc \in docs}
AnyEnvironment == {[env |-> e, disk |-> Disk(OwnKeys) @@ Rooted] : e \in Environments}

AllSetups == OneDirectory(AllBundles) \cup AnyEnvironment
OneSetup == OneDirectory({OwnKeys})
=============================================================================
