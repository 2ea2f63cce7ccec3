-------------------------- MODULE VerifyCasesProofs --------------------------
(***************************************************************************)
(* Proofs about a service in the three implementations, for every setup,    *)
(* every token and every moment.                                           *)
(***************************************************************************)
EXTENDS VerifyCases, VerificationProofs, SequenceTheorems

\* The inductive invariant: a verdict is that of the token given, and a service
\* that has started did so from its setup.
Determined ==
  /\ setup \in Setups
  /\ start \in {Pending, Started}
  /\ \/ token = NoToken /\ outcome = Pending
     \/ token \in Tokens /\ outcome = Verdicts(token) /\ start # Pending

LEMMA StaysDetermined == Spec => []Determined
<1>1. Init => Determined
  BY DEF Init, Determined, Pending
<1>2. Determined /\ [Next]_vars => Determined'
  <2> SUFFICES ASSUME Determined, [Next]_vars PROVE Determined'
    OBVIOUS
  <2>1. CASE Start
    <3>1. /\ UNCHANGED <<setup, token, outcome>>
          /\ start = Pending /\ start' = Started
      BY <2>1 DEF Start
    <3>2. token = NoToken /\ outcome = Pending
      BY <3>1 DEF Determined
    <3>3. start' = Started'
      BY <3>1 DEF Started, FilesOf
    <3>4. QED
      BY <3>1, <3>2, <3>3 DEF Determined
  <2>2. CASE Verify
    <3>1. UNCHANGED <<setup, start>> /\ token' \in Tokens /\ outcome' = Verdicts(token')
      BY <2>2 DEF Verify
    <3>2. Verdicts(token)' = Verdicts(token')
      BY <3>1 DEF Verdicts, Answer, Ready, Document, Me, FilesOf
    <3>3. start' # Pending
      BY <2>2 DEF Verify, Ready, Pending
    <3>4. Started' = Started
      BY <3>1 DEF Started, FilesOf
    <3>5. QED
      BY <3>1, <3>2, <3>3, <3>4 DEF Determined
  <2>3. CASE UNCHANGED vars
    <3>1. UNCHANGED <<setup, start, token, outcome>>
      BY <2>3 DEF vars
    <3>2. Verdicts(token)' = Verdicts(token)
      BY <3>1 DEF Verdicts, Answer, Ready, Document, Me, FilesOf
    <3>3. Started' = Started
      BY <3>1 DEF Started, FilesOf
    <3>4. QED
      BY <3>1, <3>2, <3>3 DEF Determined
  <2>4. QED
    BY <2>1, <2>2, <2>3 DEF Next
<1>3. QED
  BY <1>1, <1>2, PTL DEF Spec

\* A verdict "Accepted" is the verdict of the code, of a service that has started.
LEMMA AcceptedVerdict ==
  ASSUME Determined, NEW l \in Languages, Accepts(l)
  PROVE  /\ token \in Tokens /\ outcome = Verdicts(token) /\ Ready(l)
         /\ \/ l = "python"
               /\ VerifyPython(token, Document(l), Me(l), Now) = "Accepted"
            \/ l = "typescript"
               /\ VerifyTypeScript(token, Document(l), Me(l), Now) = "Accepted"
            \/ l = "go"
               /\ VerifyGo(token, Document(l), Me(l), Now) = "Accepted"
<1>1. token \in Tokens /\ outcome = Verdicts(token)
  BY DEF Determined, Accepts, Pending
<1>2. QED
  BY <1>1 DEF Accepts, Verdicts, Answer, Languages

\* What stands for a malformed aud is no identity that a service was started with.
LEMMA MeIsRead ==
  ASSUME Determined, NEW l \in Languages, Ready(l)
  PROVE  Me(l) \notin {Absent, Null, Listed}
<1>1. Started[l] = "Started"
  BY DEF Determined, Ready, Pending
<1>2. FromFiles(FilesOf(l), setup.disk) = "Started"
  BY <1>1 DEF Started, FromFilesGo, Languages
<1>3. FilesOf(l).id \in DOMAIN setup.disk
  BY <1>2 DEF FromFiles
<1>4. QED
  BY <1>3, ContentsAssumption DEF Determined, Me

LEMMA TokenTyped ==
  ASSUME token \in Tokens
  PROVE  token.signer \in Keys /\ Timed(token)
BY TimesAssumption DEF Tokens, Timed

\* Key lookup is scoped by the claimed identity in all three implementations:
\* no other service's key, whatever kid it goes by, makes a token acceptable.
THEOREM LookupIsScoped == Spec => []OnlyBoundKeys
<1>1. Determined => OnlyBoundKeys
  <2> SUFFICES ASSUME Determined, NEW l \in Languages, Accepts(l)
               PROVE  BoundTo(token, Document(l), Me(l))
    BY DEF OnlyBoundKeys
  <2>1. token.signer \in Keys /\ Me(l) \notin {Absent, Null, Listed}
    BY AcceptedVerdict, TokenTyped, MeIsRead
  <2>2. /\ IsSpiffeId(token.sub) /\ TrustDomainOf(token.sub) = Document(l).trust_domain
        /\ \E j \in KeysFor(Document(l), token.sub) \ {Null, Scalar} : j.key = token.signer
        /\ token.aud = Me(l)
    BY <2>1, AcceptedVerdict, AcceptedIsBound
  <2>3. \E j \in Document(l).identities[token.sub] \ {Null, Scalar} : j.key = token.signer
    BY <2>2, KeysForBound
  <2>4. UnverifiedAudience(token) = Me(l) /\ UnverifiedAudienceGo(token) = Me(l)
    BY <2>1, <2>2 DEF UnverifiedAudience, UnverifiedAudienceGo
  <2>5. QED
    BY <2>2, <2>3, <2>4 DEF BoundTo
<1>2. QED
  BY <1>1, StaysDetermined, PTL

-----------------------------------------------------------------------------
(* The three started alike and compared *)

\* Whatever the environment and the disk, the three start alike.
THEOREM SameStart == Spec => []StartsAlike
<1>1. Determined => StartsAlike
  <2> SUFFICES ASSUME Determined PROVE StartsAlike
    OBVIOUS
  <2> DEFINE env == setup.env
  <2>1. CASE start = Pending
    BY <2>1 DEF Pending, StartsAlike, Languages
  <2>2. CASE start = Started
    <3>1. /\ start["python"] = FromFiles(Files(env), setup.disk)
          /\ start["typescript"] = FromFiles(FilesTypeScript(env), setup.disk)
          /\ start["go"] = FromFilesGo(Files(env), setup.disk)
      BY <2>2 DEF Started, FilesOf
    <3>2. ASSUME \A r \in Roles : IsSet(FilesTypeScript(env)[r])
          PROVE  ~AnyEmpty
      <4> SUFFICES ASSUME NEW r \in Roles, env[r] = <<>> PROVE FALSE
        BY DEF AnyEmpty
      <4>1. FilesTypeScript(env)[r] = <<>>
        BY UnsetAssumption DEF FilesTypeScript
      <4>2. QED
        BY <3>2, <4>1 DEF IsSet
    <3>3. ~AnyEmpty => FilesTypeScript(env) = Files(env)
      BY DEF AnyEmpty, FilesTypeScript, Files, IsSet
    <3>4. start["typescript"] = "Started" => ~AnyEmpty
      BY <3>1, <3>2 DEF FromFiles
    <3>5. start["typescript"] = "Started" <=> ~AnyEmpty /\ start["python"] = "Started"
      BY <3>1, <3>3, <3>4
    <3>6. start["go"] = "Started" <=> start["python"] = "Started" /\ KeyFileIsGood
      BY <3>1 DEF FromFilesGo, KeyFileIsGood, FilesOf
    <3>7. /\ FilesOf("python") = Files(env) /\ FilesOf("go") = Files(env)
          /\ ~AnyEmpty => FilesOf("typescript") = Files(env)
      BY <3>3 DEF FilesOf
    <3>8. QED
      BY <3>5, <3>6, <3>7 DEF StartsAlike, Languages
  <2>3. QED
    BY <2>1, <2>2 DEF Determined
<1>2. QED
  BY <1>1, StaysDetermined, PTL

LEMMA StartedAlike ==
  ASSUME WellConfigured
  PROVE  \A l \in Languages : FilesOf(l) = FilesOf("python")
<1>1. \A r \in Roles : IsSet(setup.env[r]) <=> setup.env[r] # Unset
  BY DEF WellConfigured, AnyEmpty, IsSet
<1>2. FilesTypeScript(setup.env) = Files(setup.env)
  BY <1>1 DEF FilesTypeScript, Files
<1>3. QED
  BY <1>2 DEF FilesOf, Languages

LEMMA ReadyAlike ==
  ASSUME Determined, WellConfigured
  PROVE  \A l \in Languages :
           Ready(l) /\ Me(l) = Me("python") /\ Document(l) = Document("python")
<1> SUFFICES ASSUME NEW l \in Languages
             PROVE  Ready(l) /\ Me(l) = Me("python") /\ Document(l) = Document("python")
  OBVIOUS
<1>1. start = Started /\ Started["go"] = "Started" /\ FilesOf("go").bundle \in DOMAIN setup.disk
  BY DEF Determined, WellConfigured, Ready, Pending, Languages
<1>2. FromFiles(FilesOf("go"), setup.disk) = "Started"
  BY <1>1 DEF Started, FromFilesGo
<1>3. FilesOf("go") = FilesOf(l) /\ FilesOf(l) = FilesOf("python")
      /\ FilesOf("typescript") = FilesOf("go")
  BY StartedAlike DEF Languages
<1>4. start[l] = "Started"
  BY <1>1, <1>2, <1>3 DEF Started, Languages
<1>5. QED
  BY <1>1, <1>3, <1>4 DEF Ready, Me, Document

\* In such a setup the verdicts are those of the code, on one document and for one
\* service.
LEMMA VerdictsAlike ==
  ASSUME Determined, WellConfigured, outcome # Pending
  PROVE  /\ token \in Tokens /\ Me("python") \notin {Absent, Null, Listed}
         /\ outcome["python"] = VerifyPython(token, Document("python"), Me("python"), Now)
         /\ outcome["typescript"] =
              VerifyTypeScript(token, Document("python"), Me("python"), Now)
         /\ outcome["go"] = VerifyGo(token, Document("python"), Me("python"), Now)
<1>1. token \in Tokens /\ outcome = Verdicts(token)
  BY DEF Determined
<1>2. Me("python") \notin {Absent, Null, Listed}
  BY ReadyAlike, MeIsRead DEF Languages
<1>3. QED
  BY <1>1, <1>2, ReadyAlike DEF Verdicts, Answer, Languages

LEMMA PendingAcceptsNone ==
  ASSUME NEW l \in Languages, Accepts(l)
  PROVE  outcome # Pending
BY DEF Accepts, Pending

\* Python accepts nothing that TypeScript and Go do not accept as well.
THEOREM Strictest == Spec => []PythonIsStrictest
<1>1. Determined => PythonIsStrictest
  <2> SUFFICES ASSUME Determined, WellConfigured, Accepts("python"), NEW l \in Languages
               PROVE  Accepts(l)
    BY DEF PythonIsStrictest
  <2>1. outcome # Pending
    BY PendingAcceptsNone DEF Languages
  <2>2. token.signer \in Keys /\ Timed(token)
    BY <2>1, VerdictsAlike, TokenTyped
  <2>3. QED
    BY <2>1, <2>2, VerdictsAlike, PythonStrictest, TimesAssumption DEF Accepts, Languages
<1>2. QED
  BY <1>1, StaysDetermined, PTL

\* Python accepts what TypeScript or Go accepts, but for the cases that Comparable
\* names.
THEOREM SameVerdicts == Spec => []Parity
<1>1. Determined => Parity
  <2> SUFFICES ASSUME Determined, WellConfigured, NEW l \in Languages, Accepts(l), Comparable(l)
               PROVE  Accepts("python")
    BY DEF Parity
  <2> DEFINE doc == Document("python")
             me == Me("python")
  <2>1. outcome # Pending
    BY PendingAcceptsNone
  <2>2. token.signer \in Keys /\ Timed(token)
    BY <2>1, VerdictsAlike, TokenTyped
  <2>3. Document(l) = doc /\ me # Listed
    BY <2>1, ReadyAlike, VerdictsAlike
  <2>4. CASE l = "typescript"
    <3>1. KeysFor(doc, token.sub) \subseteq Jwk /\ token.exp + Leeway # Now
      BY <2>3, <2>4 DEF Comparable
    <3>2. VerifyTypeScript(token, doc, me, Now) = "Accepted"
      BY <2>1, <2>4, VerdictsAlike DEF Accepts
    <3>3. VerifyPython(token, doc, me, Now) = "Accepted"
      BY <2>2, <2>3, <3>1, <3>2, TypeScriptNoStricter, TimesAssumption
    <3>4. QED
      BY <2>1, <3>3, VerdictsAlike DEF Accepts
  <2>5. CASE l = "go"
    <3>1. /\ KeysFor(doc, token.sub) \subseteq Jwk
          /\ token.iat # Absent => token.iat <= Now + Leeway
          /\ token.kid # Absent
          /\ \A j \in KeysFor(doc, token.sub) : j.kid = token.kid => j.key # Unusable
      BY <2>3, <2>5 DEF Comparable
    <3>2. VerifyGo(token, doc, me, Now) = "Accepted"
      BY <2>1, <2>5, VerdictsAlike DEF Accepts
    <3>3. VerifyPython(token, doc, me, Now) = "Accepted"
      BY <2>2, <2>3, <3>1, <3>2, GoNoStricter, TimesAssumption
    <3>4. QED
      BY <2>1, <3>3, VerdictsAlike DEF Accepts
  <2>6. QED
    BY <2>4, <2>5 DEF Languages
<1>2. QED
  BY <1>1, StaysDetermined, PTL

\* What was minted with a listed key and is not over is accepted.
THEOREM HonestIsAccepted == Spec => []HonestAccepted
<1>1. Determined => HonestAccepted
  <2> DEFINE doc == Document("python")
             me == Me("python")
             t == token
  <2> SUFFICES ASSUME Determined, NEW l \in Languages, t # NoToken, WellConfigured,
                      WellFormed(Document(l)), Honest(t, Me(l)), Registered(t, Document(l))
               PROVE  Accepts(l)
    BY DEF HonestAccepted
  <2>1. t \in Tokens /\ outcome = Verdicts(t)
    BY DEF Determined
  <2>2. Document(l) = doc /\ Me(l) = me /\ Ready(l)
    BY ReadyAlike
  <2>3. me \notin {Absent, Null, Listed}
    BY ReadyAlike, MeIsRead DEF Languages
  <2>4. /\ t.signer \in Keys /\ t.iat \in Int /\ t.iat # Absent
        /\ t.exp \in Int /\ t.exp # Absent /\ t.sub # Absent /\ IsSpiffeId(t.sub)
        /\ t.iat <= Now + Leeway /\ Now < t.exp + Leeway
    BY <2>1, TokenTyped DEF Honest, Timed
  <2>5. ParsePython(doc) = "Parsed"
    BY <2>2, <2>4, MarksAssumption DEF WellFormed, Registered, ParsePython, IsSpiffeId
  <2>6. KeysFor(doc, t.sub) \subseteq Jwk /\ PublicJwk(t.signer) \in KeysFor(doc, t.sub)
    BY <2>2, <2>4 DEF WellFormed, Registered, KeysFor, Kept
  <2>7. t = Mint(t.sub, t.signer, t.signer, me, t.iat, t.exp - t.iat)
    BY <2>2 DEF Honest
  <2>8. /\ VerifyPython(t, doc, me, Now) = "Accepted"
        /\ VerifyTypeScript(t, doc, me, Now) = "Accepted"
        /\ VerifyGo(t, doc, me, Now) = "Accepted"
    BY <2>3, <2>4, <2>5, <2>6, <2>7, HonestVerified, TimesAssumption
  <2>9. QED
    BY <2>1, <2>2, <2>8, ReadyAlike DEF Accepts, Verdicts, Answer, Languages
<1>2. QED
  BY <1>1, StaysDetermined, PTL

\* Writing a bundle back changes no verdict.
THEOREM RewritingIsHarmless ==
  ASSUME MarksAreNoMaps PROVE Spec => []RewritingKeepsVerdicts
<1>1. Determined => RewritingKeepsVerdicts
  <2> DEFINE me == Me("python")
             Each(doc) == [python |-> VerifyPython(token, doc, me, Now),
                           typescript |-> VerifyTypeScript(token, doc, me, Now),
                           go |-> VerifyGo(token, doc, me, Now)]
  <2> SUFFICES ASSUME Determined, token # NoToken, WellConfigured,
                      ParsePython(Document("python")) = "Parsed"
               PROVE  outcome = Each(Rewritten(Document("python")))
    BY DEF RewritingKeepsVerdicts
  <2>1. outcome = Verdicts(token)
    BY DEF Determined
  <2>2. outcome = Each(Document("python"))
    BY <2>1, ReadyAlike DEF Verdicts, Answer, Languages
  <2>3. QED
    BY <2>2, RewritingIsInvisible
<1>2. QED
  BY <1>1, StaysDetermined, PTL

-----------------------------------------------------------------------------
(* The environments that a service is meant to be given *)

\* The names that paths are made of, those of the code among them.
PathNames == {"services", "id", "key.pem", "bundle.json"}

\* A service pointed at a directory.
Mounted(dir) == [dir |-> dir, id |-> Unset, key |-> Unset, bundle |-> Unset]

Sound(files, disk) ==
  /\ {files.id, files.key} \subseteq DOMAIN disk
  /\ IsSpiffeId(disk[files.id]) /\ disk[files.key] \in Keys

\* The paths under a root that belong to a service.
ServiceDir(root, name) == root \o <<"services">> \o name

LEMMA ServicePaths ==
  ASSUME NEW N, PathNames \subseteq N, NEW root \in Seq(N), NEW name \in Seq(N)
  PROVE  /\ ServiceDir(root, name) \in Seq(N)
         /\ \A file \in {"id", "key.pem"} :
              Append(ServiceDir(root, name), file) \in Seq(N) \ {<<>>}
         /\ Append(root, "bundle.json") \in Seq(N) \ {<<>>}
<1>1. <<"services">> \in Seq(N)
  BY DEF PathNames
<1>2. root \o <<"services">> \in Seq(N)
  BY <1>1, ConcatProperties
<1>3. ServiceDir(root, name) \in Seq(N)
  BY <1>2, ConcatProperties DEF ServiceDir
<1>4. {"id", "key.pem", "bundle.json"} \subseteq N
  BY DEF PathNames
<1>5. QED
  BY <1>3, <1>4, AppendProperties

LEMMA CancelLeft ==
  ASSUME NEW S, NEW s \in Seq(S), NEW t \in Seq(S), NEW v \in Seq(S), s \o t = s \o v
  PROVE  t = v
BY ConcatSimplifications

LEMMA PathsApart ==
  ASSUME NEW N, PathNames \subseteq N, NEW root \in Seq(N),
         NEW n \in Seq(N), NEW m \in Seq(N),
         NEW f \in {"id", "key.pem"}, NEW g \in {"id", "key.pem"}
  PROVE  /\ Append(ServiceDir(root, n), f) = Append(ServiceDir(root, m), g) => n = m /\ f = g
         /\ Append(ServiceDir(root, n), f) # Append(root, "bundle.json")
<1>1. f \in N /\ g \in N /\ "bundle.json" \in N /\ f # "bundle.json"
  BY DEF PathNames
<1>2. ServiceDir(root, n) \in Seq(N) /\ ServiceDir(root, m) \in Seq(N)
  BY ServicePaths
<1>3. Append(ServiceDir(root, n), f) # Append(root, "bundle.json")
  BY <1>1, <1>2, AppendInjective
<1>4. ASSUME Append(ServiceDir(root, n), f) = Append(ServiceDir(root, m), g)
      PROVE  n = m /\ f = g
  <2>1. ServiceDir(root, n) = ServiceDir(root, m) /\ f = g
    BY <1>1, <1>2, <1>4, AppendInjective
  <2>2. <<"services">> \in Seq(N)
    BY DEF PathNames
  <2>3. root \o <<"services">> \in Seq(N)
    BY <2>2, ConcatProperties
  <2>4. n = m
    BY <2>1, <2>3, CancelLeft DEF ServiceDir
  <2>5. QED
    BY <2>1, <2>4
<1>5. QED
  BY <1>3, <1>4

LEMMA SoundFilesStart ==
  ASSUME NEW N, NEW files \in [Roles -> Seq(N) \ {<<>>}], NEW disk, Sound(files, disk),
         Unset \notin Seq(N)
  PROVE  FromFiles(files, disk) = "Started" /\ FromFilesGo(files, disk) = "Started"
<1>1. \A r \in Roles : IsSet(files[r])
  BY DEF IsSet
<1>2. QED
  BY <1>1 DEF FromFiles, FromFilesGo, Sound

\* A root with a bundle on which add_service gets to its end.
Addable(disk, root, name) ==
  LET bundlePath == Append(root, "bundle.json") IN
  /\ bundlePath \in DOMAIN disk /\ ParsePython(disk[bundlePath]) = "Parsed"
  /\ IsSpiffeId(IdOf(disk[bundlePath].trust_domain, name))
  /\ Append(ServiceDir(root, name), "key.pem") \notin DOMAIN disk

LEMMA IdIsOfDomain ==
  ASSUME NEW N, NEW name \in Seq(N), NEW domain
  PROVE  TrustDomainOf(IdOf(domain, name)) = domain
<1> DEFINE S == N \cup {domain}
<1>1. <<domain>> \in Seq(S) /\ name \in Seq(S) /\ Len(<<domain>>) = 1
  BY DEF S
<1>2. Len(name) \in Nat
  BY LenProperties
<1> HIDE DEF S
<1>3. (<<domain>> \o name)[1] = domain
  BY <1>1, <1>2, ConcatProperties
<1>4. QED
  BY <1>3 DEF TrustDomainOf, IdOf

\* The new document is the old one but for one entry.
LEMMA KeysSet ==
  ASSUME NEW doc, ParsePython(doc) = "Parsed", MarksAreNoMaps,
         NEW id, IsSpiffeId(id), TrustDomainOf(id) = doc.trust_domain,
         NEW k \in Keys
  PROVE  LET new == SetKeys(doc, id, {PublicJwk(k)}) IN
         /\ ParsePython(new) = "Parsed"
         /\ KeysFor(new, id) = {PublicJwk(k)}
         /\ \A i : i # id => KeysFor(new, i) = KeysFor(doc, i)
<1> DEFINE new == SetKeys(doc, id, {PublicJwk(k)})
           jwks == {PublicJwk(k)}
<1>1. /\ new.trust_domain = doc.trust_domain /\ new.version = BundleVersion
      /\ new.identities = [i \in Kept(doc) \cup {id} |-> IF i = id THEN jwks ELSE doc.identities[i]]
  BY DEF SetKeys, ToDict
<1>2. jwks \notin {KeyLess, {}}
  BY EntryAssumption
<1> HIDE DEF new, jwks
<1>3. Kept(new) = Kept(doc) \cup {id}
  BY <1>1, <1>2 DEF Kept
<1>4. Rewritten(new).identities = new.identities
  BY <1>1, <1>3 DEF Rewritten, ToDict
<1>5. new.identities \notin {Absent, Null, Array} /\ doc.identities # Array
      /\ doc.trust_domain # Absent
  BY <1>4 DEF MarksAreNoMaps, ParsePython
<1>6. ParsePython(new) = "Parsed"
  BY <1>1, <1>5, MarksAssumption DEF ParsePython
<1>7. KeysFor(new, id) = jwks
  BY <1>1, <1>3, <1>5 DEF KeysFor
<1>8. ASSUME NEW i, i # id PROVE KeysFor(new, i) = KeysFor(doc, i)
  BY <1>1, <1>3, <1>5, <1>8 DEF KeysFor
<1>9. QED
  BY <1>6, <1>7, <1>8 DEF new, jwks

\* From one end to the other: once add_service has returned, the environment of
\* service_env starts the service in all three languages, under the ID of its name
\* and with its key, and what it mints for whomever is accepted by every
\* implementation that has the bundle of the root, while the leeway lasts.  (That no
\* ID is Absent, the mark of a missing claim, is supposed.)
THEOREM AddedServiceWorks ==
  ASSUME MarksAreNoMaps, NEW N, PathNames \subseteq N, Unset \notin Seq(N),
         NEW root, root \in Seq(N), NEW name, name \in Seq(N), NEW key \in Keys,
         NEW disk, Addable(disk, root, name),
         NEW aud, aud # Listed, aud # Null,
         NEW iat \in Int, iat # Absent, NEW exp \in Int, exp # Absent, NEW now \in Int,
         iat <= now + Leeway, now < exp + Leeway
  PROVE  LET env == ServiceEnv(root, name)
             files == Files(env)
             after == AddService(disk, root, name, key)
             id == IdOf(disk[Append(root, "bundle.json")].trust_domain, name)
             t == Mint(after[files.id], after[files.key], after[files.key], aud, iat, exp - iat)
             doc == after[files.bundle]
         IN /\ FilesTypeScript(env) = files
            /\ FromFiles(files, after) = "Started" /\ FromFilesGo(files, after) = "Started"
            /\ after[files.id] = id /\ after[files.key] = key
            /\ id # Absent => /\ VerifyPython(t, doc, aud, now) = "Accepted"
                              /\ VerifyTypeScript(t, doc, aud, now) = "Accepted"
                              /\ VerifyGo(t, doc, aud, now) = "Accepted"
<1> DEFINE env == ServiceEnv(root, name)
           after == AddService(disk, root, name, key)
           bundlePath == Append(root, "bundle.json")
           doc == disk[bundlePath]
           id == IdOf(doc.trust_domain, name)
           idPath == Append(ServiceDir(root, name), "id")
           keyPath == Append(ServiceDir(root, name), "key.pem")
           new == SetKeys(doc, id, {PublicJwk(key)})
<1>1. env = [dir |-> Unset, id |-> idPath, key |-> keyPath, bundle |-> bundlePath]
  BY DEF ServiceEnv, ServiceDir
<1>2. {idPath, keyPath, bundlePath} \subseteq Seq(N) \ {<<>>}
  BY ServicePaths
<1>3. /\ DOMAIN after = DOMAIN disk \cup {idPath, keyPath}
      /\ after[idPath] = id /\ after[keyPath] = key /\ after[bundlePath] = new
  <2>1. idPath # keyPath /\ idPath # bundlePath /\ keyPath # bundlePath
    BY PathsApart
  <2>2. bundlePath \in DOMAIN disk
    BY DEF Addable
  <2>3. after = Write(Write(Write(disk, keyPath, key), idPath, id), bundlePath, new)
    BY DEF AddService, Addable, ServiceDir
  <2> HIDE DEF bundlePath, id, idPath, keyPath, new, after
  <2>4. QED
    BY <2>1, <2>2, <2>3 DEF Write
<1>4. ParsePython(doc) = "Parsed" /\ IsSpiffeId(id)
  BY DEF Addable
<1>5. TrustDomainOf(id) = doc.trust_domain
  BY IdIsOfDomain
<1>6. ParsePython(new) = "Parsed" /\ KeysFor(new, id) = {PublicJwk(key)}
  BY <1>4, <1>5, KeysSet
<1> HIDE DEF env, after, bundlePath, id, idPath, keyPath, new
<1>7. \A r \in Roles : env[r] \in Seq(N) \ {<<>>}
  BY <1>1, <1>2 DEF Roles
<1>8. Files(env) = [r \in Roles |-> env[r]] /\ FilesTypeScript(env) = Files(env)
  BY <1>7 DEF Files, FilesTypeScript, IsSet
<1>9. /\ Files(env).id = idPath /\ Files(env).key = keyPath /\ Files(env).bundle = bundlePath
      /\ Files(env) \in [Roles -> Seq(N) \ {<<>>}]
  BY <1>1, <1>7, <1>8 DEF Roles
<1>10. Sound(Files(env), after)
  BY <1>3, <1>4, <1>9 DEF Sound
<1>11. FromFiles(Files(env), after) = "Started" /\ FromFilesGo(Files(env), after) = "Started"
  BY <1>9, <1>10, SoundFilesStart
<1>12. ASSUME id # Absent
       PROVE  LET t == Mint(id, key, key, aud, iat, exp - iat) IN
              /\ VerifyPython(t, new, aud, now) = "Accepted"
              /\ VerifyTypeScript(t, new, aud, now) = "Accepted"
              /\ VerifyGo(t, new, aud, now) = "Accepted"
  <2>1. KeysFor(new, id) \subseteq Jwk /\ PublicJwk(key) \in KeysFor(new, id)
    BY <1>6 DEF PublicJwk, Jwk
  <2>2. QED
    BY ONLY <1>4, <1>6, <1>12, <2>1, HonestVerified, key \in Keys, aud # Listed, aud # Null,
            iat \in Int, iat # Absent, exp \in Int, exp # Absent, now \in Int,
            iat <= now + Leeway, now < exp + Leeway
<1>13. QED
  BY <1>3, <1>8, <1>9, <1>11, <1>12 DEF env, after, id, bundlePath

\* A service added leaves every other service of the root its files and its keys,
\* also one nested under it or above it.
THEOREM AddingLeavesOthers ==
  ASSUME MarksAreNoMaps, NEW N, PathNames \subseteq N,
         NEW root \in Seq(N), NEW name \in Seq(N), NEW key \in Keys,
         NEW disk, Addable(disk, root, name),
         NEW other \in Seq(N), other # name
  PROVE  LET env == ServiceEnv(root, other)
             after == AddService(disk, root, name, key)
             domain == disk[env.bundle].trust_domain
         IN /\ \A path \in {env.id, env.key} :
                 path \in DOMAIN disk <=> path \in DOMAIN after
            /\ \A path \in {env.id, env.key} \cap DOMAIN disk : after[path] = disk[path]
            /\ KeysFor(after[env.bundle], IdOf(domain, other)) =
                 KeysFor(disk[env.bundle], IdOf(domain, other))
<1> DEFINE env == ServiceEnv(root, other)
           after == AddService(disk, root, name, key)
           bundlePath == Append(root, "bundle.json")
           doc == disk[bundlePath]
           id == IdOf(doc.trust_domain, name)
           otherId == IdOf(doc.trust_domain, other)
           idPath == Append(ServiceDir(root, name), "id")
           keyPath == Append(ServiceDir(root, name), "key.pem")
           new == SetKeys(doc, id, {PublicJwk(key)})
<1>1. /\ env.id = Append(ServiceDir(root, other), "id")
      /\ env.key = Append(ServiceDir(root, other), "key.pem")
      /\ env.bundle = bundlePath
  BY DEF ServiceEnv, ServiceDir
<1>2. {env.id, env.key} \cap {idPath, keyPath, bundlePath} = {}
  BY <1>1, PathsApart
<1>3. /\ DOMAIN after = DOMAIN disk \cup {idPath, keyPath} /\ after[bundlePath] = new
      /\ \A p \in DOMAIN disk \ {idPath, keyPath, bundlePath} : after[p] = disk[p]
  <2>1. idPath # keyPath /\ idPath # bundlePath /\ keyPath # bundlePath
    BY PathsApart
  <2>2. bundlePath \in DOMAIN disk
    BY DEF Addable
  <2>3. after = Write(Write(Write(disk, keyPath, key), idPath, id), bundlePath, new)
    BY DEF AddService, Addable, ServiceDir
  <2> HIDE DEF bundlePath, id, idPath, keyPath, new, after
  <2>4. QED
    BY <2>1, <2>2, <2>3 DEF Write
<1>4. otherId # id
  <2> DEFINE S == N \cup {doc.trust_domain}
  <2>1. <<doc.trust_domain>> \in Seq(S) /\ name \in Seq(S) /\ other \in Seq(S)
    BY DEF S
  <2> HIDE DEF S
  <2>2. <<doc.trust_domain>> \o name # <<doc.trust_domain>> \o other
    BY <2>1, CancelLeft
  <2>3. QED
    BY <2>2 DEF IdOf
<1>5. ParsePython(doc) = "Parsed" /\ IsSpiffeId(id) /\ TrustDomainOf(id) = doc.trust_domain
  BY IdIsOfDomain DEF Addable
<1>6. KeysFor(new, otherId) = KeysFor(doc, otherId)
  BY <1>4, <1>5, KeysSet
<1> HIDE DEF env, after, bundlePath, id, otherId, idPath, keyPath, new
<1>7. QED
  BY <1>1, <1>2, <1>3, <1>6 DEF env, after, bundlePath, otherId

\* A service that is given a directory reads the three files in it, in every language.
THEOREM MountedServiceStarts ==
  ASSUME NEW N, PathNames \subseteq N, Unset \notin Seq(N),
         NEW dir \in Seq(N) \ {<<>>}, NEW disk,
         Sound([r \in Roles |-> Append(dir, DirFilename[r])], disk)
  PROVE  LET env == Mounted(dir) IN
         /\ Files(env) = [r \in Roles |-> Append(dir, DirFilename[r])]
         /\ FilesTypeScript(env) = Files(env)
         /\ FromFiles(Files(env), disk) = "Started"
         /\ FromFilesGo(Files(env), disk) = "Started"
<1> DEFINE env == Mounted(dir)
<1>1. env.dir = dir /\ \A r \in Roles : env[r] = Unset
  BY DEF Mounted, Roles
<1> HIDE DEF env
<1>2. /\ Files(env) = [r \in Roles |-> Append(dir, DirFilename[r])]
      /\ FilesTypeScript(env) = Files(env)
  BY <1>1 DEF Files, FilesTypeScript, InDir, IsSet
<1>3. \A r \in Roles : Append(dir, DirFilename[r]) \in Seq(N) \ {<<>>}
  <2>1. \A r \in Roles : DirFilename[r] \in N
    BY DEF DirFilename, Roles, PathNames
  <2>2. QED
    BY <2>1, AppendProperties
<1>4. QED
  BY <1>2, <1>3, SoundFilesStart DEF env
=============================================================================
